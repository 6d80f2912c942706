\* A connection with two requests beside an idle one, under weak fairness of
\* the threads; the handle of the first may pass to the second.
CONSTANTS
  c1 = c1  c2 = c2  c3 = c3  h1 = h1  h2 = h2
  None = None  Dropped = Dropped
  Conns <- TwoConns
  Handles <- TwoHandles
  MaxSends <- TwoNone
  Faults <- AllFaults
  StartIds <- FromOne
SPECIFICATION FairSpec
PROPERTIES
  EveryRequestSettles
  GoneClientIsClosed
\* Peers may stop, and the process may crash, for good.
CHECK_DEADLOCK FALSE
