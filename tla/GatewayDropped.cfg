\* One connection sends two requests without waiting for an answer.
CONSTANTS
  c1 = c1  c2 = c2  c3 = c3  h1 = h1  h2 = h2
  None = None  Dropped = Dropped
  Conns <- OneConn
  Handles <- OneHandle
  MaxSends <- Two
  Faults <- AllFaults
  StartIds <- FromOne
SPECIFICATION Spec
INVARIANTS
  DroppedMeansDisconnected
\* Peers may stop, and the process may crash, for good.
CHECK_DEADLOCK FALSE
