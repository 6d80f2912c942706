\* Two connections, one of which sends two requests without waiting, with a
\* handle each or sharing one in turn; the uninitialised counter may start
\* at 0 or below.
CONSTANTS
  c1 = c1  c2 = c2  c3 = c3  h1 = h1  h2 = h2
  None = None  Dropped = Dropped
  Conns <- TwoConns
  Handles <- TwoHandles
  MaxSends <- TwoAndOne
  Faults <- NoFaults
  StartIds <- UpToZero
SYMMETRY HandlesAlike
SPECIFICATION Spec
INVARIANTS
  TypeOK
  ReplyReachesRequester
  IdsUnique
  LossHasACause
PROPERTIES
  CounterNeverGoesBack
\* Peers may stop, and the process may crash, for good.
CHECK_DEADLOCK FALSE
