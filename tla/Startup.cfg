\* Two authentication servers, two gateways and a client, started at any time
\* and in any order.
CONSTANTS
  a1 = a1  a2 = a2  g1 = g1  g2 = g2  k1 = k1
  None = None
  Auths <- TwoAuths
  Gateways <- TwoGateways
  Clients <- OneClient
  Statements = 2
SPECIFICATION FairStart
INVARIANTS
  StartTypeOK
  AcceptedHasADatabase
PROPERTIES
  ConnectedIsNotLeftWaiting
\* All programs may have ended.
CHECK_DEADLOCK FALSE
