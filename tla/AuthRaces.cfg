\* Two gateway connections, one crash, no failing statement.
CONSTANTS
  t1 = t1  t2 = t2  e1 = e1  e2 = e2  p1 = p1  p2 = p2
  None = None
  Threads <- TwoThreads
  Emails <- TwoEmails
  Passwords <- TwoPasswords
  MaxRequests <- TwoAndOne
  MaxCrashes = 1
  Faults <- NoFaults
  Placeholder = 10
  Junk <- StackJunk
  Users <- ThreeUsers
SYMMETRY Alike
SPECIFICATION Spec
INVARIANTS
  TypeOK
  
  CreatedAccountOpens
  
  
  
  ExistsIsTrue
\* The gateways may stop sending.
CHECK_DEADLOCK FALSE
