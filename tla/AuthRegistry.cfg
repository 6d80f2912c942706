\* One gateway connection, three requests, nothing fails.
CONSTANTS
  t1 = t1  t2 = t2  e1 = e1  e2 = e2  p1 = p1  p2 = p2
  None = None
  Threads <- OneThread
  Emails <- TwoEmails
  Passwords <- TwoPasswords
  MaxRequests <- Three
  MaxCrashes = 0
  Faults <- NoFaults
  Placeholder = 10
  Junk <- StackJunk
  Users <- ThreeUsers
SPECIFICATION Spec
PROPERTIES
  ImplementsRegistry
\* The gateways may stop sending.
CHECK_DEADLOCK FALSE
