\* One gateway connection; statements fail and the process crashes once.
CONSTANTS
  t1 = t1  t2 = t2  e1 = e1  e2 = e2  p1 = p1  p2 = p2
  None = None
  Threads <- OneThread
  Emails <- TwoEmails
  Passwords <- TwoPasswords
  MaxRequests <- Three
  MaxCrashes = 1
  Faults <- SqlFaults
  Placeholder = 10
  Junk <- StackJunk
  Users <- ThreeUsers
SYMMETRY Alike
SPECIFICATION Spec
INVARIANTS
  SettledAccountHasOwnUser
  ToldIdIsStored
  ExistsIsTrue
\* The gateways may stop sending.
CHECK_DEADLOCK FALSE
