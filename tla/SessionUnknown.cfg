\* One user types one word, any word.
CONSTANTS
  k1 = k1  k2 = k2  t = t  e1 = e1  empty = empty  p1 = p1  p2 = p2
  None = None
  Threads <- OneLine
  Line = t
  Clients <- TwoClients
  Emails <- TheEmails
  Passwords <- ThePasswords
  Empty = empty
  MaxCommands = 1
  StartIds <- ZeroOrOne
  Users <- TwoUsers
SPECIFICATION SessionSpec
INVARIANT OnlyRegisterCreates
CHECK_DEADLOCK FALSE
