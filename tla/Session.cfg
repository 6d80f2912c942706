\* Two clients type two commands between them, about one email.
CONSTANTS
  k1 = k1  k2 = k2  t = t  e1 = e1  empty = empty  p1 = p1  p2 = p2
  None = None
  Threads <- OneLine
  Line = t
  Clients <- TwoClients
  Emails <- TheEmails
  Passwords <- ThePasswords
  Empty = empty
  MaxCommands = 2
  StartIds <- ZeroOrOne
  Users <- TwoUsers
SPECIFICATION FairSession
INVARIANTS
  TypeOK
  LoginFollowsCreate
  
  ScreenFollowsKeyboard
  
  AccountsWereTyped
PROPERTIES
  CommandsAreAnswered
  ImplementsDesk
\* Users stop typing.
CHECK_DEADLOCK FALSE
