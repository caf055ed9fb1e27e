SPECIFICATION MailSpec
CONSTANTS
  Conn = {c1, c2}
  Name = {alice}
  NoName = NoName
  NULL = NULL
  MaxUsers = 1
  CounterMax = 1
  LeaveUnauthenticated = FALSE
  f1 = f1
  f2 = f2
  f3 = f3
  File = {f1, f2, f3}
  Octets <- MCOctets
  MaxMails = 2
INVARIANTS MailTypeOK CountsMatchMarks OneSessionPerUser
PROPERTIES OnlyQuitRemoves SessionMailStays QuitTellsTheTruth ImplementsMailAccess
