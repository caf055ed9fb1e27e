SPECIFICATION FairSpec
CONSTANTS
  Worlds <- MCWorlds
  ReadSize = 3
  RetrieveSize = 2
  ListLen = 4
  MailLen = 5
CHECK_DEADLOCK FALSE
INVARIANTS AnswersInOrder IdleMeansDrained ReadsIntoEmptyBuffer FilesBalanced GoodbyeSent
PROPERTIES AllAnswered ParserHeldWhileBusy AnswersEnd
