SPECIFICATION FairListSpec
CONSTANTS
  MailCount = 9
  Octets <- MCOctets
  Deletions <- MCDeletions
  WriteSize = 40
  Rooms = {0, 8, 12, 15, 19, 33, 34, 36, 38, 40}
CHECK_DEADLOCK FALSE
INVARIANTS ListsEachOnce
PROPERTIES ListEnds
