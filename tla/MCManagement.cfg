SPECIFICATION FairSpec
CONSTANTS
  MaxDataLen = 4
  BufferSize = 13
  MaxUsers = 2
  Options <- MCOptions
  Asked = {3, 5}
  Lines <- MCLines
  Strange <- MCStrange
  AuthToken <- MCToken
  Started <- MCStarted
  Changing = {3}
  Growth = 1
  Requests = 2
CHECK_DEADLOCK FALSE
INVARIANTS UsersAreDistinct AnswerMatchesRequest
PROPERTIES OnlyTokenAdds EveryRequestAnswered
