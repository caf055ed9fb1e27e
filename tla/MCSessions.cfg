SPECIFICATION FairSpec
CONSTANTS
  Conn = {c1, c2, c3}
  Name = {alice, bob}
  NoName = NoName
  NULL = NULL
  MaxUsers = 1
  CounterMax = 1
  LeaveUnauthenticated = TRUE
INVARIANTS TypeOK FlagHasOwner MetricsAgree PoolIsList
PROPERTIES LeavingReleases
