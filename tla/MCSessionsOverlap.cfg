SPECIFICATION Spec
CONSTANTS
  Conn = {c1, c2, c3}
  Name = {alice, bob}
  NoName = NoName
  NULL = NULL
  MaxUsers = 2
  CounterMax = 2
  LeaveUnauthenticated = TRUE
SYMMETRY Symmetry
INVARIANTS FlagDownMeansLoggedOut
