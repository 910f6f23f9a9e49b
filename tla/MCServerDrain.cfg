SPECIFICATION Spec
CONSTANTS
  Clients = {c1, c2}
  Stops = {s1}
  ThreadLimit = 1
  CountMod = 8
  CreateMayFail = FALSE
  None = None
  c1 = c1
  c2 = c2
  s1 = s1
INVARIANTS
  RunWaitsForNodes
CHECK_DEADLOCK FALSE
