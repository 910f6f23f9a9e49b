SPECIFICATION FairSpec
CONSTANTS
  Clients = {c1, c2}
  Stops = {s1}
  ThreadLimit = 1
  CountMod = 8
  CreateMayFail = TRUE
  None = None
  c1 = c1
  c2 = c2
  s1 = s1
PROPERTIES
  AcceptedIsClosed
  StopCompletes
CHECK_DEADLOCK FALSE
