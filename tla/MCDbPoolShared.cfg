SPECIFICATION Spec
CONSTANTS
  Opens = {o1, o2, o3}
  Closes = {}
  ConnStrings = {s1}
  ConnectMayFail = FALSE
  Dtor = dtor
  None = None
  o1 = o1
  o2 = o2
  o3 = o3
  s1 = s1
INVARIANTS
  ExclusiveUse
CHECK_DEADLOCK FALSE
