SPECIFICATION Spec
CONSTANTS
  Opens = {o1, o2}
  Closes = {k1}
  ConnStrings = {s1, s2}
  ConnectMayFail = TRUE
  Dtor = dtor
  None = None
  o1 = o1
  o2 = o2
  k1 = k1
  s1 = s1
  s2 = s2
SYMMETRY OpenSymmetry
INVARIANTS
  DbPoolIInv
  CreatorUndisturbed
  PoolSound
  InstancesExact
  StringHonoured
CHECK_DEADLOCK FALSE
