SPECIFICATION Spec
CONSTANTS
  Clients = {c1, c2, c3}
  Stops = {s1}
  ThreadLimit = 1
  CountMod = 8
  CreateMayFail = TRUE
  None = None
  c1 = c1
  c2 = c2
  c3 = c3
  s1 = s1
SYMMETRY ClientSymmetry
INVARIANTS
  ServerIInv
  LateNeverServed
  CountBounded
  CountExactUnlessRaced
  RegistryExactUnlessRaced
CHECK_DEADLOCK FALSE
