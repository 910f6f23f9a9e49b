SPECIFICATION FairSpec
CONSTANTS
  Opens = {o1, o2}
  Closes = {k1}
  ConnStrings = {s1}
  ConnectMayFail = TRUE
  Dtor = dtor
  None = None
  o1 = o1
  o2 = o2
  k1 = k1
  s1 = s1
PROPERTIES
  CallsEnd
  DestructorEnds
  DisposedIsDeleted
CHECK_DEADLOCK FALSE
