SPECIFICATION Spec
CONSTANTS
  Threads = {t1, t2}
  MaxCalls = 5
  MaxSessions = 3
  MaxTime = 1
  Wrap = 2
  Names = {"a"}
  Values = {x, y}
  x = x
  y = y
  t1 = t1
  t2 = t2
SYMMETRY Symmetry
INVARIANTS
  SessionIInv
  OwnSession
  SessionsExact
  ScanSound
  ReadsLast
CHECK_DEADLOCK FALSE
