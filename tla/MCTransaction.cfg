SPECIFICATION FairSpec
CONSTANTS
  Threads = {t1, t2, t3}
  MaxCalls = 1
  MaxEsc = 1
  DriverMayThrow = TRUE
  t1 = t1
  t2 = t2
  t3 = t3
INVARIANTS
  StatementAlone
  LockAccounted
  DisposeFreesAll
  TransactionIInv
PROPERTIES
  DeadForEver
  CallsEnd
CHECK_DEADLOCK FALSE
