SPECIFICATION Spec
CONSTANTS
  Conns = {c1}
  Txs = {t1, t2}
  NoTx = NoTx
  MaxStmts = 2
  c1 = c1
  t1 = t1
  t2 = t2
SYMMETRY Symmetry
INVARIANTS
  AllOrNothing
  CommitVerdict
  ErrorLeavesNothing
  NoWayBack
PROPERTIES
  ImplementsAtomicTx
CHECK_DEADLOCK FALSE
