\* A transaction each for two calls of one run: one restart settles them both.
SPECIFICATION Spec
CONSTANTS
  x1 = x1
  x2 = x2
  r1 = r1
  c1 = c1
  c2 = c2
  c3 = c3
  i1 = i1
  i2 = i2
  None = None
  Txns = {x1, x2}
  Runs = {r1}
  Calls = {c1, c2}
  Inputs = {i1, i2}
  TxnOf <- TwoTxn
  InputOf <- TwoInput
  RunOf <- OneRun
CHECK_DEADLOCK FALSE
INVARIANTS
  ActedAsRecorded
  AnswersAreRecorded
PROPERTY ImplementsTransaction
