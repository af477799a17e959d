\* Twins that ask for one transaction; the database fails, calls are aborted, the run
\* is closed, and the process restarts at any moment.
SPECIFICATION FairSpec
CONSTANTS
  x1 = x1
  x2 = x2
  r1 = r1
  c1 = c1
  c2 = c2
  c3 = c3
  i1 = i1
  i2 = i2
  None = None
  Txns = {x1}
  Runs = {r1}
  Calls = {c1, c2}
  Inputs = {i1, i2}
  TxnOf <- TriplicateTxn
  InputOf <- TriplicateInput
  RunOf <- OneRun
CHECK_DEADLOCK FALSE
INVARIANTS
  ActedAsRecorded
  AnswersAreRecorded
PROPERTIES
  ImplementsTransaction
  CallsReturn
