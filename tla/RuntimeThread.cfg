\* The resume of a run, with two concurrent abort() / fail() calls, and a compaction.
SPECIFICATION LiveSpec
CONSTANTS
  t1 = t1
  b = b
  c = c
  k1 = k1
  k2 = k2
  r1 = r1
  r2 = r2
  NoOp = NoOp
  Nobody = Nobody
  Threads = {t1}
  Ops = {b, c}
  Callers = {k1, k2}
  ThreadOf <- ThreadDef
  RunOf <- RunDef
  KindOf <- KindDef
INVARIANTS
  OneOwner
  ReturnMeansQuiescent
  AnswersStand
PROPERTIES
  CallsReturn
  ImplementsLiveLease
CHECK_DEADLOCK FALSE
