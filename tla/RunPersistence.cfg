\* Two runs of one thread; the first asks for up to two approvals, the second for one.
SPECIFICATION Spec
CONSTANTS
  t1 = t1
  r1 = r1
  r2 = r2
  q1 = q1
  q2 = q2
  q3 = q3
  None = None
  Threads = {t1}
  Runs = {r1, r2}
  Requests = {q1, q2, q3}
  ThreadOf <- OneThread
  RunOf <- Asks
INVARIANTS
  RecordsAgree
  ApprovalIffResumable
  RunningIsOwned
PROPERTIES
  OutcomeIsFinal
  ImplementsLedger
