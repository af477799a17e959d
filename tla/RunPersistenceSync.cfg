\* The instance of RunPersistence.cfg against what the documentation says of sync failures.
SPECIFICATION Spec
CONSTANTS
  t1 = t1
  r1 = r1
  r2 = r2
  q1 = q1
  q2 = q2
  q3 = q3
  None = None
  Threads = {t1}
  Runs = {r1, r2}
  Requests = {q1, q2, q3}
  ThreadOf <- OneThread
  RunOf <- Asks
PROPERTY SyncFailureKeepsInterruption
