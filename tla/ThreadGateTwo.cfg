\* Two threads, the second with a run and a deletion of its own.
SPECIFICATION GateLiveSpec
CONSTANTS
  t1 = t1
  t2 = t2
  run1 = run1
  run2 = run2
  set1 = set1
  set2 = set2
  del1 = del1
  del2 = del2
  None = None
  Threads = {t1, t2}
  Requests = {run1, run2, set1, del1, del2}
  ThreadOf <- TwoThreads
  KindOf <- Kinds
INVARIANT OneAtATime
PROPERTIES
  RecoveryAdmitsNothing
  NobodyWaitsForEver
CHECK_DEADLOCK FALSE
