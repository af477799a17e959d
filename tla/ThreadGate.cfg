\* One thread: two runs, two deletions and an idle mutation in any order, with a shutdown.
\* No symmetry, for the liveness properties.
SPECIFICATION GateLiveSpec
CONSTANTS
  t1 = t1
  t2 = t2
  run1 = run1
  run2 = run2
  set1 = set1
  set2 = set2
  del1 = del1
  del2 = del2
  None = None
  Threads = {t1}
  Requests = {run1, run2, set1, del1, del2}
  ThreadOf <- OneThread
  KindOf <- Kinds
INVARIANT OneAtATime
PROPERTIES
  RecoveryAdmitsNothing
  NobodyWaitsForEver
CHECK_DEADLOCK FALSE
