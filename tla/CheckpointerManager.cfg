\* Two gets and a close of one thread, and a closeAll.
SPECIFICATION FairSpec
CONSTANTS
  t1 = t1
  g1 = g1
  g2 = g2
  c1 = c1
  a1 = a1
  None = None
  Threads = {t1}
  Getters = {g1, g2}
  Closers = {c1}
  AllClosers = {a1}
  ThreadOf <- OneThread
INVARIANT OneSaver
PROPERTIES
  HandedOutOpen
  FailuresPass
CHECK_DEADLOCK FALSE
