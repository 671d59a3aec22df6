\* rwlock_new(N_WAY, 0): a reader and a writer wait for a writer to finish.
CONSTANTS
  Threads = {t1, t2, t3}
  NoThread = NoThread
  Priorities = {"N_WAY"}
  Ns = {0}
  IntMax = 2

SPECIFICATION Spec

INVARIANTS
  SomebodyIsNext

\* A lock whose mutex is lost, or that has been deleted, stops.
CHECK_DEADLOCK FALSE
