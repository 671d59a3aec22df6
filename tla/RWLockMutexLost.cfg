\* Two threads are enough: one releases the lock, the other calls reader_lock.
CONSTANTS
  Threads = {t1, t2}
  NoThread = NoThread
  Priorities = {"READERS"}
  Ns = {1}
  IntMax = 1

SPECIFICATION FairSpec

PROPERTIES
  ReaderCallReturns

\* A lock whose mutex is lost, or that has been deleted, stops.
CHECK_DEADLOCK FALSE
