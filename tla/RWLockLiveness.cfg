\* No symmetry: it is unsound for liveness.
CONSTANTS
  Threads = {t1, t2, t3}
  NoThread = NoThread
  Priorities = {"READERS", "WRITERS", "N_WAY"}
  Ns = {1, 2}
  IntMax = 2

SPECIFICATION FairSpec

PROPERTIES
  WaitingReaderReads
  NeitherSideStarves

\* A lock whose mutex is lost, or that has been deleted, stops.
CHECK_DEADLOCK FALSE
