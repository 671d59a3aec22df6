\* INT_MAX scaled down to 2: the counter of readers passes it without a writer.
CONSTANTS
  Threads = {t1, t2, t3}
  NoThread = NoThread
  Priorities = {"N_WAY"}
  Ns = {1}
  IntMax = 2

SYMMETRY Symmetry
SPECIFICATION HSpec

INVARIANTS
  AtMostNPass

\* A lock whose mutex is lost, or that has been deleted, stops.
CHECK_DEADLOCK FALSE
