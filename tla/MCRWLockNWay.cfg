\* Five threads: two readers and two writers, or four of a kind, can meet while one more
\* barges in. IntMax 3, so that readersT wraps and n reaches it.
CONSTANTS
  Threads = {t1, t2, t3, t4, t5}
  NoThread = NoThread
  Priorities = {"READERS", "WRITERS", "N_WAY"}
  Ns = {1, 2, 3}
  IntMax = 3

SYMMETRY Symmetry
SPECIFICATION HSpec

INVARIANTS
  TypeOK
  CountsAgree
  Exclusion
  SomebodyIsNext
  LostOnlyWhenUnused
  BoundedOvertaking

PROPERTIES
  ContractSpec

\* A lock whose mutex is lost, or that has been deleted, stops.
CHECK_DEADLOCK FALSE
