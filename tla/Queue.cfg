\* Four threads, so that two pushers and two poppers can sleep and be overtaken;
\* a ring of two slots, so that the indices wrap; two elements, so that order shows.
\* No symmetry: it is unsound for liveness.
CONSTANTS
  Threads = {t1, t2, t3, t4}
  Elems = {a, b}
  Size = 2
  NoElem = NoElem

SPECIFICATION FairSpec

INVARIANTS
  TypeOK
  NobodyStranded

PROPERTIES
  FifoSpec
  Progress

\* After queue_delete nothing more happens.
CHECK_DEADLOCK FALSE
