\* One URI, so that all requests meet; five kinds of thing on disk; one descriptor
\* less than three connections and two files need, so that they run out.
CONSTANTS
  Workers = {w1, w2}
  Main = Main
  Conns = {c1, c2, c3}
  BadFd = BadFd
  Uris = {u1}
  Kinds = {"file", "absent", "no_dir", "dir", "forbidden"}
  Old = Old
  FdLimit = 4
  BodySize = 2

SYMMETRY Symmetry
SPECIFICATION Spec

INVARIANTS
  TypeOK
  LogExplainsAnswers
  LogExplainsDisk
  LeftLocked
  LeftOpen
  SomebodyGoesOn

PROPERTIES
  DispatchFifo

\* A failed PUT can stop the whole server.
CHECK_DEADLOCK FALSE
