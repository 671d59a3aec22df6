\* A PUT to a directory, then any request for it.
CONSTANTS
  Workers = {w1, w2}
  Main = Main
  Conns = {c1, c2}
  BadFd = BadFd
  Uris = {u1}
  Kinds = {"dir"}
  Old = Old
  FdLimit = 4
  BodySize = 1

SPECIFICATION FairSpec

PROPERTIES
  LockCallReturns

\* A failed PUT can stop the whole server.
CHECK_DEADLOCK FALSE
