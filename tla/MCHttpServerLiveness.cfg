\* No directory and descriptors enough: no open of a PUT fails. Two URIs, so that requests
\* share a lock or have one each; no symmetry, which is unsound for liveness.
CONSTANTS
  Workers = {w1, w2}
  Main = Main
  Conns = {c1, c2}
  BadFd = BadFd
  Uris = {u1, u2}
  Kinds = {"absent"}
  Old = Old
  FdLimit = 6
  BodySize = 1

SPECIFICATION FairSpec

PROPERTIES
  OneLockPerUri
  EveryConnectionCloses

\* When all connections are closed and accept fails no more, nothing happens.
CHECK_DEADLOCK FALSE
