\* A buffer of three units: a head of two leaves room for one unit of the body, a head
\* of four has no room for its blank line.  Two connections show what one leaves to
\* the next; with three descriptors one leaked by the first PUT of an existing file has
\* the second PUT of it answered 500, while a GET is served.
CONSTANTS
  Uris = {u}
  Kinds = {"absent", "uncreatable", "dir", "file", "read-only", "write-only"}
  Heads = {2, 4}
  Lengths = {0, 2}
  NoHeader = NoHeader
  MaxBody = 2
  BufSize = 3
  FdLimit = 3
  MaxConns = 2

SPECIFICATION Spec

INVARIANTS
  TypeOK
  LeakStarves
  AnsweredOnce
  NoForeignBytes
  PutStores

PROPERTIES
  EveryConnectionEnds

\* main returns when accept fails, and a signal may end it.
CHECK_DEADLOCK FALSE
