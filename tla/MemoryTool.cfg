\* A buffer of four units holds a head of two and half a message of four, or a head
\* that leaves no room for any; a file of
\* five is printed in two chunks at least; writes to stdout fail up to twice.
CONSTANTS
  Heads = {2, 4}
  Lengths = {0, 1, 3, 5}
  MaxMessage = 4
  MaxFile = 5
  Kinds = {"file", "absent", "dir", "read-only", "uncreatable"}
  BufSize = 4
  MaxFails = 2

SPECIFICATION Spec

INVARIANTS
  TypeOK
  GetIsFile
  GetLosesNothing
  SetIsMessage
  SetNoShorter
  RefusedTouchesNothing

\* The command ends.
CHECK_DEADLOCK FALSE
