\* Capacities 1 and 2 from -N and 3 by default, one page more than the largest cache,
\* so that every policy has to choose; nine lines, so that a clock of three slots is
\* filled, hit and swept twice; three options, what a valid command line holds.
CONSTANTS
  Uris = {u1, u2, u3, u4}
  Numbers = {0, 1, 2}
  NoUri = NoUri
  MaxArgs = 3
  MaxLines = 9

SYMMETRY Symmetry
SPECIFICATION Spec

INVARIANTS
  TypeOK
  MissesCounted
  HitsOfPolicy

PROPERTIES
  PolicySpec
  SweepEnds

\* After the end of the input the program exits.
CHECK_DEADLOCK FALSE
