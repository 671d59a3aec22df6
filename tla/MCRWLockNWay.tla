---------------------------- MODULE MCRWLockNWay ----------------------------
(* Small instances of RWLockNWay for TLC. *)
EXTENDS RWLockNWay, TLC

Symmetry == Permutations(Threads)
=============================================================================
