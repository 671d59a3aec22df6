------------------------------ MODULE MCCacher ------------------------------
(* Model checking the cache simulator: page names are interchangeable.     *)
EXTENDS Cacher

Symmetry == Permutations(Uris)
=============================================================================
