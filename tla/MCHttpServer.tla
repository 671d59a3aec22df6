---------------------------- MODULE MCHttpServer ----------------------------
(* Small instances of HttpServer for TLC. *)
EXTENDS HttpServer, TLC

Symmetry == Permutations(Workers) \cup Permutations(Conns) \cup Permutations(Uris)
=============================================================================
