-------------------------- MODULE MCContentManager --------------------------
(* Small instances of ContentManager. *)
EXTENDS ContentManager, TLC

Symmetry == Permutations(Requests) \cup Permutations(Names)
=============================================================================
