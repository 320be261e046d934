-------------------------- MODULE MCCommandStream --------------------------
(* Model checking of CommandStream: the sizes are in the cfg files. *)
EXTENDS CommandStream, TLC

Symmetry == Permutations(Nodes) \cup Permutations(Jobs)

=============================================================================
