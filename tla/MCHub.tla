------------------------------- MODULE MCHub -------------------------------
(* Model checking of Hub: the sizes of the instance are in the cfg files. *)
EXTENDS Hub, TLC

Symmetry == Permutations(Nodes) \cup Permutations(Senders)

=============================================================================
