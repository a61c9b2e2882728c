------------------------------ MODULE MCWiring ------------------------------
(* Wiring with model values. *)
EXTENDS Wiring, TLC

Symmetry == Permutations(Processes) \union Permutations(Ids)
=============================================================================
