------------------------------ MODULE MCLookups ------------------------------
(* Lookups with model values. *)
EXTENDS Lookups, TLC

CONSTANTS quarantine, alice, bob, f1, uploads

MCSegment == {Empty, quarantine, alice, bob, f1}

MCPrefix == <<quarantine, Empty>>

Symmetry == Permutations(Messages) \union Permutations(Handlers)
=============================================================================
