-------------------------- MODULE MCSessionChanges --------------------------
(* An instance of SessionChanges for TLC. *)
EXTENDS SessionChanges, TLC

Symmetry == Permutations(Files)
=============================================================================
