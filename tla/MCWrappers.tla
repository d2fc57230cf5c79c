----------------------------- MODULE MCWrappers -----------------------------
(***************************************************************************)
(* Instances of Wrappers: handles are interchangeable.                     *)
(***************************************************************************)
EXTENDS Wrappers, TLC

Symmetry == Permutations(Handles)
=============================================================================
