---------------------------- MODULE MCIoObjects ----------------------------
(***************************************************************************)
(* Instances of IoObjects: the blocks of memory are interchangeable, so    *)
(* are the adapters, and the references that the program keeps itself.     *)
(***************************************************************************)
EXTENDS IoObjects, TLC

Symmetry ==
    Permutations(Blocks) \cup Permutations(Adapters) \cup Permutations(Refs \ Adapters)
=============================================================================
