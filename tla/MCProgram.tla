----------------------------- MODULE MCProgram -----------------------------
(***************************************************************************)
(* Instances of Program: sizes are in units of half the mock's buffer.     *)
(***************************************************************************)
EXTENDS Program
=============================================================================
