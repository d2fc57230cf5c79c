-------------------------- MODULE MCOneshotHotplug --------------------------
(***************************************************************************)
(* Instances of OneshotHotplug.                                            *)
(***************************************************************************)
EXTENDS OneshotHotplug

ArrivedOrLeft == {"arrived", "left"}
=============================================================================
