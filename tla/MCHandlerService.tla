-------------------------- MODULE MCHandlerService --------------------------
(***************************************************************************)
(* Instances of HandlerService: the values are those of the cfg.           *)
(***************************************************************************)
EXTENDS HandlerService
=============================================================================
