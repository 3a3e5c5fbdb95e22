---------------------------- MODULE MCLoopingService ----------------------------
(*****************************************************************************)
(* TLC instances of LoopingService: "OTHER" stands for every request without *)
(* a handler, malformed ones included.                                       *)
(*****************************************************************************)
EXTENDS LoopingService

MCPrefix == {"START", "STOP", "RESET", "READ", "OTHER"}
=============================================================================
