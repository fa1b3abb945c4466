---------------------------- MODULE MCLoopThread ----------------------------
(***************************************************************************)
(* LoopThread for TLC.                                                     *)
(***************************************************************************)
EXTENDS LoopThread
=============================================================================
