--------------------------- MODULE MCHarnessQueue ---------------------------
(***************************************************************************)
(* HarnessQueue for TLC.                                                   *)
(***************************************************************************)
EXTENDS HarnessQueue
=============================================================================
