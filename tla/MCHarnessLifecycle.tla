------------------------- MODULE MCHarnessLifecycle -------------------------
(***************************************************************************)
(* HarnessLifecycle for TLC.                                               *)
(***************************************************************************)
EXTENDS HarnessLifecycle
=============================================================================
