--------------------------- MODULE MCHarnessPump ---------------------------
(***************************************************************************)
(* HarnessPump for TLC.                                                    *)
(***************************************************************************)
EXTENDS HarnessPump
=============================================================================
