---------------------------- MODULE MCRpcEvents ----------------------------
(***************************************************************************)
(* RpcEvents for TLC.  MaxWrites bounds what pi writes; Chunks lets a      *)
(* chunk end inside a record or hold several; MaxBuffer is small enough to *)
(* overflow.                                                               *)
(***************************************************************************)
EXTENDS RpcEvents

\* Ascending is the sort of the community modules.
ASSUME \A S \in SUBSET (0..5) : Ascending(S) = SetToSortSeq(S, <)
=============================================================================
