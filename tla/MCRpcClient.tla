---------------------------- MODULE MCRpcClient ----------------------------
(***************************************************************************)
(* RpcClient for TLC.                                                      *)
(***************************************************************************)
EXTENDS RpcClient
=============================================================================
