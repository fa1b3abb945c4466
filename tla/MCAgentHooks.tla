---------------------------- MODULE MCAgentHooks ----------------------------
(***************************************************************************)
(* AgentHooks for TLC: three classes, in which the hooks of every kind     *)
(* have either colour, or none.                                            *)
(***************************************************************************)
EXTENDS AgentHooks

\* The notification hooks of pi's events have one colour, the others theirs.
Class(notify, on, decide) ==
    [h \in Hooks |-> IF h[1] \in RpcEvents THEN notify
                     ELSE IF h[2] = "on" THEN on ELSE decide]

MCClasses == {Class("sync", "async", "sync"), Class("async", "sync", "async"),
              Class("async", "none", "sync")}
=============================================================================
