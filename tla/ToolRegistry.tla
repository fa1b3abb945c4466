---------------------------- MODULE ToolRegistry ----------------------------
(***************************************************************************)
(* ToolRegistry (pi/tools.py): register() checks the name and the frozen   *)
(* flag, infers the schema of the function without the lock, checks both   *)
(* again and adds the tool.  A tool is told by the call that registered it.*)
(* HarnessLifecycle has the threads that call it.                          *)
(***************************************************************************)
CONSTANTS
    Registrars,  \* calls of register()
    Twins,       \* those of them with one and the same name
    NoTool

VARIABLES
    tools,       \* _tools: the tool of each name
    frozen,      \* _frozen
    registering  \* where each register() is

Name(t) == IF t \in Twins THEN "shared" ELSE t
Names == {Name(t) : t \in Registrars}

TypeOK ==
    /\ tools \in [Names -> Registrars \cup {NoTool}]
    /\ frozen \in BOOLEAN
    /\ registering \in [Registrars -> {"idle", "infer", "returned", "raised"}]

Init ==
    /\ tools = [n \in Names |-> NoTool]
    /\ frozen = FALSE
    /\ registering = [t \in Registrars |-> "idle"]

Refused(t) == frozen \/ tools[Name(t)] # NoTool

Goto(t, label) == registering' = [registering EXCEPT ![t] = label]

\* The first check under the lock.
Check(t) ==
    /\ registering[t] = "idle"
    /\ Goto(t, IF Refused(t) THEN "raised" ELSE "infer")
    /\ UNCHANGED <<tools, frozen>>

\* The context parameter cannot be told, or a type has no schema.
InferFails(t) ==
    /\ registering[t] = "infer"
    /\ Goto(t, "raised")
    /\ UNCHANGED <<tools, frozen>>

\* Mutant: the tool is added on the strength of the first check.
AddUnchecked(t) ==
    /\ registering[t] = "infer"
    /\ Goto(t, "returned")
    /\ tools' = [tools EXCEPT ![Name(t)] = t]
    /\ UNCHANGED frozen

\* The second check and the entry, under the lock.
Add(t) ==
    /\ registering[t] = "infer"
    /\ Goto(t, IF Refused(t) THEN "raised" ELSE "returned")
    /\ tools' = IF Refused(t) THEN tools ELSE [tools EXCEPT ![Name(t)] = t]
    /\ UNCHANGED frozen

Register(t) == Check(t) \/ InferFails(t) \/ Add(t)

Freeze ==
    /\ frozen' = TRUE
    /\ UNCHANGED <<tools, registering>>
=============================================================================
