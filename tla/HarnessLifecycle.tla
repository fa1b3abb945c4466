-------------------------- MODULE HarnessLifecycle --------------------------
(***************************************************************************)
(* start(), close() and snapshot() of a harness (pi/agent.py): what they   *)
(* do to the core on the owner thread, and the coroutines they hand to the *)
(* asyncio loop, which bring up and tear down the bridge, pi and the       *)
(* directory of the shim.                                                  *)
(*                                                                         *)
(* The operation itself is one action on the owner thread.  Its coroutine  *)
(* runs on, one action per await, while the owner thread takes the next    *)
(* operation: start() writes core.endpoint and core.pi from there.         *)
(*                                                                         *)
(* A call is refused once the harness is closed; HarnessQueue has the      *)
(* queue in between.  What a start() makes is named after its caller.      *)
(*                                                                         *)
(* start() also freezes the ToolRegistry, of which pi fetches a manifest   *)
(* over the bridge; other threads may be inside register() then.           *)
(***************************************************************************)
CONSTANTS
    Starters,  \* threads that call start() once
    Closers,   \* threads that call close() once
    Readers,   \* threads that call snapshot() once
    Serial,    \* one application thread makes all the calls
    MayFail,   \* start() may fail, and pi may exit by itself
    CloseHangs,  \* what core.close() awaits may need more than ten seconds
    Registrars, Twins, NoTool,  \* see ToolRegistry
    None

Clients == Starters \cup Closers \cup Readers

ASSUME LifecycleAssumption ==
    /\ Starters \cap Closers = {}
    /\ Readers \cap (Starters \cup Closers) = {}
    /\ None \notin Starters
    /\ Twins \subseteq Registrars /\ NoTool \notin Registrars
    /\ {Serial, MayFail, CloseHangs} \subseteq BOOLEAN

VARIABLES
    closed,    \* PiAgentHarness._closed
    corePi,    \* core.pi
    coreServer,  \* core.server
    endpoint,  \* core.endpoint
    tempdir,   \* core._tempdir
    pc,        \* where each call is
    outcome,   \* what it ended with
    taken,     \* what each close() took from the core
    seen,      \* whether each snapshot() said started
    bridge,    \* the listening socket of each start()
    child,     \* the pi process of each start()
    dir,       \* the directory of each start()
    tools, frozen, registering,  \* see ToolRegistry
    manifest   \* the tools the pi of each start() knows of

core == <<corePi, coreServer, endpoint, tempdir>>
world == <<bridge, child, dir>>
registry == <<tools, frozen, registering>>
tooling == <<registry, manifest>>
vars == <<closed, core, pc, outcome, taken, seen, world, tooling>>

Registry == INSTANCE ToolRegistry

NoManifest == [n \in {} |-> NoTool]

Refs == Starters \cup {None}

TypeOK ==
    /\ closed \in BOOLEAN
    /\ {corePi, coreServer, endpoint, tempdir} \subseteq Refs
    /\ pc \in [Clients -> {"idle", "queued", "bridge", "spawn", "probe",
                           "closePi", "closeServer", "cleanup", "finally",
                           "done"}]
    /\ outcome \in [Clients -> {"none", "returned", "raised"}]
    /\ taken \in [Closers -> [pi : Refs, server : Refs, tempdir : Refs]]
    /\ seen \in [Readers -> BOOLEAN]
    /\ bridge \in [Starters -> {"none", "up", "closed"}]
    /\ child \in [Starters -> {"none", "alive", "dead"}]
    /\ dir \in [Starters -> {"none", "exists", "removed"}]
    /\ Registry!TypeOK
    /\ manifest \in [Starters -> [Registry!Names -> Registrars \cup {NoTool}]
                                  \cup {NoManifest}]

Init ==
    /\ closed = FALSE
    /\ corePi = None /\ coreServer = None /\ endpoint = None /\ tempdir = None
    /\ pc = [c \in Clients |-> "idle"]
    /\ outcome = [c \in Clients |-> "none"]
    /\ taken = [k \in Closers |-> [pi |-> None, server |-> None,
                                   tempdir |-> None]]
    /\ seen = [r \in Readers |-> FALSE]
    /\ bridge = [a \in Starters |-> "none"]
    /\ child = [a \in Starters |-> "none"]
    /\ dir = [a \in Starters |-> "none"]
    /\ Registry!Init
    /\ manifest = [a \in Starters |-> NoManifest]

-----------------------------------------------------------------------------
Goto(c, label) == pc' = [pc EXCEPT ![c] = label]

\* The call ends.  A result that arrives on a closed harness is not delivered.
Finish(c, result) ==
    /\ outcome' = [outcome EXCEPT ![c] = IF closed THEN "raised" ELSE result]
    /\ Goto(c, IF c \in Closers THEN "finally" ELSE "done")

\* close() on a closed harness returns, every other call raises.
Begin(c) ==
    /\ pc[c] = "idle"
    /\ Serial => \A d \in Clients : pc[d] \in {"idle", "done"}
    /\ IF closed
       THEN /\ Goto(c, "done")
            /\ outcome' = [outcome EXCEPT ![c] =
                             IF c \in Closers THEN "returned" ELSE "raised"]
       ELSE Goto(c, "queued") /\ UNCHANGED outcome
    /\ UNCHANGED <<tooling, closed, core, taken, seen, world>>

-----------------------------------------------------------------------------
(* start().                                                                *)

\* The part of start() before its coroutine: no more tools, a server object
\* and, if there is none yet, a directory for the shim.
Prepare(a) ==
    /\ Registry!Freeze
    /\ coreServer' = a
    /\ tempdir' = IF tempdir = None THEN a ELSE tempdir
    /\ dir' = IF tempdir = None THEN [dir EXCEPT ![a] = "exists"] ELSE dir

\* The check of core.pi, and the handover to the loop.
StartCore(a) ==
    /\ pc[a] = "queued"
    /\ corePi = None
    /\ Prepare(a)
    /\ Goto(a, "bridge")
    /\ UNCHANGED <<manifest, closed, corePi, endpoint, outcome, taken, seen,
                   bridge, child>>

StartRefused(a) ==
    /\ pc[a] = "queued"
    /\ corePi # None
    /\ Finish(a, "raised")
    /\ UNCHANGED <<tooling, closed, core, taken, seen, world>>

\* The shim or the faux provider cannot be written.
StartCoreFails(a) ==
    /\ MayFail
    /\ pc[a] = "queued"
    /\ corePi = None
    /\ Prepare(a)
    /\ Finish(a, "raised")
    /\ UNCHANGED <<manifest, closed, corePi, endpoint, taken, seen, bridge,
                   child>>

\* Mutant: the client is kept in a local variable until pi.start() returned.
StartBridgeUnheld(a) ==
    /\ pc[a] = "bridge"
    /\ bridge' = [bridge EXCEPT ![a] = "up"]
    /\ endpoint' = a
    /\ Goto(a, "spawn")
    /\ UNCHANGED <<tooling, closed, corePi, coreServer, tempdir, outcome,
                   taken, seen, child, dir>>

\* server.start() returned, up to the await of pi.start().
StartBridge(a) ==
    /\ pc[a] = "bridge"
    /\ bridge' = [bridge EXCEPT ![a] = "up"]
    /\ endpoint' = a
    /\ corePi' = a
    /\ Goto(a, "spawn")
    /\ UNCHANGED <<tooling, closed, coreServer, tempdir, outcome, taken, seen,
                   child, dir>>

StartBridgeFails(a) ==
    /\ MayFail
    /\ pc[a] = "bridge"
    /\ Finish(a, "raised")
    /\ UNCHANGED <<tooling, closed, core, taken, seen, world>>

SpawnPi(a) ==
    /\ pc[a] = "spawn"
    /\ child' = [child EXCEPT ![a] = "alive"]
    /\ Goto(a, "probe")
    /\ UNCHANGED <<tooling, closed, core, outcome, taken, seen, bridge, dir>>

\* The command is not found, or the startup timeout cancels the spawn.
SpawnFails(a) ==
    /\ MayFail
    /\ pc[a] = "spawn"
    /\ Finish(a, "raised")
    /\ UNCHANGED <<tooling, closed, core, taken, seen, world>>

\* pi runs after the probe, or it exited or was closed in the meantime.
Probe(a) ==
    /\ pc[a] = "probe"
    /\ Finish(a, IF child[a] = "alive" THEN "returned" ELSE "raised")
    /\ UNCHANGED <<tooling, closed, core, taken, seen, world>>

\* The startup timeout leaves the pi it interrupts to close().
ProbeTimesOut(a) ==
    /\ MayFail
    /\ pc[a] = "probe"
    /\ Finish(a, "raised")
    /\ UNCHANGED <<tooling, closed, core, taken, seen, world>>

PiExits(a) ==
    /\ MayFail
    /\ child[a] = "alive"
    /\ child' = [child EXCEPT ![a] = "dead"]
    /\ UNCHANGED <<tooling, closed, core, pc, outcome, taken, seen, bridge,
                   dir>>

\* The shim in pi asks for the manifest when it is loaded.
FetchManifest(a) ==
    /\ child[a] = "alive" /\ bridge[a] = "up"
    /\ manifest[a] = NoManifest
    /\ manifest' = [manifest EXCEPT ![a] = tools]
    /\ UNCHANGED <<registry, closed, core, pc, outcome, taken, seen, world>>

-----------------------------------------------------------------------------
(* close().                                                                *)

\* Mutant: the core forgets pi without closing it.
CloseCoreForgets(k) ==
    /\ pc[k] = "queued"
    /\ taken' = [taken EXCEPT ![k] = [pi |-> None, server |-> coreServer,
                                      tempdir |-> tempdir]]
    /\ corePi' = None /\ coreServer' = None /\ endpoint' = None
    /\ tempdir' = None
    /\ Goto(k, "closePi")
    /\ UNCHANGED <<tooling, closed, outcome, seen, world>>

\* The core gives up what it holds now.
CloseCore(k) ==
    /\ pc[k] = "queued"
    /\ taken' = [taken EXCEPT ![k] = [pi |-> corePi, server |-> coreServer,
                                      tempdir |-> tempdir]]
    /\ corePi' = None /\ coreServer' = None /\ endpoint' = None
    /\ tempdir' = None
    /\ Goto(k, "closePi")
    /\ UNCHANGED <<tooling, closed, outcome, seen, world>>

\* pi.close() ends the process the client has; it has none while the spawn is
\* under way.
ClosePi(k) ==
    /\ pc[k] = "closePi"
    /\ child' = [a \in Starters |-> IF a = taken[k].pi /\ child[a] = "alive"
                                    THEN "dead" ELSE child[a]]
    /\ Goto(k, "closeServer")
    /\ UNCHANGED <<tooling, closed, core, outcome, taken, seen, bridge, dir>>

\* Mutant: the error of pi.close() is dropped and the bridge closed.
ClosePiTimesOutGoesOn(k) ==
    /\ CloseHangs
    /\ pc[k] = "closePi"
    /\ \E a \in Starters : taken[k].pi = a /\ child[a] = "alive"
    /\ Goto(k, "closeServer")
    /\ UNCHANGED <<tooling, closed, core, outcome, taken, seen, world>>

\* After ten seconds _close_io gives up, and on everything after it too.
ClosePiTimesOut(k) ==
    /\ CloseHangs
    /\ pc[k] = "closePi"
    /\ \E a \in Starters : taken[k].pi = a /\ child[a] = "alive"
    /\ Finish(k, "raised")
    /\ UNCHANGED <<tooling, closed, core, taken, seen, world>>

\* server.close() stops listening; it has nothing to stop while its start()
\* is under way.
CloseServer(k) ==
    /\ pc[k] = "closeServer"
    /\ bridge' = [a \in Starters |-> IF a = taken[k].server /\ bridge[a] = "up"
                                     THEN "closed" ELSE bridge[a]]
    /\ Goto(k, "cleanup")
    /\ UNCHANGED <<tooling, closed, core, outcome, taken, seen, child, dir>>

\* Its connections and tasks may not end: ten seconds later _close_io gives up,
\* and on the directory too.
CloseServerTimesOut(k) ==
    /\ CloseHangs
    /\ pc[k] = "cleanup"
    /\ \E a \in Starters : taken[k].server = a /\ bridge[a] = "closed"
    /\ Finish(k, "raised")
    /\ UNCHANGED <<tooling, closed, core, taken, seen, world>>

\* They ended.
Cleanup(k) ==
    /\ pc[k] = "cleanup"
    /\ dir' = [a \in Starters |-> IF a = taken[k].tempdir THEN "removed"
                                  ELSE dir[a]]
    /\ Finish(k, "returned")
    /\ UNCHANGED <<tooling, closed, core, taken, seen, bridge, child>>

SetClosed(k) ==
    /\ pc[k] = "finally"
    /\ closed' = TRUE
    /\ Goto(k, "done")
    /\ UNCHANGED <<tooling, core, outcome, taken, seen, world>>

-----------------------------------------------------------------------------
\* snapshot() ends on the owner thread itself.
Snapshot(r) ==
    /\ pc[r] = "queued"
    /\ seen' = [seen EXCEPT ![r] = corePi # None]
    /\ outcome' = [outcome EXCEPT ![r] = "returned"]
    /\ Goto(r, "done")
    /\ UNCHANGED <<tooling, closed, core, taken, world>>

-----------------------------------------------------------------------------
StartStep(a) ==
    \/ StartCore(a) \/ StartRefused(a) \/ StartCoreFails(a) \/ StartBridge(a)
    \/ StartBridgeFails(a) \/ SpawnPi(a) \/ SpawnFails(a) \/ Probe(a)
    \/ ProbeTimesOut(a) \/ PiExits(a) \/ FetchManifest(a)

CloseStep(k) ==
    \/ CloseCore(k) \/ ClosePi(k) \/ ClosePiTimesOut(k) \/ CloseServer(k)
    \/ CloseServerTimesOut(k) \/ Cleanup(k) \/ SetClosed(k)

Next ==
    \/ \E c \in Clients : Begin(c)
    \/ \E a \in Starters : StartStep(a)
    \/ \E k \in Closers : CloseStep(k)
    \/ \E r \in Readers : Snapshot(r)
    \/ \E t \in Registrars :
         /\ Registry!Register(t)
         /\ UNCHANGED <<manifest, closed, core, pc, outcome, taken, seen,
                        world>>

Spec == Init /\ [][Next]_vars

-----------------------------------------------------------------------------
NothingLeft ==
    \A a \in Starters :
      child[a] # "alive" /\ bridge[a] # "up" /\ dir[a] # "exists"

\* A close() that returned has shut down pi and the bridge, whatever start()
\* calls succeeded or failed before, unless a close() failed: nothing runs,
\* listens or lies on the disk (agent.py:752-772).
NothingLeftAfterClose ==
    (/\ \E k \in Closers : outcome[k] = "returned"
     /\ \A k \in Closers : outcome[k] # "raised") => NothingLeft

\* pi never runs without the bridge its shim calls: the server is started
\* before pi and closed after it (DESIGN.md:258, agent.py:729-772).
PiHasBridge == \A a \in Starters : child[a] = "alive" => bridge[a] = "up"

\* What is running and not yet being closed is held by the core, so that a
\* close() to come will find it, even after a start() that failed.
RunningIsHeld ==
    \A a \in Starters :
      /\ child[a] = "alive" =>
           \/ corePi = a
           \/ \E k \in Closers : taken[k].pi = a
      /\ bridge[a] = "up" =>
           \/ coreServer = a
           \/ \E k \in Closers : taken[k].server = a

-----------------------------------------------------------------------------
(* The inductive invariant behind these, when one thread makes all calls.  *)

NothingTaken == [pi |-> None, server |-> None, tempdir |-> None]

Closing(k) == pc[k] \in {"closePi", "closeServer", "cleanup", "finally"}

\* At most one call is under way, and none once the harness is closed.
CallsInOrder ==
    /\ \A c, d \in Clients :
         {pc[c], pc[d]} \cap {"idle", "done"} = {} => c = d
    /\ closed => \A c \in Clients : pc[c] \in {"idle", "done"}
    /\ \A a \in Starters :
         pc[a] \in {"idle", "queued", "bridge", "spawn", "probe", "done"}
    /\ \A k \in Closers :
         pc[k] \in {"idle", "queued", "done"} \/ Closing(k)
    /\ \A r \in Readers : pc[r] \in {"idle", "queued", "done"}

\* What a start() has brought up so far is in the core under its name.
StartInProgress ==
    \A a \in Starters :
      /\ pc[a] \in {"idle", "queued", "bridge"} =>
           child[a] = "none" /\ bridge[a] = "none"
      /\ pc[a] \in {"idle", "queued"} =>
           /\ a \notin {corePi, coreServer, tempdir} /\ dir[a] = "none"
           /\ \A k \in Closers : taken[k].tempdir # a
      /\ pc[a] = "bridge" => corePi = None /\ coreServer = a
      /\ pc[a] = "spawn" =>
           corePi = a /\ coreServer = a /\ bridge[a] = "up"

\* The client and the server of a start() are in one pair of hands.
HeldTogether ==
    \A a \in Starters :
      /\ bridge[a] = "up" =>
           \/ corePi = a /\ coreServer = a
           \/ \E k \in Closers : taken[k].pi = a /\ taken[k].server = a
      /\ dir[a] = "exists" =>
           tempdir = a \/ \E k \in Closers : taken[k].tempdir = a

\* A close() works on what it took, which is all there was: the core is empty
\* and no other close() has anything.
CloseInProgress ==
    /\ \A k \in Closers :
         /\ Closing(k) => {corePi, coreServer, tempdir} = {None}
         /\ pc[k] \in {"idle", "queued"} =>
              taken[k] = NothingTaken /\ outcome[k] = "none"
         /\ outcome[k] # "none" => closed \/ pc[k] = "finally"
         /\ pc[k] = "finally" => outcome[k] # "none"
         /\ pc[k] = "done" => closed
         /\ pc[k] \in {"closeServer", "cleanup"} =>
              \A a \in Starters : child[a] # "alive"
         /\ pc[k] = "cleanup" => \A a \in Starters : bridge[a] # "up"
    /\ \A r \in Readers : outcome[r] = "returned" => pc[r] = "done"

CloseLeavesNothing ==
    /\ \A k \in Closers :
         pc[k] = "finally" /\ outcome[k] = "returned" => NothingLeft
    /\ closed /\ (\A k \in Closers : outcome[k] # "raised") => NothingLeft

\* The registry is frozen before anything can ask for its tools.
FrozenBeforePi ==
    \A a \in Starters :
      (\/ pc[a] \in {"bridge", "spawn", "probe"}
       \/ child[a] = "alive"
       \/ manifest[a] # NoManifest) => frozen

\* Whatever start() and close() failed, in whatever order one thread calls
\* them: pi has its bridge, and both are where the next close() looks.
LifeInv ==
    /\ TypeOK
    /\ PiHasBridge
    /\ RunningIsHeld
    /\ CallsInOrder
    /\ StartInProgress
    /\ HeldTogether
    /\ CloseInProgress
    /\ CloseLeavesNothing
    /\ FrozenBeforePi

\* pi and Python agree on the tools for good: what register() returned for is
\* served under its name and not replaced, and the manifest pi fetched names
\* exactly the tools the server will find, whoever was inside register() when
\* start() froze the registry (tools.py:188-241, agent.py:687).
ManifestIsFinal ==
    /\ \A t \in Registrars :
         (registering[t] = "returned") = (tools[Registry!Name(t)] = t)
    /\ \A a \in Starters : manifest[a] \in {NoManifest, tools}

\* A snapshot() that says "not started" is right: neither pi nor the bridge
\* runs at that time, whatever start() or close() failed before
\* (agent.py:824-836).
NotStartedIsTrue ==
    [][\A r \in Readers :
         outcome'[r] = "returned" /\ outcome[r] # "returned" /\ ~seen'[r] =>
           \A a \in Starters : child[a] # "alive" /\ bridge[a] # "up"]_vars
=============================================================================
