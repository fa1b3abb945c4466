----------------------- MODULE HarnessLifecycleProofs -----------------------
(***************************************************************************)
(* Proofs about HarnessLifecycle, for any number of start(), close() and   *)
(* snapshot() calls, by one application thread where Serial is assumed,    *)
(* and of register() calls by any threads.                                 *)
(***************************************************************************)
EXTENDS HarnessLifecycle, TLAPS

-----------------------------------------------------------------------------
(* Types.                                                                  *)

\* A call that ends, whatever it ends with.
LEMMA FinishTypes ==
  ASSUME TypeOK, NEW c \in Clients, NEW r \in {"returned", "raised"}, Finish(c, r)
  PROVE  /\ pc' \in [Clients -> {"idle", "queued", "bridge", "spawn", "probe",
                           "closePi", "closeServer", "cleanup", "finally",
                           "done"}]
         /\ outcome' \in [Clients -> {"none", "returned", "raised"}]
BY DEF TypeOK, Finish, Goto

\* Every step keeps the types.
LEMMA TypeStep == TypeOK /\ [Next]_vars => TypeOK'
<1> SUFFICES ASSUME TypeOK, [Next]_vars PROVE TypeOK'
  OBVIOUS
<1> USE DEF TypeOK, Goto, Registry!TypeOK, core, world, registry, tooling
<1> Starters \subseteq Clients /\ Closers \subseteq Clients /\ Readers \subseteq Clients
  BY DEF Clients
<1>1. ASSUME NEW c \in Clients, Begin(c) PROVE TypeOK'
  BY <1>1 DEF Begin
<1>2. ASSUME NEW a \in Starters, StartStep(a) PROVE TypeOK'
  <2>1. CASE StartCore(a)
    BY <2>1 DEF StartCore, Prepare, Registry!Freeze, Refs
  <2>2. CASE StartRefused(a)
    BY <2>2, FinishTypes DEF StartRefused
  <2>3. CASE StartCoreFails(a)
    BY <2>3, FinishTypes DEF StartCoreFails, Prepare, Registry!Freeze, Refs
  <2>4. CASE StartBridge(a)
    BY <2>4 DEF StartBridge, Refs
  <2>5. CASE StartBridgeFails(a)
    BY <2>5, FinishTypes DEF StartBridgeFails
  <2>6. CASE SpawnPi(a)
    BY <2>6 DEF SpawnPi
  <2>7. CASE SpawnFails(a)
    BY <2>7, FinishTypes DEF SpawnFails
  <2>8. CASE Probe(a)
    BY <2>8, FinishTypes DEF Probe
  <2>9. CASE ProbeTimesOut(a)
    BY <2>9, FinishTypes DEF ProbeTimesOut
  <2>10. CASE PiExits(a)
    BY <2>10 DEF PiExits
  <2>11. CASE FetchManifest(a)
    BY <2>11 DEF FetchManifest
  <2> QED BY <1>2, <2>1, <2>2, <2>3, <2>4, <2>5, <2>6, <2>7, <2>8, <2>9, <2>10,
             <2>11 DEF StartStep
<1>3. ASSUME NEW k \in Closers, CloseStep(k) PROVE TypeOK'
  <2>1. CASE CloseCore(k)
    BY <2>1 DEF CloseCore, Refs
  <2>2. CASE ClosePi(k)
    BY <2>2 DEF ClosePi
  <2>3. CASE ClosePiTimesOut(k)
    BY <2>3, FinishTypes DEF ClosePiTimesOut
  <2>4. CASE CloseServer(k)
    BY <2>4 DEF CloseServer
  <2>5. CASE Cleanup(k)
    BY <2>5, FinishTypes DEF Cleanup
  <2>6. CASE SetClosed(k)
    BY <2>6 DEF SetClosed
  <2>7. CASE CloseServerTimesOut(k)
    BY <2>7, FinishTypes DEF CloseServerTimesOut
  <2> QED BY <1>3, <2>1, <2>2, <2>3, <2>4, <2>5, <2>6, <2>7 DEF CloseStep
<1>4. ASSUME NEW r \in Readers, Snapshot(r) PROVE TypeOK'
  BY <1>4 DEF Snapshot
<1>5. ASSUME NEW t \in Registrars, Registry!Register(t),
             UNCHANGED <<manifest, closed, core, pc, outcome, taken, seen, world>>
      PROVE  TypeOK'
  <2>1. Registry!Name(t) \in Registry!Names
    BY DEF Registry!Names
  <2> QED BY <1>5, <2>1 DEF Registry!Register, Registry!Check, Registry!InferFails,
             Registry!Add, Registry!Goto
<1>6. CASE UNCHANGED vars
  BY <1>6 DEF vars
<1> HIDE DEF TypeOK, core, world
<1> QED BY <1>1, <1>2, <1>3, <1>4, <1>5, <1>6 DEF Next

\* They hold at first ...
LEMMA TypeInit == Init => TypeOK
<1>1. ASSUME Init PROVE TypeOK
  <2>1. Registry!TypeOK
    BY <1>1 DEF Init, Registry!Init, Registry!TypeOK
  <2>2. manifest \in [Starters -> [Registry!Names -> Registrars \cup {NoTool}]
                                  \cup {NoManifest}]
    BY <1>1 DEF Init
  <2>3. taken \in [Closers -> [pi : Refs, server : Refs, tempdir : Refs]]
    BY <1>1 DEF Init, Refs
  <2> QED BY <1>1, <2>1, <2>2, <2>3 DEF Init, TypeOK, Refs
<1> QED BY <1>1

\* ... and always.
THEOREM TypeCorrect == Spec => []TypeOK
BY TypeInit, TypeStep, PTL DEF Spec

-----------------------------------------------------------------------------
(* One call at a time.                                                     *)

\* A call ends only on an open harness where each is made after the other.
LEMMA CallsInOrderStep ==
  ASSUME Serial = TRUE, TypeOK, CallsInOrder, [Next]_vars
  PROVE  CallsInOrder'
<1> USE DEF TypeOK, Goto, core, world, registry, tooling
<1> Starters \subseteq Clients /\ Closers \subseteq Clients /\ Readers \subseteq Clients
  BY DEF Clients
<1>0. ASSUME NEW c \in Clients, pc[c] \notin {"idle", "done"}
      PROVE  /\ ~closed
             /\ \A d \in Clients : d # c => pc[d] \in {"idle", "done"}
  BY <1>0 DEF CallsInOrder
<1>1. ASSUME NEW c \in Clients, Begin(c) PROVE CallsInOrder'
  BY <1>1 DEF Begin, CallsInOrder, Closing
<1>2. ASSUME NEW a \in Starters, StartStep(a) PROVE CallsInOrder'
  <2> USE LifecycleAssumption
  <2>1. CASE StartCore(a)
    BY <1>0, <2>1 DEF StartCore, CallsInOrder, Closing
  <2>2. CASE StartRefused(a) \/ StartCoreFails(a) \/ StartBridgeFails(a)
             \/ SpawnFails(a) \/ Probe(a) \/ ProbeTimesOut(a)
    BY <1>0, <2>2 DEF StartRefused, StartCoreFails, StartBridgeFails, SpawnFails,
       Probe, ProbeTimesOut, Finish, CallsInOrder, Closing
  <2>3. CASE StartBridge(a) \/ SpawnPi(a)
    BY <1>0, <2>3 DEF StartBridge, SpawnPi, CallsInOrder, Closing
  <2>4. CASE PiExits(a) \/ FetchManifest(a)
    BY <2>4 DEF PiExits, FetchManifest, CallsInOrder, Closing
  <2> QED BY <1>2, <2>1, <2>2, <2>3, <2>4 DEF StartStep
<1>3. ASSUME NEW k \in Closers, CloseStep(k) PROVE CallsInOrder'
  <2> USE LifecycleAssumption
  <2>1. CASE CloseCore(k) \/ ClosePi(k) \/ CloseServer(k)
    BY <1>0, <2>1 DEF CloseCore, ClosePi, CloseServer, CallsInOrder, Closing
  <2>2. CASE ClosePiTimesOut(k) \/ CloseServerTimesOut(k) \/ Cleanup(k)
    BY <1>0, <2>2 DEF ClosePiTimesOut, CloseServerTimesOut, Cleanup, Finish, CallsInOrder, Closing
  <2>3. CASE SetClosed(k)
    BY <1>0, <2>3 DEF SetClosed, CallsInOrder, Closing
  <2> QED BY <1>3, <2>1, <2>2, <2>3 DEF CloseStep
<1>4. ASSUME NEW r \in Readers, Snapshot(r) PROVE CallsInOrder'
  BY <1>0, <1>4, LifecycleAssumption DEF Snapshot, CallsInOrder, Closing
<1>5. CASE UNCHANGED <<closed, pc>>
  BY <1>5 DEF CallsInOrder, Closing
<1> HIDE DEF TypeOK
<1> QED BY <1>1, <1>2, <1>3, <1>4, <1>5 DEF Next, vars

\* While a close() or a snapshot() is under way, no start() is, nothing was
\* taken by another close(), and the harness is open.
LEMMA AloneInCall ==
  ASSUME CallsInOrder, CloseInProgress,
         NEW c \in Closers \cup Readers, pc[c] \notin {"idle", "done"}
  PROVE  /\ ~closed
         /\ \A a \in Starters : a # c => pc[a] \in {"idle", "done"}
         /\ \A k \in Closers : k # c => pc[k] = "idle" /\ taken[k] = NothingTaken
BY DEF CallsInOrder, CloseInProgress, Clients

-----------------------------------------------------------------------------
(* Who holds what.                                                         *)

\* What start() has brought up is under its name in the core.
LEMMA StartInProgressStep ==
  ASSUME Serial = TRUE, TypeOK, CallsInOrder, StartInProgress, CloseInProgress,
         [Next]_vars
  PROVE  StartInProgress'
<1> USE DEF TypeOK, Goto, core, world, registry, tooling
<1> Starters \subseteq Clients /\ Closers \subseteq Clients /\ Readers \subseteq Clients
  BY DEF Clients
<1> USE LifecycleAssumption
<1>0. ASSUME NEW c \in Clients, pc[c] \notin {"idle", "done"}
      PROVE  \A a \in Starters : a # c => pc[a] \in {"idle", "done"}
  BY <1>0 DEF CallsInOrder
<1>1. ASSUME NEW c \in Clients, Begin(c) PROVE StartInProgress'
  BY <1>1 DEF Begin, StartInProgress
<1>2. ASSUME NEW a \in Starters, StartStep(a) PROVE StartInProgress'
  <2>1. CASE StartCore(a)
    BY <1>0, <2>1 DEF StartCore, Prepare, StartInProgress, Refs
  <2>2. CASE StartRefused(a) \/ StartBridgeFails(a)
             \/ SpawnFails(a) \/ Probe(a) \/ ProbeTimesOut(a)
    BY <1>0, <2>2 DEF StartRefused, StartBridgeFails, SpawnFails, Probe,
       ProbeTimesOut, Finish, StartInProgress
  <2>3. CASE StartCoreFails(a)
    BY <1>0, <2>3 DEF StartCoreFails, Prepare, Finish, StartInProgress, Refs
  <2>4. CASE StartBridge(a)
    BY <1>0, <2>4 DEF StartBridge, StartInProgress
  <2>5. CASE SpawnPi(a)
    BY <1>0, <2>5 DEF SpawnPi, StartInProgress
  <2>6. CASE PiExits(a) \/ FetchManifest(a)
    BY <2>6 DEF PiExits, FetchManifest, StartInProgress
  <2> QED BY <1>2, <2>1, <2>2, <2>3, <2>4, <2>5, <2>6 DEF StartStep
<1>3. ASSUME NEW k \in Closers, CloseStep(k) PROVE StartInProgress'
  <2>1. CASE CloseCore(k)
    BY <1>0, <2>1 DEF CloseCore, StartInProgress
  <2>2. CASE ClosePi(k) \/ CloseServer(k)
    BY <1>0, <2>2 DEF ClosePi, CloseServer, StartInProgress
  <2>3. CASE ClosePiTimesOut(k) \/ CloseServerTimesOut(k)
    BY <1>0, <2>3 DEF ClosePiTimesOut, CloseServerTimesOut, Finish, StartInProgress
  <2>4. CASE Cleanup(k)
    BY <1>0, <2>4 DEF Cleanup, Finish, StartInProgress
  <2>5. CASE SetClosed(k)
    BY <1>0, <2>5 DEF SetClosed, StartInProgress
  <2> QED BY <1>3, <2>1, <2>2, <2>3, <2>4, <2>5 DEF CloseStep
<1>4. ASSUME NEW r \in Readers, Snapshot(r) PROVE StartInProgress'
  BY <1>0, <1>4 DEF Snapshot, StartInProgress
<1>5. CASE UNCHANGED <<core, pc, taken, world>>
  BY <1>5 DEF StartInProgress
<1> HIDE DEF TypeOK
<1> QED BY <1>1, <1>2, <1>3, <1>4, <1>5 DEF Next, vars

\* Client, server and directory of a start() stay in one pair of hands.
LEMMA HeldTogetherStep ==
  ASSUME TypeOK, StartInProgress, CloseInProgress, HeldTogether, [Next]_vars
  PROVE  HeldTogether'
<1> USE DEF TypeOK, Goto, core, world, registry, tooling
<1> Starters \subseteq Clients /\ Closers \subseteq Clients /\ Readers \subseteq Clients
  BY DEF Clients
<1> USE LifecycleAssumption
<1>1. ASSUME NEW c \in Clients, Begin(c) PROVE HeldTogether'
  BY <1>1 DEF Begin, HeldTogether
<1>2. ASSUME NEW a \in Starters, StartStep(a) PROVE HeldTogether'
  <2>1. CASE StartCore(a)
    BY <2>1 DEF StartCore, Prepare, StartInProgress, HeldTogether, Refs
  <2>2. CASE StartRefused(a) \/ StartBridgeFails(a)
             \/ SpawnFails(a) \/ Probe(a) \/ ProbeTimesOut(a)
    BY <2>2 DEF StartRefused, StartBridgeFails, SpawnFails, Probe,
       ProbeTimesOut, HeldTogether
  <2>3. CASE StartCoreFails(a)
    BY <2>3 DEF StartCoreFails, Prepare, StartInProgress, HeldTogether, Refs
  <2>4. CASE StartBridge(a)
    BY <2>4 DEF StartBridge, StartInProgress, HeldTogether
  <2>5. CASE SpawnPi(a) \/ PiExits(a) \/ FetchManifest(a)
    BY <2>5 DEF SpawnPi, PiExits, FetchManifest, HeldTogether
  <2> QED BY <1>2, <2>1, <2>2, <2>3, <2>4, <2>5 DEF StartStep
<1>3. ASSUME NEW k \in Closers, CloseStep(k) PROVE HeldTogether'
  <2>1. CASE CloseCore(k)
    <3>1. taken[k] = NothingTaken
      BY <2>1 DEF CloseCore, CloseInProgress
    <3>2. /\ taken'[k] = [pi |-> corePi, server |-> coreServer, tempdir |-> tempdir]
          /\ \A j \in Closers : j # k => taken'[j] = taken[j]
          /\ UNCHANGED world
      BY <2>1 DEF CloseCore
    <3>3. ASSUME NEW a \in Starters, bridge'[a] = "up"
          PROVE  \E j \in Closers : taken'[j].pi = a /\ taken'[j].server = a
      BY <3>1, <3>2, <3>3 DEF HeldTogether, NothingTaken
    <3>4. ASSUME NEW a \in Starters, dir'[a] = "exists"
          PROVE  \E j \in Closers : taken'[j].tempdir = a
      BY <3>1, <3>2, <3>4 DEF HeldTogether, NothingTaken
    <3> QED BY <3>3, <3>4 DEF HeldTogether
  <2>2. CASE ClosePi(k) \/ CloseServer(k)
    BY <2>2 DEF ClosePi, CloseServer, HeldTogether
  <2>3. CASE ClosePiTimesOut(k) \/ CloseServerTimesOut(k) \/ SetClosed(k)
    BY <2>3 DEF ClosePiTimesOut, CloseServerTimesOut, SetClosed, HeldTogether
  <2>4. CASE Cleanup(k)
    BY <2>4 DEF Cleanup, HeldTogether
  <2> QED BY <1>3, <2>1, <2>2, <2>3, <2>4 DEF CloseStep
<1>4. ASSUME NEW r \in Readers, Snapshot(r) PROVE HeldTogether'
  BY <1>4 DEF Snapshot, HeldTogether
<1>5. CASE UNCHANGED <<core, taken, world>>
  BY <1>5 DEF HeldTogether
<1> HIDE DEF TypeOK
<1> QED BY <1>1, <1>2, <1>3, <1>4, <1>5 DEF Next, vars

\* pi is up only between the start and the end of its bridge.
LEMMA PiHasBridgeStep ==
  ASSUME TypeOK, StartInProgress, CloseInProgress, PiHasBridge, [Next]_vars
  PROVE  PiHasBridge'
<1> USE DEF TypeOK, core, world
<1>1. ASSUME NEW a \in Starters, StartStep(a) PROVE PiHasBridge'
  BY <1>1 DEF StartStep, StartCore, StartCoreFails, Prepare, StartRefused,
     StartBridge, StartBridgeFails, SpawnPi, SpawnFails, Probe, ProbeTimesOut,
     PiExits, FetchManifest, StartInProgress, PiHasBridge
<1>2. ASSUME NEW k \in Closers, CloseStep(k) PROVE PiHasBridge'
  <2>1. CASE CloseServer(k)
    BY <2>1 DEF CloseServer, CloseInProgress, PiHasBridge
  <2>2. CASE ~CloseServer(k)
    BY <1>2, <2>2 DEF CloseStep, CloseCore, ClosePi, ClosePiTimesOut,
       CloseServerTimesOut, Cleanup, SetClosed, PiHasBridge
  <2> QED BY <2>1, <2>2
<1>3. CASE UNCHANGED world
  BY <1>3 DEF PiHasBridge
<1> QED BY <1>1, <1>2, <1>3 DEF Next, vars, Begin, Snapshot

-----------------------------------------------------------------------------
(* close().                                                                *)

\* What runs while a close() works is what that close() took.
LEMMA CloserHasAll ==
  ASSUME TypeOK, CallsInOrder, HeldTogether, CloseInProgress,
         NEW k \in Closers, Closing(k), NEW a \in Starters
  PROVE  /\ bridge[a] = "up" => taken[k].pi = a /\ taken[k].server = a
         /\ dir[a] = "exists" => taken[k].tempdir = a
<1>1. pc[k] \notin {"idle", "done"}
  BY DEF Closing
<1>2. \A j \in Closers : j # k => taken[j] = NothingTaken
  BY <1>1, AloneInCall
<1>3. corePi = None /\ coreServer = None /\ tempdir = None /\ a # None
  BY LifecycleAssumption DEF CloseInProgress
<1>4. \A j \in Closers : j # k => taken[j].pi # a /\ taken[j].tempdir # a
  BY <1>2, <1>3 DEF NothingTaken
<1> QED BY <1>3, <1>4 DEF HeldTogether

\* Once a close() has taken what the core held, every pi is dead before the
\* servers are closed, and every server closed before the directory goes.
LEMMA CloseInProgressStep ==
  ASSUME Serial = TRUE, TypeOK, CallsInOrder, StartInProgress, PiHasBridge,
         HeldTogether, CloseInProgress, [Next]_vars
  PROVE  CloseInProgress'
<1> USE DEF TypeOK, Goto, core, world, registry, tooling, Closing
<1> Starters \subseteq Clients /\ Closers \subseteq Clients /\ Readers \subseteq Clients
  BY DEF Clients
<1> USE LifecycleAssumption
<1>0. ASSUME NEW c \in Clients, pc[c] \notin {"idle", "done"}
      PROVE  \A d \in Clients : d # c => pc[d] \in {"idle", "done"}
  BY <1>0 DEF CallsInOrder
<1>1. ASSUME NEW c \in Clients, Begin(c) PROVE CloseInProgress'
  BY <1>1 DEF Begin, CloseInProgress, CallsInOrder
<1>2. ASSUME NEW a \in Starters, StartStep(a) PROVE CloseInProgress'
  <2>1. CASE StartCore(a)
    BY <1>0, <2>1 DEF StartCore, Prepare, CloseInProgress
  <2>2. CASE StartRefused(a) \/ StartBridgeFails(a)
             \/ SpawnFails(a) \/ Probe(a) \/ ProbeTimesOut(a)
    BY <1>0, <2>2 DEF StartRefused, StartBridgeFails, SpawnFails, Probe,
       ProbeTimesOut, Finish, CloseInProgress
  <2>3. CASE StartCoreFails(a)
    BY <1>0, <2>3 DEF StartCoreFails, Prepare, Finish, CloseInProgress
  <2>4. CASE StartBridge(a) \/ SpawnPi(a)
    BY <1>0, <2>4 DEF StartBridge, SpawnPi, CloseInProgress
  <2>5. CASE PiExits(a) \/ FetchManifest(a)
    BY <2>5 DEF PiExits, FetchManifest, CloseInProgress
  <2> QED BY <1>2, <2>1, <2>2, <2>3, <2>4, <2>5 DEF StartStep
<1>3. ASSUME NEW k \in Closers, CloseStep(k) PROVE CloseInProgress'
  <2>0. pc[k] \notin {"idle", "done"}
    BY <1>3 DEF CloseStep, CloseCore, ClosePi, ClosePiTimesOut, CloseServer,
       CloseServerTimesOut, Cleanup, SetClosed
  <2>1. /\ ~closed
        /\ \A j \in Closers : j # k => pc[j] = "idle" /\ taken[j] = NothingTaken
    BY <2>0, AloneInCall
  <2>2. CASE CloseCore(k)
    BY <2>1, <2>2 DEF CloseCore, CloseInProgress
  <2>3. CASE ClosePi(k)
    <3>1. \A a \in Starters : child[a] = "alive" => taken[k].pi = a
      BY <2>3, CloserHasAll DEF ClosePi, PiHasBridge
    <3>2. \A a \in Starters : child'[a] # "alive"
      BY <2>3, <3>1 DEF ClosePi
    <3> QED BY <2>1, <2>3, <3>2 DEF ClosePi, CloseInProgress
  <2>4. CASE CloseServer(k)
    <3>1. \A a \in Starters : bridge[a] = "up" => taken[k].server = a
      BY <2>4, CloserHasAll DEF CloseServer
    <3>2. \A a \in Starters : bridge'[a] # "up"
      BY <2>4, <3>1 DEF CloseServer
    <3> QED BY <2>1, <2>4, <3>2 DEF CloseServer, CloseInProgress
  <2>5. CASE ClosePiTimesOut(k) \/ CloseServerTimesOut(k) \/ Cleanup(k)
    <3>1. /\ UNCHANGED <<closed, corePi, coreServer, tempdir, taken, child, bridge>>
          /\ pc' = [pc EXCEPT ![k] = "finally"]
          /\ outcome'[k] # "none"
          /\ \A c \in Clients : c # k => outcome'[c] = outcome[c]
      BY <2>1, <2>5 DEF ClosePiTimesOut, CloseServerTimesOut, Cleanup, Finish
    <3>2. {corePi, coreServer, tempdir} = {None}
      BY <2>5 DEF ClosePiTimesOut, CloseServerTimesOut, Cleanup, CloseInProgress
    <3> QED BY <2>1, <3>1, <3>2 DEF CloseInProgress
  <2>6. CASE SetClosed(k)
    BY <2>1, <2>6 DEF SetClosed, CloseInProgress
  <2> QED BY <1>3, <2>2, <2>3, <2>4, <2>5, <2>6 DEF CloseStep
<1>4. ASSUME NEW r \in Readers, Snapshot(r) PROVE CloseInProgress'
  BY <1>4 DEF Snapshot, CloseInProgress
<1>5. CASE UNCHANGED <<closed, core, pc, outcome, taken, world>>
  BY <1>5 DEF CloseInProgress
<1> HIDE DEF TypeOK
<1> QED BY <1>1, <1>2, <1>3, <1>4, <1>5 DEF Next, vars

\* A close() that returns leaves nothing, and nothing comes up after it.
LEMMA CloseLeavesNothingStep ==
  ASSUME Serial = TRUE, TypeOK, CallsInOrder, StartInProgress, HeldTogether,
         CloseInProgress, CloseLeavesNothing, [Next]_vars
  PROVE  CloseLeavesNothing'
<1> USE DEF TypeOK, Goto, core, world, registry, tooling
<1> Starters \subseteq Clients /\ Closers \subseteq Clients /\ Readers \subseteq Clients
  BY DEF Clients
<1> USE LifecycleAssumption
<1>1. ASSUME NEW c \in Clients, Begin(c) PROVE CloseLeavesNothing'
  BY <1>1 DEF Begin, CloseInProgress, CloseLeavesNothing, NothingLeft
<1>2. ASSUME NEW a \in Starters, StartStep(a) PROVE CloseLeavesNothing'
  <2>1. CASE PiExits(a) \/ FetchManifest(a)
    BY <2>1 DEF PiExits, FetchManifest, CloseLeavesNothing, NothingLeft
  <2>2. CASE ~PiExits(a) /\ ~FetchManifest(a)
    <3>1. pc[a] \notin {"idle", "done"} /\ closed' = closed
      BY <1>2, <2>2 DEF StartStep, StartCore, StartRefused, StartCoreFails,
         StartBridge, StartBridgeFails, SpawnPi, SpawnFails, Probe, ProbeTimesOut
    <3>2. ~closed /\ \A k \in Closers : pc[k] \in {"idle", "done"}
      BY <3>1 DEF CallsInOrder
    <3>3. \A k \in Closers : pc'[k] = pc[k]
      BY <1>2, <2>2 DEF StartStep, StartCore, StartRefused, StartCoreFails,
         StartBridge, StartBridgeFails, SpawnPi, SpawnFails, Probe, ProbeTimesOut,
         Finish
    <3> QED BY <3>1, <3>2, <3>3 DEF CloseLeavesNothing
  <2> QED BY <2>1, <2>2
<1>3. ASSUME NEW k \in Closers, CloseStep(k) PROVE CloseLeavesNothing'
  <2>0. pc[k] \notin {"idle", "done"}
    BY <1>3 DEF CloseStep, CloseCore, ClosePi, ClosePiTimesOut, CloseServer,
       CloseServerTimesOut, Cleanup, SetClosed
  <2>1. /\ ~closed
        /\ \A j \in Closers : j # k => pc[j] = "idle" /\ taken[j] = NothingTaken
    BY <2>0, AloneInCall
  <2>2. CASE CloseCore(k) \/ ClosePi(k) \/ CloseServer(k)
    BY <2>1, <2>2 DEF CloseCore, ClosePi, CloseServer, CloseLeavesNothing
  <2>3. CASE ClosePiTimesOut(k) \/ CloseServerTimesOut(k)
    BY <2>1, <2>3 DEF ClosePiTimesOut, CloseServerTimesOut, Finish, CloseLeavesNothing
  <2>4. CASE Cleanup(k)
    <3>1. \A a \in Starters : dir[a] = "exists" => taken[k].tempdir = a
      BY <2>4, CloserHasAll DEF Cleanup, Closing
    <3>2. NothingLeft'
      BY <2>4, <3>1 DEF Cleanup, CloseInProgress, NothingLeft
    <3> QED BY <3>2 DEF CloseLeavesNothing
  <2>5. CASE SetClosed(k)
    <3>1. pc[k] = "finally" /\ UNCHANGED <<outcome, world>>
      BY <2>5 DEF SetClosed
    <3>2. outcome[k] \in {"returned", "raised"}
      BY <3>1 DEF CloseInProgress
    <3>3. outcome[k] = "returned" => NothingLeft'
      BY <3>1 DEF CloseLeavesNothing, NothingLeft
    <3>4. \A j \in Closers : pc'[j] # "finally"
      BY <2>1, <2>5 DEF SetClosed
    <3> QED BY <3>1, <3>2, <3>3, <3>4 DEF CloseLeavesNothing
  <2> QED BY <1>3, <2>2, <2>3, <2>4, <2>5 DEF CloseStep
<1>4. ASSUME NEW r \in Readers, Snapshot(r) PROVE CloseLeavesNothing'
  BY <1>4 DEF Snapshot, CloseLeavesNothing, NothingLeft
<1>5. CASE UNCHANGED <<closed, pc, outcome, world>>
  BY <1>5 DEF CloseLeavesNothing, NothingLeft
<1> HIDE DEF TypeOK
<1> QED BY <1>1, <1>2, <1>3, <1>4, <1>5 DEF Next, vars

\* What is up is where the next close() will look.
LEMMA HeldIsFound ==
  ASSUME PiHasBridge, HeldTogether
  PROVE  RunningIsHeld
BY DEF PiHasBridge, HeldTogether, RunningIsHeld

-----------------------------------------------------------------------------
(* The registry.                                                           *)

\* No pi runs, and no manifest is fetched, before the registry is frozen.
LEMMA FrozenBeforePiStep == TypeOK /\ FrozenBeforePi /\ [Next]_vars => FrozenBeforePi'
<1> SUFFICES ASSUME TypeOK, FrozenBeforePi, [Next]_vars PROVE FrozenBeforePi'
  OBVIOUS
<1> USE DEF TypeOK, Goto, core, world, registry, tooling
<1> Starters \subseteq Clients /\ Closers \subseteq Clients /\ Readers \subseteq Clients
  BY DEF Clients
<1>1. ASSUME NEW c \in Clients, Begin(c) PROVE FrozenBeforePi'
  BY <1>1 DEF Begin, FrozenBeforePi
<1>2. ASSUME NEW a \in Starters, StartStep(a) PROVE FrozenBeforePi'
  <2>1. CASE StartCore(a) \/ StartCoreFails(a)
    BY <2>1 DEF StartCore, StartCoreFails, Prepare, Registry!Freeze, FrozenBeforePi
  <2>2. CASE StartBridge(a) \/ SpawnPi(a) \/ PiExits(a) \/ FetchManifest(a)
    BY <2>2 DEF StartBridge, SpawnPi, PiExits, FetchManifest, FrozenBeforePi
  <2>3. CASE StartRefused(a) \/ StartBridgeFails(a)
             \/ SpawnFails(a) \/ Probe(a) \/ ProbeTimesOut(a)
    BY <2>3 DEF StartRefused, StartBridgeFails, SpawnFails, Probe,
       ProbeTimesOut, Finish, FrozenBeforePi
  <2> QED BY <1>2, <2>1, <2>2, <2>3 DEF StartStep
<1>3. ASSUME NEW k \in Closers, CloseStep(k) PROVE FrozenBeforePi'
  BY <1>3 DEF CloseStep, CloseCore, ClosePi, ClosePiTimesOut, CloseServer,
     CloseServerTimesOut, Cleanup, SetClosed, Finish, FrozenBeforePi
<1>4. ASSUME NEW r \in Readers, Snapshot(r) PROVE FrozenBeforePi'
  BY <1>4 DEF Snapshot, FrozenBeforePi
<1>5. ASSUME NEW t \in Registrars, Registry!Register(t),
             UNCHANGED <<manifest, pc, world>>
      PROVE  FrozenBeforePi'
  BY <1>5 DEF Registry!Register, Registry!Check, Registry!InferFails, Registry!Add,
     FrozenBeforePi
<1>6. CASE UNCHANGED vars
  BY <1>6 DEF vars, FrozenBeforePi
<1> HIDE DEF TypeOK, core, world
<1> QED BY <1>1, <1>2, <1>3, <1>4, <1>5, <1>6 DEF Next

\* register() adds to a registry that is open and under a name that is free.
LEMMA RegisterKeepsManifest ==
  ASSUME TypeOK, FrozenBeforePi, ManifestIsFinal, NEW t \in Registrars,
         Registry!Register(t), UNCHANGED manifest
  PROVE  ManifestIsFinal'
<1> USE DEF TypeOK, Registry!TypeOK, Registry!Goto
<1>1. Registry!Name(t) \in Registry!Names
  BY DEF Registry!Names
<1>2. CASE UNCHANGED tools
  <2>1. \A u \in Registrars : (registering'[u] = "returned") =
                               (registering[u] = "returned")
    BY <1>1, <1>2, LifecycleAssumption
       DEF Registry!Register, Registry!Check, Registry!InferFails, Registry!Add,
           Registry!Refused
  <2> QED BY <1>2, <2>1 DEF ManifestIsFinal, Registry!Name
<1>3. CASE ~UNCHANGED tools
  <2>1. /\ ~frozen /\ tools[Registry!Name(t)] = NoTool
        /\ tools' = [tools EXCEPT ![Registry!Name(t)] = t]
        /\ registering' = [registering EXCEPT ![t] = "returned"]
    BY <1>3 DEF Registry!Register, Registry!Check, Registry!InferFails, Registry!Add,
       Registry!Refused
  <2>2. \A a \in Starters : manifest'[a] = NoManifest
    BY <2>1 DEF FrozenBeforePi
  <2>3. ASSUME NEW u \in Registrars
        PROVE  (registering'[u] = "returned") = (tools'[Registry!Name(u)] = u)
    <3>1. Registry!Name(u) \in Registry!Names
      BY DEF Registry!Names
    <3>2. CASE u = t
      BY <1>1, <2>1, <3>2
    <3>3. CASE u # t /\ Registry!Name(u) = Registry!Name(t)
      <4>1. registering[u] # "returned"
        BY <2>1, <3>3, LifecycleAssumption DEF ManifestIsFinal
      <4> QED BY <1>1, <2>1, <3>3, <4>1
    <3>4. CASE u # t /\ Registry!Name(u) # Registry!Name(t)
      BY <1>1, <2>1, <3>1, <3>4 DEF ManifestIsFinal
    <3> QED BY <3>2, <3>3, <3>4
  <2> QED BY <2>2, <2>3 DEF ManifestIsFinal, Registry!Name
<1> QED BY <1>2, <1>3

\* Every other step leaves the registered tools alone or fetches them all.
LEMMA ManifestStep ==
  TypeOK /\ FrozenBeforePi /\ ManifestIsFinal /\ [Next]_vars => ManifestIsFinal'
<1> SUFFICES ASSUME TypeOK, FrozenBeforePi, ManifestIsFinal, [Next]_vars
             PROVE  ManifestIsFinal'
  OBVIOUS
<1> USE DEF tooling, registry
<1>1. ASSUME UNCHANGED <<tools, registering, manifest>> PROVE ManifestIsFinal'
  BY <1>1 DEF ManifestIsFinal, Registry!Name
<1>2. ASSUME NEW a \in Starters, FetchManifest(a) PROVE ManifestIsFinal'
  <2>1. /\ UNCHANGED <<tools, registering>>
        /\ manifest' = [manifest EXCEPT ![a] = tools]
    BY <1>2 DEF FetchManifest
  <2> QED BY <2>1 DEF ManifestIsFinal, Registry!Name, TypeOK
<1>3. ASSUME NEW a \in Starters, StartStep(a) PROVE ManifestIsFinal'
  <2>1. CASE ~FetchManifest(a)
    <3>1. UNCHANGED <<tools, registering, manifest>>
      BY <1>3, <2>1 DEF StartStep, StartCore, StartRefused, StartCoreFails, Prepare,
         Registry!Freeze, StartBridge, StartBridgeFails, SpawnPi, SpawnFails, Probe,
         ProbeTimesOut, PiExits
    <3> QED BY <1>1, <3>1
  <2> QED BY <1>2, <2>1
<1>4. ASSUME NEW k \in Closers, CloseStep(k) PROVE ManifestIsFinal'
  BY <1>1, <1>4 DEF CloseStep, CloseCore, ClosePi, ClosePiTimesOut, CloseServer,
     CloseServerTimesOut, Cleanup, SetClosed
<1>5. CASE UNCHANGED tooling
  BY <1>1, <1>5
<1> QED BY <1>3, <1>4, <1>5, RegisterKeepsManifest DEF Next, vars, Begin, Snapshot

\* pi and Python agree on the tools for good, whatever threads register tools
\* and call start(), in whatever order.
THEOREM ManifestFinal == Spec => []ManifestIsFinal
<1>1. ASSUME Init PROVE FrozenBeforePi /\ ManifestIsFinal
  <2>1. FrozenBeforePi
    BY <1>1 DEF Init, FrozenBeforePi, Clients
  <2>2. ASSUME NEW t \in Registrars
        PROVE  registering[t] # "returned" /\ tools[Registry!Name(t)] # t
    <3>1. Registry!Name(t) \in Registry!Names
      BY DEF Registry!Names
    <3> QED BY <1>1, <3>1, LifecycleAssumption DEF Init, Registry!Init
  <2>3. \A a \in Starters : manifest[a] = NoManifest
    BY <1>1 DEF Init
  <2> QED BY <2>1, <2>2, <2>3 DEF ManifestIsFinal
<1> QED BY <1>1, TypeCorrect, FrozenBeforePiStep, ManifestStep, PTL DEF Spec

-----------------------------------------------------------------------------
(* The harness of one application thread.                                  *)

\* Every step keeps the inductive invariant.
LEMMA LifeStep ==
  ASSUME Serial = TRUE, LifeInv, [Next]_vars
  PROVE  LifeInv'
<1>1. /\ TypeOK /\ PiHasBridge /\ CallsInOrder /\ StartInProgress /\ HeldTogether
      /\ CloseInProgress /\ CloseLeavesNothing /\ FrozenBeforePi
  BY DEF LifeInv
<1>2. TypeOK' /\ CallsInOrder' /\ StartInProgress' /\ HeldTogether' /\ PiHasBridge'
  BY <1>1, TypeStep, CallsInOrderStep, StartInProgressStep, HeldTogetherStep,
     PiHasBridgeStep
<1>3. CloseInProgress' /\ CloseLeavesNothing' /\ FrozenBeforePi'
  BY <1>1, CloseInProgressStep, CloseLeavesNothingStep, FrozenBeforePiStep
<1>4. RunningIsHeld'
  BY <1>2 DEF PiHasBridge, HeldTogether, RunningIsHeld
<1> QED BY <1>2, <1>3, <1>4 DEF LifeInv

\* It holds before the first call.
LEMMA LifeInit == Init /\ TypeOK => LifeInv
<1> SUFFICES ASSUME Init, TypeOK PROVE LifeInv
  OBVIOUS
<1>1. /\ \A c \in Clients : pc[c] = "idle" /\ outcome[c] = "none"
      /\ \A a \in Starters : child[a] = "none" /\ bridge[a] = "none" /\ dir[a] = "none"
      /\ \A k \in Closers : taken[k] = NothingTaken
      /\ \A a \in Starters : manifest[a] = NoManifest
      /\ corePi = None /\ coreServer = None /\ tempdir = None /\ closed = FALSE
      /\ Starters \subseteq Clients /\ Closers \subseteq Clients /\ Readers \subseteq Clients
  BY DEF Init, Clients, NothingTaken
<1>2. CallsInOrder /\ CloseInProgress /\ CloseLeavesNothing /\ FrozenBeforePi
  BY <1>1 DEF CallsInOrder, CloseInProgress, CloseLeavesNothing, FrozenBeforePi, Closing
<1>3. StartInProgress /\ HeldTogether /\ PiHasBridge /\ RunningIsHeld
  BY <1>1, LifecycleAssumption DEF StartInProgress, HeldTogether, PiHasBridge,
     RunningIsHeld, NothingTaken
<1> QED BY <1>2, <1>3 DEF LifeInv

\* Whatever start() and close() fail: pi has its bridge, and what runs is where
\* the next close() looks, when one thread makes the calls.
THEOREM LifeCorrect ==
  ASSUME Serial = TRUE
  PROVE  Spec => []LifeInv
<1>1. Init => LifeInv
  BY LifeInit, TypeInit
<1>2. LifeInv /\ [Next]_vars => LifeInv'
  BY LifeStep
<1> QED BY <1>1, <1>2, PTL DEF Spec

\* A close() that returned, after start() calls that succeeded or failed, leaves
\* no pi, no socket and no directory behind, when one thread makes the calls.
THEOREM CloseIsComplete ==
  ASSUME Serial = TRUE
  PROVE  Spec => []NothingLeftAfterClose
<1>1. LifeInv => NothingLeftAfterClose
  BY DEF LifeInv, CloseInProgress, CloseLeavesNothing, NothingLeftAfterClose
<1> QED BY <1>1, LifeCorrect, PTL

\* No other step makes the call of a snapshot() return.
LEMMA OnlySnapshotAnswers ==
  ASSUME TypeOK, CallsInOrder, Next, NEW r \in Readers, outcome'[r] = "returned",
         outcome[r] # "returned"
  PROVE  Snapshot(r)
<1> USE LifecycleAssumption DEF TypeOK, core, world, Goto
<1> Starters \subseteq Clients /\ Closers \subseteq Clients /\ Readers \subseteq Clients
  BY DEF Clients
<1>1. ASSUME NEW c \in Clients, Begin(c) PROVE FALSE
  BY <1>1 DEF Begin
<1>2. ASSUME NEW a \in Starters, StartStep(a) PROVE FALSE
  BY <1>2 DEF StartStep, StartCore, StartRefused, StartCoreFails, StartBridge,
     StartBridgeFails, SpawnPi, SpawnFails, Probe, ProbeTimesOut, PiExits,
     FetchManifest, Finish
<1>3. ASSUME NEW k \in Closers, CloseStep(k) PROVE FALSE
  BY <1>3 DEF CloseStep, CloseCore, ClosePi, ClosePiTimesOut, CloseServer,
     CloseServerTimesOut, Cleanup, SetClosed, Finish
<1>4. ASSUME NEW s \in Readers, Snapshot(s) PROVE s = r
  BY <1>4 DEF Snapshot
<1> HIDE DEF TypeOK
<1> QED BY <1>1, <1>2, <1>3, <1>4 DEF Next

\* A snapshot() that says "not started" is right when it says so.
THEOREM SnapshotIsTrue ==
  ASSUME Serial = TRUE
  PROVE  Spec => NotStartedIsTrue
<1> DEFINE TrueAnswer == \A r \in Readers :
             outcome'[r] = "returned" /\ outcome[r] # "returned" /\ ~seen'[r] =>
               \A a \in Starters : child[a] # "alive" /\ bridge[a] # "up"
<1>1. ASSUME LifeInv, [Next]_vars PROVE [TrueAnswer]_vars
  <2> SUFFICES ASSUME Next, NEW r \in Readers, outcome'[r] = "returned",
                      outcome[r] # "returned", ~seen'[r]
               PROVE  \A a \in Starters : child[a] # "alive" /\ bridge[a] # "up"
    BY <1>1
  <2>1. Snapshot(r)
    BY OnlySnapshotAnswers, <1>1 DEF LifeInv
  <2>2. TypeOK /\ CallsInOrder /\ CloseInProgress /\ HeldTogether /\ PiHasBridge
    BY <1>1 DEF LifeInv
  <2>3. corePi = None
    <3>1. seen'[r] = (corePi # None)
      BY <2>1, <2>2 DEF Snapshot, TypeOK
    <3> QED BY <3>1
  <2>4. \A k \in Closers : taken[k] = NothingTaken
    <3>1. pc[r] \notin {"idle", "done"} /\ r \in Closers \cup Readers
      BY <2>1 DEF Snapshot
    <3>2. \A k \in Closers : k # r
      BY LifecycleAssumption
    <3> QED BY <2>2, <3>1, <3>2, AloneInCall
  <2>5. ASSUME NEW a \in Starters PROVE bridge[a] # "up"
    <3>1. a # None
      BY LifecycleAssumption
    <3> QED BY <2>2, <2>3, <2>4, <3>1 DEF HeldTogether, NothingTaken
  <2> QED BY <2>2, <2>5 DEF PiHasBridge
<1> QED BY <1>1, LifeCorrect, PTL DEF Spec, NotStartedIsTrue
=============================================================================
