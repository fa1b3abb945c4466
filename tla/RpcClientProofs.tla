-------------------------- MODULE RpcClientProofs --------------------------
(***************************************************************************)
(* Proofs about RpcClient, for every set of senders, closers and starters. *)
(* Two hypotheses are named below: the ids in use differ, which a caller   *)
(* of send() that brings an id of its own has to see to, and the client is *)
(* started once.                                                           *)
(***************************************************************************)
EXTENDS RpcClient, TLAPS

-----------------------------------------------------------------------------
(* The parts of a step.                                                    *)

Futures == {"none", "pending", "failed", "timeout"} \cup Sends

\* What the end of a reader may do to the futures and the entries.
Settled(fut) ==
    \/ future' = fut /\ pending' = pending
    \/ future' = Failed(fut) /\ pending' = [i \in Ids |-> NoOne]

\* Failing the entries settles futures and nothing else.
LEMMA FailedTypes ==
  ASSUME NEW fut \in [Sends -> Futures]
  PROVE  /\ Failed(fut) \in [Sends -> Futures]
         /\ \A s \in Sends : /\ Failed(fut)[s] = fut[s] \/ Failed(fut)[s] = "failed"
                             /\ pending[IdOf(s)] = s => Failed(fut)[s] # "pending"
BY DEF Failed, Futures

\* A reader that reads on has a process, and leaves the others where they are
\* or at their end (rpc.py:569-616).
LEMMA ReadingOn ==
  ASSUME TypeOK, \A f \in Spawns : reader[f] # "none" => readerOn[f] # 0,
         NEW g \in Spawns, NEW fut \in [Sends -> Futures], ReadOn(g, fut)
  PROVE  /\ reader' \in [Spawns -> {"none", "reading", "handling", "ended"}]
         /\ readerOn' \in [Spawns -> Spawns \cup {0}]
         /\ failed' \in BOOLEAN
         /\ reader[g] # "none" => \A f \in Spawns : reader'[f] # "none" => readerOn'[f] # 0
         /\ Settled(fut)
<1> USE DEF TypeOK, Settled, FailUnlessClosed
<1>1. CASE process # 0 /\ Rivals(g) = {}
  BY <1>1 DEF ReadOn
<1>2. CASE process # 0 /\ Rivals(g) # {} /\ stdout[process] # << >>
  <2>1. \A f \in Spawns : f \in Rivals(g) => reader[f] = "reading"
    BY DEF Rivals
  <2>2. /\ reader' = [f \in Spawns |-> IF f = g THEN "reading"
                                      ELSE IF f \in Rivals(g) THEN "ended"
                                      ELSE reader[f]]
        /\ readerOn' = [readerOn EXCEPT ![g] = process]
        /\ FailUnlessClosed(fut)
        /\ UNCHANGED failed
    BY <1>2 DEF ReadOn
  <2>3. reader' \in [Spawns -> {"none", "reading", "handling", "ended"}]
    BY <2>2
  <2>4. ASSUME NEW f \in Spawns, reader'[f] # "none" PROVE readerOn'[f] # 0
    BY <1>2, <2>1, <2>2, <2>4
  <2> QED BY <1>2, <2>2, <2>3, <2>4
<1>3. CASE process = 0 \/ (Rivals(g) # {} /\ stdout[process] = << >>)
  BY <1>3 DEF ReadOn
<1> QED BY <1>1, <1>2, <1>3 DEF ReadOn

\* The message a reader takes.
LEMMA Taking ==
  ASSUME TypeOK, \A f \in Spawns : reader[f] # "none" => readerOn[f] # 0,
         NEW g \in Spawns, NEW type, Arrives(g, type)
  PROVE  /\ reader[g] = "reading" /\ readerOn[g] \in Spawns
         /\ Head(stdout[readerOn[g]]) \in Messages
         /\ type = "response" => Head(stdout[readerOn[g]]).of \in Sends
         /\ type = "event" => Head(stdout[readerOn[g]]).of \in Events
         /\ stdout' \in [Spawns -> Seq(Messages)]
<1>1. /\ readerOn[g] \in Spawns /\ stdout[readerOn[g]] \in Seq(Messages)
      /\ stdout[readerOn[g]] # << >>
  BY DEF Arrives, TypeOK
<1>2. \A q \in Seq(Messages) : q # << >> => Head(q) \in Messages /\ Tail(q) \in Seq(Messages)
  OBVIOUS
<1>3. Head(stdout[readerOn[g]]) \in Messages
      /\ Tail(stdout[readerOn[g]]) \in Seq(Messages)
  BY <1>1, <1>2
<1>4. Head(stdout[readerOn[g]]).type = type
  BY DEF Arrives
<1>5. \A m \in Messages : /\ m.type = "response" => m.of \in Sends
                          /\ m.type = "event" => m.of \in Events
  BY DEF Messages, Response, Event
<1> QED BY <1>1, <1>3, <1>4, <1>5 DEF Arrives, TypeOK

-----------------------------------------------------------------------------
(* Types, and who holds which process.                                     *)

LEMMA TypeStep == TypeOK /\ ProcessesHeld /\ [Next]_vars => TypeOK'
<1> SUFFICES ASSUME TypeOK, ProcessesHeld, [Next]_vars PROVE TypeOK'
  OBVIOUS
<1>0. /\ \A f \in Spawns : reader[f] # "none" => readerOn[f] # 0
      /\ \A k \in Closers : closer[k] \notin {"idle", "done"} => closerProc[k] # 0
      /\ future \in [Sends -> Futures]
      /\ \A s \in Sends : IdOf(s) \in Ids
      /\ 0 \notin Spawns
  BY DEF ProcessesHeld, TypeOK, Futures, Ids, Spawns
<1> USE DEF TypeOK, client, readers, starts, closes, sends, pi
<1>1. ASSUME NEW a \in Starters, StartStep(a) PROVE TypeOK'
  <2>1. CASE BeginStart(a) \/ SpawnFails(a) \/ FinishCleanup(a)
    BY <2>1 DEF BeginStart, SpawnFails, FinishCleanup
  <2>2. CASE Spawn(a)
    <3>1. PICK g \in Spawns : /\ child' = [child EXCEPT ![g] = "alive"]
                             /\ process' = g /\ readerTask' = g
                             /\ reader' = [reader EXCEPT ![g] = "reading"]
                             /\ readerOn' = [readerOn EXCEPT ![g] = g]
      BY <2>2 DEF Spawn
    <3>2. /\ UNCHANGED <<failed, pending, events, cancelled, closes, sends, waiter,
                         wedged, stdin, stdout>>
          /\ closed' = FALSE /\ closeEvent' = FALSE
          /\ starter' = [starter EXCEPT ![a] = "probe"]
      BY <2>2 DEF Spawn
    <3> QED BY <3>1, <3>2
  <2>3. CASE Probe(a)
    <3>1. /\ closed' \in BOOLEAN /\ closeEvent' \in BOOLEAN
          /\ cancelled' \in SUBSET Spawns
          /\ waiter' \in [Waiters -> {"idle", "waiting", "released", "got", "raised"}]
          /\ \E p \in {"started", "cleanup", "failed"} :
               starter' = [starter EXCEPT ![a] = p]
      <4>1. CASE UNCHANGED <<closed, closeEvent, cancelled, waiter>>
        BY <2>3, <4>1 DEF Probe
      <4>2. CASE /\ closed' = TRUE /\ SetCloseEvent
                 /\ cancelled' = IF readerTask = 0 THEN cancelled
                                 ELSE cancelled \cup {readerTask}
                 /\ starter' = [starter EXCEPT ![a] = "cleanup"]
        BY <4>2 DEF SetCloseEvent
      <4> QED BY <2>3, <4>1, <4>2 DEF Probe
    <3>2. UNCHANGED <<process, readerTask, failed, pending, events, reader,
                      readerOn, closes, sends, pi>>
      BY <2>3 DEF Probe
    <3> QED BY <3>1, <3>2
  <2> QED BY <1>1, <2>1, <2>2, <2>3 DEF StartStep
<1>2. ASSUME NEW k \in Closers, CloseStep(k) PROVE TypeOK'
  <2>1. CASE BeginClose(k)
    BY <2>1 DEF BeginClose, SetCloseEvent
  <2>2. CASE FlushStdin(k) \/ Terminate(k)
    BY <2>2 DEF FlushStdin, Terminate
  <2>3. CASE CancelReader(k)
    BY <2>3 DEF CancelReader
  <2>4. CASE FinishClose(k)
    <3>1. future' \in [Sends -> Futures]
      BY <1>0, <2>4, FailedTypes DEF FinishClose, FailPending
    <3> QED BY <2>4, <3>1 DEF FinishClose, FailPending, Futures
  <2> QED BY <1>2, <2>1, <2>2, <2>3, <2>4 DEF CloseStep
<1>3. ASSUME NEW s \in Sends, SendStep(s) \/ SendTimesOut(s) PROVE TypeOK'
  <2>1. CASE BeginSend(s)
    <3>1. /\ pending' \in [Ids -> Sends \cup {NoOne}]
          /\ sentTo' \in [Sends -> Spawns \cup {0}]
          /\ future' \in [Sends -> {"none", "pending", "failed", "timeout"} \cup Sends]
          /\ send' \in [Sends -> {"idle", "drain", "await", "done"}]
          /\ stdin' \in [Spawns -> SUBSET Sends]
      <4>1. CASE failed \/ process = 0 \/ pending[IdOf(s)] # NoOne
        BY <2>1, <4>1 DEF BeginSend
      <4>2. CASE ~(failed \/ process = 0 \/ pending[IdOf(s)] # NoOne)
        <5>1. /\ send' = [send EXCEPT ![s] = "drain"]
              /\ pending' = [pending EXCEPT ![IdOf(s)] = s]
              /\ future' = [future EXCEPT ![s] = "pending"]
              /\ sentTo' = [sentTo EXCEPT ![s] = process]
              /\ \/ UNCHANGED stdin
                 \/ stdin' = [stdin EXCEPT ![process] = @ \cup {s}]
          BY <2>1, <4>2 DEF BeginSend
        <5>2. stdin' \in [Spawns -> SUBSET Sends]
          <6>1. process \in Spawns /\ stdin \in [Spawns -> SUBSET Sends]
            BY <4>2
          <6>2. stdin[process] \cup {s} \in SUBSET Sends
            BY <6>1
          <6> QED BY <5>1, <6>1, <6>2
        <5>3. pending' \in [Ids -> Sends \cup {NoOne}]
          BY <5>1
        <5>4. sentTo' \in [Sends -> Spawns \cup {0}]
          BY <5>1
        <5>5. future' \in [Sends -> {"none", "pending", "failed", "timeout"} \cup Sends]
          BY <5>1
        <5>6. send' \in [Sends -> {"idle", "drain", "await", "done"}]
          BY <5>1
        <5> QED BY <5>2, <5>3, <5>4, <5>5, <5>6
      <4> QED BY <4>1, <4>2
    <3>2. UNCHANGED <<process, closed, closeEvent, readerTask, failed, events,
                      readers, starts, closes, waiter, child, wedged, stdout>>
      BY <2>1 DEF BeginSend
    <3> QED BY <3>1, <3>2
  <2>2. CASE Drained(s)
    BY <2>2 DEF Drained
  <2>3. CASE WriteFails(s) \/ SendEnds(s) \/ SendTimesOut(s)
    <3>1. /\ pending' \in [Ids -> Sends \cup {NoOne}]
          /\ future' \in [Sends -> {"none", "pending", "failed", "timeout"} \cup Sends]
          /\ send' \in [Sends -> {"idle", "drain", "await", "done"}]
      <4>1. /\ pending' = [pending EXCEPT ![IdOf(s)] = NoOne]
            /\ send' = [send EXCEPT ![s] = "done"]
            /\ UNCHANGED future \/ future' = [future EXCEPT ![s] = "timeout"]
        BY <2>3 DEF WriteFails, SendEnds, SendTimesOut, Pop
      <4> QED BY <4>1
    <3>2. UNCHANGED <<process, closed, closeEvent, readerTask, failed, events,
                      readers, starts, closes, sentTo, waiter, pi>>
      BY <2>3 DEF WriteFails, SendEnds, SendTimesOut
    <3> QED BY <3>1, <3>2
  <2> QED BY <1>3, <2>1, <2>2, <2>3 DEF SendStep
<1>4. ASSUME NEW w \in Waiters, WaitStep(w) PROVE TypeOK'
  <2>1. events # << >> => Tail(events) \in Seq(Events)
    OBVIOUS
  <2> QED BY <1>4, <2>1 DEF WaitStep, BeginWait, WaiterGets, WaiterSeesClose
<1>5. ASSUME NEW g \in Spawns, ReaderStep(g) PROVE TypeOK'
  <2>0. \A fut \in [Sends -> Futures] : Settled(fut) =>
          /\ future' \in [Sends -> Futures]
          /\ pending' \in [Ids -> Sends \cup {NoOne}]
    BY FailedTypes DEF Settled
  <2>1. CASE HandleResponse(g)
    <3>1. PICK r : r = Head(stdout[readerOn[g]]).of
      OBVIOUS
    <3>2. r \in Sends /\ stdout' \in [Spawns -> Seq(Messages)]
      BY <1>0, <2>1, <3>1, Taking DEF HandleResponse
    <3>3. PICK fut \in [Sends -> Futures] : ReadOn(g, fut)
      BY <1>0, <2>1, <3>1, <3>2 DEF HandleResponse, Futures
    <3> QED BY <1>0, <2>0, <2>1, <3>2, <3>3, ReadingOn DEF HandleResponse, Futures
  <2>2. CASE HandleEvent(g)
    <3>1. /\ Head(stdout[readerOn[g]]).of \in Events
          /\ stdout' \in [Spawns -> Seq(Messages)]
      BY <1>0, <2>2, Taking DEF HandleEvent
    <3>2. events' \in Seq(Events)
      BY <2>2, <3>1 DEF HandleEvent
    <3> QED BY <2>2, <3>1, <3>2 DEF HandleEvent
  <2>3. CASE HandlerReturns(g)
    <3>1. cancelled' \subseteq Spawns
      BY <2>3 DEF HandlerReturns
    <3> QED BY <1>0, <2>0, <2>3, <3>1, ReadingOn DEF HandlerReturns, Futures
  <2>4. CASE ReaderCancelled(g)
    <3>1. /\ future' \in [Sends -> Futures]
          /\ pending' \in [Ids -> Sends \cup {NoOne}]
          /\ send' \in [Sends -> {"idle", "drain", "await", "done"}]
      BY <1>0, <2>4 DEF ReaderCancelled, Futures
    <3> QED BY <2>4, <3>1 DEF ReaderCancelled, Futures
  <2>5. CASE ReaderEof(g)
    <3>1. Settled(future)
      BY <2>5 DEF ReaderEof, FailUnlessClosed, Settled
    <3> QED BY <1>0, <2>0, <2>5, <3>1 DEF ReaderEof, Futures
  <2> QED BY <1>5, <2>1, <2>2, <2>3, <2>4, <2>5 DEF ReaderStep
<1>6. ASSUME NEW g \in Spawns, PiStep(g) PROVE TypeOK'
  <2>0. ASSUME NEW m \in Messages, stdout' = [stdout EXCEPT ![g] = Append(@, m)]
        PROVE  stdout' \in [Spawns -> Seq(Messages)]
    <3>1. Append(stdout[g], m) \in Seq(Messages)
      OBVIOUS
    <3> QED BY <2>0, <3>1
  <2>1. CASE PiAnswers(g)
    <3>1. PICK s \in stdin[g] : /\ stdin' = [stdin EXCEPT ![g] = @ \ {s}]
                               /\ stdout' = [stdout EXCEPT ![g] = Append(@, Response(s))]
      BY <2>1 DEF PiAnswers
    <3>2. Response(s) \in Messages /\ stdin' \in [Spawns -> SUBSET Sends]
      BY <3>1 DEF Messages
    <3>3. stdout' \in [Spawns -> Seq(Messages)]
      BY <2>0, <3>1, <3>2
    <3> QED BY <2>1, <3>2, <3>3 DEF PiAnswers
  <2>2. CASE PiEmits(g)
    <3>1. PICK e \in Events : stdout' = [stdout EXCEPT ![g] = Append(@, Event(e))]
      BY <2>2 DEF PiEmits
    <3>2. Event(e) \in Messages
      BY DEF Messages
    <3>3. stdout' \in [Spawns -> Seq(Messages)]
      BY <2>0, <3>1, <3>2
    <3> QED BY <2>2, <3>3 DEF PiEmits
  <2>3. CASE PiStopsReading(g) \/ PiExits(g)
    BY <2>3 DEF PiStopsReading, PiExits
  <2> QED BY <1>6, <2>1, <2>2, <2>3 DEF PiStep
<1>7. CASE UNCHANGED vars
  BY <1>7 DEF vars
<1> HIDE DEF TypeOK
<1> QED BY <1>1, <1>2, <1>3, <1>4, <1>5, <1>6, <1>7 DEF Next

\* The futures and entries after a reader is done with a message, or ends.
LEMMA Reading ==
  ASSUME TypeOK, ProcessesHeld, NEW g \in Spawns,
         HandleResponse(g) \/ HandlerReturns(g) \/ ReaderEof(g)
  PROVE  \E fut \in [Sends -> Futures] :
           /\ Settled(fut)
           /\ UNCHANGED <<send, process, child>>
           /\ \/ fut = future
              \/ \E r \in Sends : /\ pending[IdOf(r)] \in Sends
                                  /\ fut = [future EXCEPT ![pending[IdOf(r)]] = r]
<1>0. /\ \A f \in Spawns : reader[f] # "none" => readerOn[f] # 0
      /\ future \in [Sends -> Futures]
      /\ \A s \in Sends : IdOf(s) \in Ids
  BY DEF ProcessesHeld, TypeOK, Futures, Ids
<1>1. CASE HandleResponse(g)
  <2>1. PICK r : r = Head(stdout[readerOn[g]]).of
    OBVIOUS
  <2>2. r \in Sends
    BY <1>0, <1>1, <2>1, Taking DEF HandleResponse
  <2>3. PICK t : t = pending[IdOf(r)]
    OBVIOUS
  <2>4. t \in Sends \cup {NoOne}
    BY <1>0, <2>2, <2>3 DEF TypeOK
  <2>5. PICK fut : /\ fut = IF t # NoOne /\ future[t] = "pending"
                            THEN [future EXCEPT ![t] = r] ELSE future
                   /\ ReadOn(g, fut)
    BY <1>1, <2>1, <2>3 DEF HandleResponse
  <2>6. fut \in [Sends -> Futures]
    BY <1>0, <2>2, <2>4, <2>5 DEF Futures
  <2>7. Settled(fut)
    BY <1>0, <2>5, <2>6, ReadingOn
  <2>8. UNCHANGED <<send, process, child>>
    BY <1>1 DEF HandleResponse
  <2>9. fut = future \/ (t \in Sends /\ fut = [future EXCEPT ![t] = r])
    BY <2>4, <2>5
  <2> QED BY <2>2, <2>3, <2>6, <2>7, <2>8, <2>9
<1>2. CASE HandlerReturns(g)
  BY <1>0, <1>2, ReadingOn DEF HandlerReturns, pi
<1>3. CASE ReaderEof(g)
  BY <1>0, <1>3 DEF ReaderEof, FailUnlessClosed, Settled, pi
<1> QED BY <1>1, <1>2, <1>3

\* Only send() makes a request wait.
LEMMA Waiting ==
  ASSUME TypeOK, ProcessesHeld, [Next]_vars, NEW s \in Sends, Outstanding(s)'
  PROVE  Outstanding(s) \/ BeginSend(s)
<1> DEFINE Goal == Outstanding(s) \/ BeginSend(s)
<1> SUFFICES Goal
  OBVIOUS
<1> USE DEF Outstanding
<1>0. future \in [Sends -> Futures] /\ send \in [Sends -> {"idle", "drain", "await", "done"}]
  BY DEF TypeOK, Futures
<1>1. ASSUME UNCHANGED sends PROVE Goal
  BY <1>1 DEF sends
<1>2. ASSUME NEW a \in Starters, StartStep(a) PROVE Goal
  BY <1>1, <1>2 DEF StartStep, BeginStart, Spawn, SpawnFails, Probe, FinishCleanup
<1>3. ASSUME NEW k \in Closers, CloseStep(k) PROVE Goal
  <2>1. CASE FinishClose(k)
    <3>1. future'[s] = future[s] \/ future'[s] = "failed"
      BY <1>0, <2>1, FailedTypes DEF FinishClose, FailPending
    <3> QED BY <2>1, <3>1 DEF FinishClose
  <2> QED BY <1>1, <1>3, <2>1 DEF CloseStep, BeginClose, FlushStdin, Terminate, CancelReader
<1>4. ASSUME NEW t \in Sends, SendStep(t) \/ SendTimesOut(t) PROVE Goal
  <2>1. CASE BeginSend(t)
    <3>1. t # s => send'[s] = send[s] /\ future'[s] = future[s]
      BY <1>0, <2>1 DEF BeginSend
    <3> QED BY <2>1, <3>1
  <2>2. CASE Drained(t) \/ WriteFails(t) \/ SendEnds(t) \/ SendTimesOut(t)
    <3>1. /\ send[t] \in {"drain", "await"}
          /\ t # s => send'[s] = send[s]
          /\ future'[s] = "pending" => future[s] = "pending"
      BY <1>0, <2>2 DEF Drained, WriteFails, SendEnds, SendTimesOut
    <3> QED BY <3>1
  <2> QED BY <1>4, <2>1, <2>2 DEF SendStep
<1>5. ASSUME NEW w \in Waiters, WaitStep(w) PROVE Goal
  BY <1>1, <1>5 DEF WaitStep, BeginWait, WaiterGets, WaiterSeesClose
<1>6. ASSUME NEW g \in Spawns, ReaderStep(g) PROVE Goal
  <2>1. CASE HandleResponse(g) \/ HandlerReturns(g) \/ ReaderEof(g)
    <3>1. PICK fut \in [Sends -> Futures] :
            /\ Settled(fut) /\ UNCHANGED send
            /\ \/ fut = future
               \/ \E r \in Sends, t \in Sends : fut = [future EXCEPT ![t] = r]
      BY <2>1, Reading
    <3>2. future'[s] = fut[s] \/ future'[s] = "failed"
      BY <3>1, FailedTypes DEF Settled
    <3>3. \A r \in Sends : r # "pending"
      BY RpcAssumption
    <3>4. fut[s] = "pending" => future[s] = "pending"
      BY <1>0, <3>1, <3>3
    <3> QED BY <3>1, <3>2, <3>4
  <2>2. CASE HandleEvent(g)
    BY <1>1, <2>2 DEF HandleEvent
  <2>3. CASE ReaderCancelled(g)
    <3>1. /\ send'[s] = "done" \/ send'[s] = send[s]
          /\ future'[s] = "failed" \/ future'[s] = future[s]
      BY <2>3 DEF ReaderCancelled
    <3> QED BY <3>1
  <2> QED BY <1>6, <2>1, <2>2, <2>3 DEF ReaderStep
<1>7. ASSUME NEW g \in Spawns, PiStep(g) PROVE Goal
  BY <1>1, <1>7 DEF PiStep, PiAnswers, PiEmits, PiStopsReading, PiExits
<1>8. CASE UNCHANGED vars
  BY <1>1, <1>8 DEF vars
<1> QED BY <1>2, <1>3, <1>4, <1>5, <1>6, <1>7, <1>8 DEF Next

\* A process that was made stays made, and one that exited stays so; process
\* is set by a start() that makes one.
LEMMA Onward ==
  ASSUME TypeOK, [Next]_vars
  PROVE  /\ \A g \in Spawns : /\ child'[g] = "none" => child[g] = "none"
                              /\ child[g] = "exited" => child'[g] = "exited"
         /\ process' \in {process, 0} \/ child'[process'] = "alive"
<1> DEFINE Goal == /\ \A g \in Spawns : /\ child'[g] = "none" => child[g] = "none"
                                        /\ child[g] = "exited" => child'[g] = "exited"
                   /\ process' \in {process, 0} \/ child'[process'] = "alive"
<1> SUFFICES Goal
  OBVIOUS
<1> USE DEF TypeOK, client, pi
<1>1. ASSUME UNCHANGED child, process' \in {process, 0} PROVE Goal
  BY <1>1
<1>2. ASSUME NEW a \in Starters, StartStep(a) PROVE Goal
  <2>1. CASE Spawn(a)
    BY <2>1 DEF Spawn
  <2> QED BY <1>1, <1>2, <2>1 DEF StartStep, BeginStart, SpawnFails, Probe, FinishCleanup
<1>3. ASSUME NEW k \in Closers, CloseStep(k) PROVE Goal
  <2>1. CASE Terminate(k)
    BY <2>1 DEF Terminate
  <2> QED BY <1>1, <1>3, <2>1 DEF CloseStep, BeginClose, FlushStdin, CancelReader, FinishClose
<1>4. ASSUME NEW t \in Sends, SendStep(t) \/ SendTimesOut(t) PROVE Goal
  BY <1>1, <1>4 DEF SendStep, BeginSend, Drained, WriteFails, SendEnds, SendTimesOut
<1>5. ASSUME NEW w \in Waiters, WaitStep(w) PROVE Goal
  BY <1>1, <1>5 DEF WaitStep, BeginWait, WaiterGets, WaiterSeesClose
<1>6. ASSUME NEW g \in Spawns, ReaderStep(g) PROVE Goal
  BY <1>1, <1>6 DEF ReaderStep, HandleResponse, HandleEvent, HandlerReturns,
     ReaderCancelled, ReaderEof
<1>7. ASSUME NEW g \in Spawns, PiStep(g) PROVE Goal
  <2>1. CASE PiExits(g)
    BY <2>1 DEF PiExits
  <2> QED BY <1>1, <1>7, <2>1 DEF PiStep, PiAnswers, PiEmits, PiStopsReading
<1>8. CASE UNCHANGED vars
  BY <1>1, <1>8 DEF vars
<1> HIDE DEF Goal
<1> QED BY <1>2, <1>3, <1>4, <1>5, <1>6, <1>7, <1>8 DEF Next

\* ProcessesHeld is kept.
LEMMA HeldStep == TypeOK /\ ProcessesHeld /\ [Next]_vars => ProcessesHeld'
<1> SUFFICES ASSUME TypeOK, ProcessesHeld, [Next]_vars PROVE ProcessesHeld'
  OBVIOUS
<1> USE DEF client, readers, starts, closes, sends, pi
<1> DEFINE Readers == \A f \in Spawns : reader[f] # "none" => readerOn[f] # 0
           Holding == \A k \in Closers : closer[k] \notin {"idle", "done"} => closerProc[k] # 0
           Past == \A k \in Closers : closer[k] \in {"cancel", "finish"} =>
                                        child[closerProc[k]] = "exited"
           Cleanup == (\E a \in Starters : starter[a] = "cleanup") =>
                         \E g \in Spawns : child[g] = "exited"
           Unused == (\A g \in Spawns : child[g] = "none") =>
                         process = 0 /\ \A s \in Sends : ~Outstanding(s)
<1>0. /\ Readers /\ Holding /\ Past /\ Cleanup /\ Unused
      /\ Readers' /\ Holding' /\ Past' /\ Cleanup' /\ Unused' => ProcessesHeld'
      /\ 0 \notin Spawns
  BY DEF ProcessesHeld, Spawns
<1>1. Unused'
  <2>1. ASSUME \A g \in Spawns : child'[g] = "none"
        PROVE  process' = 0 /\ \A s \in Sends : ~Outstanding(s)'
    <3>1. /\ \A g \in Spawns : child[g] = "none"
          /\ process = 0 /\ \A s \in Sends : ~Outstanding(s)
      BY <1>0, <2>1, Onward
    <3>2. process' \in Spawns \cup {0}
      BY TypeStep DEF TypeOK
    <3>3. process' = 0
      BY <2>1, <3>1, <3>2, Onward
    <3>4. \A s \in Sends : ~BeginSend(s) \/ ~Outstanding(s)'
      BY <3>1 DEF BeginSend, Outstanding, TypeOK
    <3> QED BY <3>1, <3>3, <3>4, Waiting
  <2> QED BY <2>1
<1>2. Readers'
  <2> USE DEF TypeOK
  <2>1. ASSUME UNCHANGED <<reader, readerOn>> PROVE Readers'
    BY <1>0, <2>1
  <2>2. ASSUME NEW a \in Starters, StartStep(a) PROVE Readers'
    <3>1. CASE Spawn(a)
      <4>1. PICK g \in Spawns : /\ reader' = [reader EXCEPT ![g] = "reading"]
                                /\ readerOn' = [readerOn EXCEPT ![g] = g]
        BY <3>1 DEF Spawn
      <4> QED BY <1>0, <4>1
    <3> QED BY <2>1, <2>2, <3>1 DEF StartStep, BeginStart, SpawnFails, Probe, FinishCleanup
  <2>3. ASSUME NEW k \in Closers, CloseStep(k) PROVE Readers'
    BY <2>1, <2>3 DEF CloseStep, BeginClose, FlushStdin, Terminate, CancelReader, FinishClose
  <2>4. ASSUME NEW t \in Sends, SendStep(t) \/ SendTimesOut(t) PROVE Readers'
    BY <2>1, <2>4 DEF SendStep, BeginSend, Drained, WriteFails, SendEnds, SendTimesOut
  <2>5. ASSUME NEW w \in Waiters, WaitStep(w) PROVE Readers'
    BY <2>1, <2>5 DEF WaitStep, BeginWait, WaiterGets, WaiterSeesClose
  <2>6. ASSUME NEW g \in Spawns, ReaderStep(g) PROVE Readers'
    <3>1. CASE HandleResponse(g)
      <4>1. PICK r : r = Head(stdout[readerOn[g]]).of
        OBVIOUS
      <4>2. r \in Sends /\ reader[g] # "none"
        BY <1>0, <3>1, <4>1, Taking DEF HandleResponse
      <4>3. future \in [Sends -> Futures]
        BY DEF Futures
      <4>4. PICK fut \in [Sends -> Futures] : ReadOn(g, fut)
        BY <3>1, <4>1, <4>2, <4>3 DEF HandleResponse, Futures
      <4> QED BY <1>0, <4>2, <4>4, ReadingOn
    <3>2. CASE HandlerReturns(g)
      BY <1>0, <3>2, ReadingOn DEF HandlerReturns, Futures
    <3>3. CASE HandleEvent(g) \/ ReaderCancelled(g) \/ ReaderEof(g)
      <4>1. reader[g] # "none"
        BY <3>3 DEF HandleEvent, ReaderCancelled, ReaderEof, Arrives
      <4>2. \E p : reader' = [reader EXCEPT ![g] = p]
        BY <3>3 DEF HandleEvent, ReaderCancelled, ReaderEof
      <4>3. UNCHANGED readerOn
        BY <3>3 DEF HandleEvent, ReaderCancelled, ReaderEof
      <4> QED BY <1>0, <4>1, <4>2, <4>3
    <3> QED BY <2>6, <3>1, <3>2, <3>3 DEF ReaderStep
  <2>7. ASSUME NEW g \in Spawns, PiStep(g) PROVE Readers'
    BY <2>1, <2>7 DEF PiStep, PiAnswers, PiEmits, PiStopsReading, PiExits
  <2>8. CASE UNCHANGED vars
    BY <2>1, <2>8 DEF vars
  <2> HIDE DEF Readers
  <2> QED BY <2>2, <2>3, <2>4, <2>5, <2>6, <2>7, <2>8 DEF Next
<1>3. Holding' /\ Past'
  <2> USE DEF TypeOK
  <2>0. \A k \in Closers : closerProc[k] # 0 => closerProc[k] \in Spawns
    OBVIOUS
  <2>1. ASSUME UNCHANGED <<closer, closerProc>> PROVE Holding' /\ Past'
    BY <1>0, <2>0, <2>1, Onward
  <2>2. ASSUME NEW a \in Starters, StartStep(a) PROVE Holding' /\ Past'
    BY <2>1, <2>2 DEF StartStep, BeginStart, Spawn, SpawnFails, Probe, FinishCleanup
  <2>3. ASSUME NEW k \in Closers, CloseStep(k) PROVE Holding' /\ Past'
    <3>1. CASE BeginClose(k)
      <4>1. PICK p : /\ p \in {"done", "terminate", "flush"}
                     /\ process = 0 => p = "done"
                     /\ closer' = [closer EXCEPT ![k] = p]
        BY <3>1 DEF BeginClose
      <4>2. closerProc' = [closerProc EXCEPT ![k] = process]
        BY <3>1 DEF BeginClose
      <4>3. ASSUME NEW j \in Closers
            PROVE  /\ closer'[j] \notin {"idle", "done"} => closerProc'[j] # 0
                   /\ closer'[j] \in {"cancel", "finish"} => child'[closerProc'[j]] = "exited"
        BY <1>0, <2>0, <4>1, <4>2, Onward
      <4> QED BY <4>3
    <3>2. ASSUME NEW p, closer' = [closer EXCEPT ![k] = p], UNCHANGED closerProc,
                 closer[k] \notin {"idle", "done"},
                 p \in {"cancel", "finish"} => child'[closerProc[k]] = "exited"
          PROVE  Holding' /\ Past'
      <4>1. ASSUME NEW j \in Closers
            PROVE  /\ closer'[j] \notin {"idle", "done"} => closerProc'[j] # 0
                   /\ closer'[j] \in {"cancel", "finish"} => child'[closerProc'[j]] = "exited"
        BY <1>0, <2>0, <3>2, Onward
      <4> QED BY <4>1
    <3>3. CASE FlushStdin(k) \/ Terminate(k)
      BY <1>0, <2>0, <3>2, <3>3 DEF FlushStdin, Terminate
    <3>4. CASE CancelReader(k) \/ FinishClose(k)
      BY <1>0, <2>0, <3>2, <3>4, Onward DEF CancelReader, FinishClose
    <3> QED BY <2>3, <3>1, <3>3, <3>4 DEF CloseStep
  <2>4. ASSUME NEW t \in Sends, SendStep(t) \/ SendTimesOut(t) PROVE Holding' /\ Past'
    BY <2>1, <2>4 DEF SendStep, BeginSend, Drained, WriteFails, SendEnds, SendTimesOut
  <2>5. ASSUME NEW w \in Waiters, WaitStep(w) PROVE Holding' /\ Past'
    BY <2>1, <2>5 DEF WaitStep, BeginWait, WaiterGets, WaiterSeesClose
  <2>6. ASSUME NEW g \in Spawns, ReaderStep(g) \/ PiStep(g) PROVE Holding' /\ Past'
    BY <2>1, <2>6 DEF ReaderStep, HandleResponse, HandleEvent, HandlerReturns,
       ReaderCancelled, ReaderEof, PiStep, PiAnswers, PiEmits, PiStopsReading, PiExits
  <2>7. CASE UNCHANGED vars
    BY <2>1, <2>7 DEF vars
  <2> HIDE DEF Holding, Past
  <2> QED BY <2>2, <2>3, <2>4, <2>5, <2>6, <2>7 DEF Next
<1>4. Cleanup'
  <2> USE DEF TypeOK
  <2>1. ASSUME \A b \in Starters : starter'[b] = "cleanup" => starter[b] = "cleanup"
        PROVE  Cleanup'
    BY <1>0, <2>1, Onward
  <2>2. ASSUME NEW a \in Starters, StartStep(a) PROVE Cleanup'
    <3>1. CASE Probe(a) /\ process # 0 /\ child[process] = "exited"
      <4>1. process \in Spawns /\ UNCHANGED child
        BY <3>1 DEF Probe
      <4> QED BY <3>1, <4>1
    <3>2. CASE Probe(a) /\ ~(process # 0 /\ child[process] = "exited")
      BY <2>1, <3>2 DEF Probe
    <3> QED BY <2>1, <2>2, <3>1, <3>2 DEF StartStep, BeginStart, Spawn, SpawnFails, FinishCleanup
  <2>3. ASSUME UNCHANGED starter PROVE Cleanup'
    BY <2>1, <2>3
  <2>4. ASSUME NEW k \in Closers, CloseStep(k) PROVE Cleanup'
    BY <2>3, <2>4 DEF CloseStep, BeginClose, FlushStdin, Terminate, CancelReader, FinishClose
  <2>5. ASSUME NEW t \in Sends, SendStep(t) \/ SendTimesOut(t) PROVE Cleanup'
    BY <2>3, <2>5 DEF SendStep, BeginSend, Drained, WriteFails, SendEnds, SendTimesOut
  <2>6. ASSUME NEW w \in Waiters, WaitStep(w) PROVE Cleanup'
    BY <2>3, <2>6 DEF WaitStep, BeginWait, WaiterGets, WaiterSeesClose
  <2>7. ASSUME NEW g \in Spawns, ReaderStep(g) \/ PiStep(g) PROVE Cleanup'
    BY <2>3, <2>7 DEF ReaderStep, HandleResponse, HandleEvent, HandlerReturns,
       ReaderCancelled, ReaderEof, PiStep, PiAnswers, PiEmits, PiStopsReading, PiExits
  <2>8. CASE UNCHANGED vars
    BY <2>3, <2>8 DEF vars
  <2> HIDE DEF Cleanup
  <2> QED BY <2>2, <2>4, <2>5, <2>6, <2>7, <2>8 DEF Next
<1> QED BY <1>0, <1>1, <1>2, <1>3, <1>4

-----------------------------------------------------------------------------
(* The correlation of answers and requests.                                *)

\* A request whose id no other request has.  Others may share theirs: a caller
\* of send() may bring an id, and bring it again (rpc.py:339-344).
OwnId(s) == \A t \in Sends : IdOf(t) = IdOf(s) => t = s

\* What is promised to those: the answer is the answer to the request, and while
\* the request waits its entry is there, whatever is done under other ids.
OwnRequestsKept ==
    \A s \in Sends : OwnId(s) =>
      /\ future[s] \in Sends => future[s] = s
      /\ Outstanding(s) => pending[IdOf(s)] = s

\* An answer settles the request registered under its id, which is the one it
\* answers; the rest of what happens fails futures or removes the entries of
\* sends that are over.
LEMMA RequestsStep ==
  ASSUME TypeOK, ProcessesHeld, [Next]_vars, OwnRequestsKept, EntriesMatch
  PROVE  (OwnRequestsKept /\ EntriesMatch)'
<1> DEFINE Goal == (OwnRequestsKept /\ EntriesMatch)'
<1> SUFFICES Goal
  OBVIOUS
<1> USE DEF client, readers, starts, closes, sends, pi
<1>0. /\ future \in [Sends -> Futures] /\ pending \in [Ids -> Sends \cup {NoOne}]
      /\ send \in [Sends -> {"idle", "drain", "await", "done"}]
      /\ \A s \in Sends : IdOf(s) \in Ids
      /\ \A s \in Sends : s \notin {"none", "pending", "failed", "timeout"} /\ s # NoOne
  BY RpcAssumption DEF TypeOK, Futures, Ids
<1>1. ASSUME UNCHANGED <<sends, pending>> PROVE Goal
  BY <1>1 DEF OwnRequestsKept, OwnId, EntriesMatch, Outstanding
\* What is left of the entries is as it was, and what still waits has its own.
<1>2. ASSUME \A s \in Sends : OwnId(s) =>
                /\ future'[s] \in Sends => future'[s] = s
                /\ Outstanding(s)' => pending'[IdOf(s)] = s,
             \A i \in Ids : pending'[i] \in {pending[i], NoOne}
      PROVE  Goal
  BY <1>2 DEF OwnRequestsKept, OwnId, EntriesMatch
<1>3. ASSUME NEW fut \in [Sends -> Futures], Settled(fut), UNCHANGED send,
             \A s \in Sends : OwnId(s) => \/ fut[s] = future[s]
                                         \/ fut[s] = s,
             \A s \in Sends : fut[s] = "pending" => future[s] = "pending"
      PROVE  Goal
  <2>1. CASE future' = fut /\ pending' = pending
    BY <1>0, <1>2, <1>3, <2>1 DEF OwnRequestsKept, Outstanding
  <2>2. CASE future' = Failed(fut) /\ pending' = [i \in Ids |-> NoOne]
    <3>1. ASSUME NEW s \in Sends, OwnId(s)
          PROVE  /\ future'[s] \in Sends => future'[s] = s
                 /\ ~Outstanding(s)'
      <4>1. /\ future'[s] = fut[s] \/ future'[s] = "failed"
            /\ pending[IdOf(s)] = s => future'[s] # "pending"
        BY <2>2, FailedTypes
      <4>2. Outstanding(s) => pending[IdOf(s)] = s
        BY <3>1 DEF OwnRequestsKept
      <4> QED BY <1>0, <1>3, <3>1, <4>1, <4>2 DEF OwnRequestsKept, Outstanding
    <3> QED BY <1>2, <2>2, <3>1
  <2> QED BY <1>3, <2>1, <2>2 DEF Settled
<1>4. ASSUME NEW a \in Starters, StartStep(a) PROVE Goal
  BY <1>1, <1>4 DEF StartStep, BeginStart, Spawn, SpawnFails, Probe, FinishCleanup
<1>5. ASSUME NEW k \in Closers, CloseStep(k) PROVE Goal
  <2>1. CASE FinishClose(k)
    BY <1>0, <1>3, <2>1 DEF FinishClose, FailPending, Settled
  <2> QED BY <1>1, <1>5, <2>1 DEF CloseStep, BeginClose, FlushStdin, Terminate, CancelReader
<1>6. ASSUME NEW t \in Sends, SendStep(t) \/ SendTimesOut(t) PROVE Goal
  <2>1. CASE BeginSend(t)
    <3>1. CASE UNCHANGED <<pending, future>> /\ send' = [send EXCEPT ![t] = "done"]
      BY <1>0, <1>2, <3>1 DEF OwnRequestsKept, Outstanding
    <3>2. CASE /\ pending[IdOf(t)] = NoOne
               /\ pending' = [pending EXCEPT ![IdOf(t)] = t]
               /\ future' = [future EXCEPT ![t] = "pending"]
               /\ send' = [send EXCEPT ![t] = "drain"]
      <4>1. ASSUME NEW s \in Sends, OwnId(s)
            PROVE  /\ future'[s] \in Sends => future'[s] = s
                   /\ Outstanding(s)' => pending'[IdOf(s)] = s
        <5>1. CASE s = t
          BY <1>0, <3>2, <5>1
        <5>2. CASE s # t
          <6>1. IdOf(s) # IdOf(t)
            BY <4>1, <5>2 DEF OwnId
          <6> QED BY <1>0, <3>2, <4>1, <5>2, <6>1 DEF OwnRequestsKept, Outstanding
        <5> QED BY <5>1, <5>2
      <4>2. EntriesMatch'
        BY <1>0, <3>2 DEF EntriesMatch
      <4> QED BY <4>1, <4>2 DEF OwnRequestsKept, OwnId
    <3> QED BY <2>1, <3>1, <3>2 DEF BeginSend
  <2>2. CASE Drained(t)
    BY <1>0, <1>2, <2>2 DEF Drained, OwnRequestsKept, Outstanding
  <2>3. CASE WriteFails(t) \/ SendEnds(t) \/ SendTimesOut(t)
    <3>1. /\ pending' = [pending EXCEPT ![IdOf(t)] = NoOne]
          /\ send' = [send EXCEPT ![t] = "done"]
          /\ UNCHANGED future \/ future' = [future EXCEPT ![t] = "timeout"]
      BY <2>3 DEF WriteFails, SendEnds, SendTimesOut, Pop
    <3>2. ASSUME NEW s \in Sends, OwnId(s)
          PROVE  /\ future'[s] \in Sends => future'[s] = s
                 /\ Outstanding(s)' => pending'[IdOf(s)] = s
      <4>1. CASE s = t
        BY <1>0, <3>1, <3>2, <4>1 DEF OwnRequestsKept, Outstanding
      <4>2. CASE s # t
        <5>1. IdOf(s) # IdOf(t)
          BY <3>2, <4>2 DEF OwnId
        <5> QED BY <1>0, <3>1, <3>2, <4>2, <5>1 DEF OwnRequestsKept, Outstanding
      <4> QED BY <4>1, <4>2
    <3> QED BY <1>0, <1>2, <3>1, <3>2
  <2> QED BY <1>6, <2>1, <2>2, <2>3 DEF SendStep
<1>7. ASSUME NEW w \in Waiters, WaitStep(w) PROVE Goal
  BY <1>1, <1>7 DEF WaitStep, BeginWait, WaiterGets, WaiterSeesClose
<1>8. ASSUME NEW g \in Spawns, ReaderStep(g) PROVE Goal
  <2>1. CASE HandleResponse(g) \/ HandlerReturns(g) \/ ReaderEof(g)
    <3>1. PICK fut \in [Sends -> Futures] :
            /\ Settled(fut) /\ UNCHANGED send
            /\ \/ fut = future
               \/ \E r \in Sends : /\ pending[IdOf(r)] \in Sends
                                   /\ fut = [future EXCEPT ![pending[IdOf(r)]] = r]
      BY <2>1, Reading
    <3>2. \A r \in Sends : pending[IdOf(r)] \in Sends =>
            (OwnId(pending[IdOf(r)]) => pending[IdOf(r)] = r)
      BY <1>0 DEF EntriesMatch, OwnId
    <3>3. \A s \in Sends : OwnId(s) => fut[s] = future[s] \/ fut[s] = s
      BY <1>0, <3>1, <3>2
    <3>4. \A s \in Sends : fut[s] = "pending" => future[s] = "pending"
      BY <1>0, <3>1
    <3> QED BY <1>3, <3>1, <3>3, <3>4
  <2>2. CASE HandleEvent(g)
    BY <1>1, <2>2 DEF HandleEvent
  <2>3. CASE ReaderCancelled(g)
    <3> DEFINE inner == {s \in HandlerSends : /\ reader[g] = "handling"
                                              /\ send[s] \in {"drain", "await"}}
               waited == {s \in inner : send[s] = "await"}
               popped == [i \in Ids |-> IF \E s \in waited : IdOf(s) = i
                                        THEN NoOne ELSE pending[i]]
    <3>1. /\ send' = [s \in Sends |-> IF s \in inner THEN "done" ELSE send[s]]
          /\ future' = [s \in Sends |->
                          IF future[s] = "pending" /\
                             (s \in waited \/ (~closed /\ popped[IdOf(s)] = s))
                          THEN "failed" ELSE future[s]]
          /\ pending' = IF closed THEN popped ELSE [i \in Ids |-> NoOne]
      BY <2>3 DEF ReaderCancelled
    <3>2. \A i \in Ids : pending'[i] \in {pending[i], NoOne}
      BY <3>1
    <3>3. ASSUME NEW s \in Sends, OwnId(s)
          PROVE  /\ future'[s] \in Sends => future'[s] = s
                 /\ Outstanding(s)' => pending'[IdOf(s)] = s
      <4>1. future'[s] \in {future[s], "failed"} /\ send'[s] \in {send[s], "done"}
        BY <3>1
      <4>2. ASSUME Outstanding(s)' PROVE pending'[IdOf(s)] = s
        <5>1. Outstanding(s) /\ pending[IdOf(s)] = s
          BY <1>0, <3>3, <4>1, <4>2 DEF Outstanding, OwnRequestsKept
        <5>2. s \notin waited
          BY <3>1, <4>2, <5>1 DEF Outstanding
        <5>3. ~\E t \in waited : IdOf(t) = IdOf(s)
          BY <3>3, <5>2, RpcAssumption DEF OwnId
        <5>4. popped[IdOf(s)] = s
          BY <1>0, <5>1, <5>3
        <5>5. closed
          BY <3>1, <4>2, <5>1, <5>4 DEF Outstanding
        <5> QED BY <3>1, <5>4, <5>5
      <4> QED BY <1>0, <3>3, <4>1, <4>2 DEF OwnRequestsKept
    <3> QED BY <1>2, <3>2, <3>3
  <2> QED BY <1>8, <2>1, <2>2, <2>3 DEF ReaderStep
<1>9. ASSUME NEW g \in Spawns, PiStep(g) PROVE Goal
  BY <1>1, <1>9 DEF PiStep, PiAnswers, PiEmits, PiStopsReading, PiExits
<1>10. CASE UNCHANGED vars
  BY <1>1, <1>10 DEF vars
<1> HIDE DEF Goal
<1> QED BY <1>4, <1>5, <1>6, <1>7, <1>8, <1>9, <1>10 DEF Next, Goal

\* The types, and who holds which process: whatever the callers do.
LEMMA HeldCorrect == Spec => [](TypeOK /\ ProcessesHeld)
<1>1. Init => TypeOK /\ ProcessesHeld
  <2>1. 1 \in Spawns
    BY RpcAssumption DEF Spawns
  <2>2. /\ \A i \in Ids : [j \in Ids |-> NoOne][i] = NoOne
        /\ << >> \in Seq(Events) /\ << >> \in Seq(Messages)
    OBVIOUS
  <2>3. Init => TypeOK
    <3>1. ASSUME Init PROVE TypeOK
      <4>1. /\ stdin \in [Spawns -> SUBSET Sends] /\ stdout \in [Spawns -> Seq(Messages)]
            /\ events \in Seq(Events)
        BY <2>2, <3>1 DEF Init
      <4>2. /\ pending \in [Ids -> Sends \cup {NoOne}]
            /\ future \in [Sends -> {"none", "pending", "failed", "timeout"} \cup Sends]
        BY <3>1 DEF Init
      <4> QED BY <3>1, <4>1, <4>2 DEF Init, TypeOK
    <3> QED BY <3>1
  <2>4. Init => ProcessesHeld
    BY <2>1 DEF Init, ProcessesHeld, Outstanding
  <2> QED BY <2>3, <2>4
<1>2. TypeOK /\ ProcessesHeld /\ [Next]_vars => (TypeOK /\ ProcessesHeld)'
  BY TypeStep, HeldStep
<1> QED BY <1>1, <1>2, PTL DEF Spec

\* Nobody overwrites or pops the entry of a request with an id of its own, and
\* nobody gets its answer, whatever ids the callers of other sends bring and
\* bring again, through late answers, timeouts, crossed readers and restarts
\* (rpc.py:325-375, 569-632).
THEOREM NoEntryIsTaken == Spec => [](OwnRequestsKept /\ EntriesMatch)
<1> DEFINE Requests == OwnRequestsKept /\ EntriesMatch
<1>1. Init => Requests
  BY RpcAssumption DEF Init, OwnRequestsKept, EntriesMatch, Outstanding
<1>2. TypeOK /\ ProcessesHeld /\ Requests /\ [Next]_vars => Requests'
  BY RequestsStep
<1> HIDE DEF Requests
<1> QED BY <1>1, <1>2, HeldCorrect, PTL DEF Spec, Requests

\* No two requests ever have one id.
UniqueIds == \A s, t \in Sends : IdOf(s) = IdOf(t) => s = t

\* So that each gets its own answer, if no caller brings an id again.
THEOREM RequestsCorrect == ASSUME UniqueIds PROVE Spec => []RequestsInv
<1>1. TypeOK /\ ProcessesHeld /\ OwnRequestsKept /\ EntriesMatch => RequestsInv
  BY DEF RequestsInv, OwnRequestsKept, OwnId, UniqueIds, AnswersMatch,
     OutstandingIsRegistered
<1> QED BY <1>1, NoEntryIsTaken, HeldCorrect, PTL

-----------------------------------------------------------------------------
(* One process.                                                            *)

\* The client is started once.  With more, an unbounded close() of an earlier
\* process takes the reference to a later one away (rpc.py:322).
OneProcess == MaxSpawns = 1

\* process is given up by the end of a close() or a startup cleanup, and only
\* for a process that has exited.
LEMMA GivingUp ==
  ASSUME OneProcess, TypeOK, ProcessesHeld, [Next]_vars
  PROVE  /\ Spawns = {1}
         /\ process' = 0 => \/ process = 0
                            \/ /\ child[1] = "exited"
                               /\ \/ \E a \in Starters : FinishCleanup(a)
                                  \/ \E k \in Closers : FinishClose(k)
<1>1. Spawns = {1}
  BY DEF OneProcess, Spawns
<1>2. ASSUME NEW a \in Starters, FinishCleanup(a) PROVE child[1] = "exited"
  BY <1>1, <1>2 DEF FinishCleanup, ProcessesHeld
<1>3. ASSUME NEW k \in Closers, FinishClose(k) PROVE child[1] = "exited"
  <2>1. closerProc[k] = 1
    BY <1>1, <1>3 DEF FinishClose, ProcessesHeld, TypeOK
  <2> QED BY <1>3, <2>1 DEF FinishClose, ProcessesHeld
<1>4. ASSUME process' = 0, process # 0, \A a \in Starters : ~FinishCleanup(a),
             \A k \in Closers : ~FinishClose(k)
      PROVE  FALSE
  <2> USE DEF client, pi
  <2>1. \A a \in Starters : ~StartStep(a)
    BY <1>1, <1>4 DEF StartStep, BeginStart, Spawn, SpawnFails, Probe
  <2>2. \A k \in Closers : ~CloseStep(k)
    BY <1>4 DEF CloseStep, BeginClose, FlushStdin, Terminate, CancelReader
  <2>3. \A s \in Sends : ~SendStep(s) /\ ~SendTimesOut(s)
    BY <1>4 DEF SendStep, BeginSend, Drained, WriteFails, SendEnds, SendTimesOut
  <2>4. \A w \in Waiters : ~WaitStep(w)
    BY <1>4 DEF WaitStep, BeginWait, WaiterGets, WaiterSeesClose
  <2>5. \A g \in Spawns : ~ReaderStep(g) /\ ~PiStep(g)
    BY <1>4 DEF ReaderStep, HandleResponse, HandleEvent, HandlerReturns, ReaderCancelled,
       ReaderEof, PiStep, PiAnswers, PiEmits, PiStopsReading, PiExits
  <2>6. vars' # vars
    BY <1>4 DEF vars
  <2> QED BY <2>1, <2>2, <2>3, <2>4, <2>5, <2>6 DEF Next
<1> QED BY <1>1, <1>2, <1>3, <1>4

\* A live pi stays in the hands of the client or of a close() that will kill
\* it.
LEMMA StrayStep ==
  ASSUME OneProcess, TypeOK, ProcessesHeld, NoStrayProcess, [Next]_vars
  PROVE  NoStrayProcess'
<1> DEFINE Killing(k) == closerProc[k] = 1 /\ closer[k] \in {"flush", "terminate"}
           Goal == child'[1] = "alive" => process' = 1 \/ \E k \in Closers : Killing(k)'
<1>0. /\ Spawns = {1} /\ 1 \in Spawns
      /\ process \in {0, 1} /\ process' \in {0, 1}
      /\ child[1] = "alive" => process = 1 \/ \E k \in Closers : Killing(k)
      /\ Goal => NoStrayProcess'
  BY GivingUp, TypeStep DEF NoStrayProcess, TypeOK
<1>1. process = 1 /\ child'[1] = "alive" => process' = 1
  BY <1>0, GivingUp, Onward
<1>2. ASSUME child'[1] = "alive" => child[1] = "alive",
             child'[1] = "alive" => \A k \in Closers : Killing(k) => Killing(k)'
      PROVE  Goal
  BY <1>0, <1>1, <1>2
<1> SUFFICES Goal
  BY <1>0
<1> HIDE DEF Goal
<1> USE DEF TypeOK, client, closes, pi
<1>3. ASSUME UNCHANGED <<child, closer, closerProc>> PROVE Goal
  BY <1>2, <1>3
<1>4. ASSUME NEW a \in Starters, StartStep(a) PROVE Goal
  <2>1. CASE Spawn(a)
    BY <1>0, <2>1 DEF Spawn, Goal
  <2> QED BY <1>3, <1>4, <2>1 DEF StartStep, BeginStart, SpawnFails, Probe, FinishCleanup
<1>5. ASSUME NEW k \in Closers, CloseStep(k) PROVE Goal
  <2>1. CASE BeginClose(k)
    BY <1>2, <2>1 DEF BeginClose
  <2>2. CASE FlushStdin(k)
    BY <1>2, <2>2 DEF FlushStdin
  <2>3. CASE Terminate(k)
    <3>1. closerProc[k] = 1
      BY <1>0, <2>3 DEF Terminate, ProcessesHeld
    <3>2. child'[1] = "exited"
      BY <1>0, <2>3, <3>1 DEF Terminate
    <3> QED BY <3>2 DEF Goal
  <2>4. CASE CancelReader(k)
    BY <1>2, <2>4 DEF CancelReader
  <2>5. CASE FinishClose(k)
    BY <1>2, <2>5 DEF FinishClose
  <2> QED BY <1>5, <2>1, <2>2, <2>3, <2>4, <2>5 DEF CloseStep
<1>6. ASSUME NEW t \in Sends, SendStep(t) \/ SendTimesOut(t) PROVE Goal
  BY <1>3, <1>6 DEF SendStep, BeginSend, Drained, WriteFails, SendEnds, SendTimesOut
<1>7. ASSUME NEW w \in Waiters, WaitStep(w) PROVE Goal
  BY <1>3, <1>7 DEF WaitStep, BeginWait, WaiterGets, WaiterSeesClose
<1>8. ASSUME NEW g \in Spawns, ReaderStep(g) PROVE Goal
  BY <1>3, <1>8 DEF ReaderStep, HandleResponse, HandleEvent, HandlerReturns,
     ReaderCancelled, ReaderEof
<1>9. ASSUME NEW g \in Spawns, PiStep(g) PROVE Goal
  <2>1. CASE PiExits(g)
    BY <1>2, <2>1 DEF PiExits
  <2> QED BY <1>3, <1>9, <2>1 DEF PiStep, PiAnswers, PiEmits, PiStopsReading
<1>10. CASE UNCHANGED vars
  BY <1>3, <1>10 DEF vars
<1> QED BY <1>4, <1>5, <1>6, <1>7, <1>8, <1>9, <1>10 DEF Next

\* No live pi is ever out of everybody's hands, for any number of starters
\* and closers of a client that is started once (rpc.py:204-323).
THEOREM NoPiIsLost == ASSUME OneProcess PROVE Spec => []NoStrayProcess
<1>1. Init => NoStrayProcess
  BY DEF Init, NoStrayProcess
<1> QED BY <1>1, StrayStep, HeldCorrect, PTL DEF Spec

\* The client lets go of its process only with nothing outstanding, or with a
\* start() that failed.
LEMMA LettingGo ==
  ASSUME UniqueIds, OneProcess, TypeOK, ProcessesHeld, OutstandingIsRegistered,
         NothingOutstandingAfterClose, [Next]_vars
  PROVE  NothingOutstandingAfterClose'
<1> SUFFICES ASSUME process' = 0, \A a \in Starters : starter'[a] # "failed",
                    NEW s \in Sends, Outstanding(s)'
             PROVE  FALSE
  BY DEF NothingOutstandingAfterClose, Outstanding
<1>1. Outstanding(s)
  <2>1. BeginSend(s) => process # 0 \/ ~Outstanding(s)'
    BY DEF BeginSend, Outstanding, TypeOK
  <2>2. BeginSend(s) => process' = process
    BY DEF BeginSend
  <2> QED BY <2>1, <2>2, Waiting
<1>2. CASE process # 0
  <2>1. ASSUME NEW a \in Starters, FinishCleanup(a) PROVE FALSE
    BY <2>1 DEF FinishCleanup, TypeOK
  <2>2. ASSUME NEW k \in Closers, FinishClose(k) PROVE FALSE
    <3>1. future \in [Sends -> Futures]
      BY DEF TypeOK, Futures
    <3>2. future' = Failed(future) /\ pending[IdOf(s)] = s
      BY <1>1, <2>2 DEF FinishClose, FailPending, OutstandingIsRegistered
    <3> QED BY <3>1, <3>2, FailedTypes DEF Outstanding
  <2> QED BY <1>2, <2>1, <2>2, GivingUp
<1>3. CASE process = 0
  <2>1. PICK a \in Starters : starter[a] = "failed"
    BY <1>1, <1>3 DEF NothingOutstandingAfterClose
  <2>2. BeginStart(a)
    <3> USE DEF starts, TypeOK
    <3>1. starter' # starter
      BY <2>1
    <3>2. PICK b \in Starters : StartStep(b)
      BY <3>1 DEF Next, vars, CloseStep, BeginClose, FlushStdin, Terminate, CancelReader,
         FinishClose, SendStep, BeginSend, Drained, WriteFails, SendEnds, SendTimesOut,
         WaitStep, BeginWait, WaiterGets, WaiterSeesClose, ReaderStep, HandleResponse,
         HandleEvent, HandlerReturns, ReaderCancelled, ReaderEof, PiStep, PiAnswers,
         PiEmits, PiStopsReading, PiExits
    <3>3. b = a
      BY <2>1, <3>2 DEF StartStep, BeginStart, Spawn, SpawnFails, Probe, FinishCleanup
    <3> QED BY <2>1, <3>2, <3>3 DEF StartStep, Spawn, SpawnFails, Probe, FinishCleanup
  <2>3. \A g \in Spawns : child[g] = "none"
    BY <2>2, GivingUp DEF BeginStart
  <2> QED BY <1>1, <2>3 DEF ProcessesHeld
<1> QED BY <1>2, <1>3

\* close() leaves no request waiting (rpc.py:307-323, 706-710).
THEOREM CloseFailsAll ==
  ASSUME UniqueIds, OneProcess PROVE Spec => []NothingOutstandingAfterClose
<1>1. Init => NothingOutstandingAfterClose
  BY DEF Init, NothingOutstandingAfterClose, Outstanding
<1>2. RequestsInv => TypeOK /\ ProcessesHeld /\ OutstandingIsRegistered
  BY DEF RequestsInv
<1> QED BY <1>1, <1>2, LettingGo, RequestsCorrect, PTL DEF Spec
=============================================================================
