----------------------------- MODULE RpcClient -----------------------------
(***************************************************************************)
(* PiRpcClient (pi/rpc.py): the coroutines of the asyncio loop that start  *)
(* pi, send it requests, read its stdout, wait for its events and close    *)
(* it.  They share one loop, so code between two awaits is one action.     *)
(*                                                                         *)
(* The pi process is the environment: it answers the requests written to   *)
(* its stdin in any order, or never, emits events and may exit.  The        *)
(* reader takes one message per chunk.                                     *)
(***************************************************************************)
EXTENDS Naturals, Sequences

CONSTANTS
    Starters,      \* coroutines that call start(), again if they like
    Closers,       \* coroutines that call close() once
    Sends,         \* coroutines that call send() once
    HandlerSends,  \* sends made by an event handler, inside the reader
    SameId,        \* sends whose caller supplies one and the same id
    Waiters,       \* coroutines that call next_event() once
    Events,        \* events pi may emit
    MaxSpawns,     \* bound on the pi processes ever made
    StartupFails,  \* pi may exit while start() probes it
    PiWedges,      \* pi may stop reading a stdin whose pipe is full
    NoOne          \* None

ASSUME RpcAssumption ==
    /\ HandlerSends \subseteq Sends
    /\ SameId \subseteq Sends
    /\ MaxSpawns \in Nat \ {0}
    /\ {StartupFails, PiWedges} \subseteq BOOLEAN
    /\ NoOne \notin Sends \cup Events
    /\ Sends \cap {"none", "pending", "failed", "timeout", "supplied"} = {}

Spawns == 1..MaxSpawns

\* _next_request_id never repeats itself, so a send that does not bring an
\* id can be told by its own name.
IdOf(s) == IF s \in SameId THEN "supplied" ELSE s
Ids == {IdOf(s) : s \in Sends}

Response(s) == [type |-> "response", of |-> s]
Event(e)    == [type |-> "event", of |-> e]
Messages == {Response(s) : s \in Sends} \cup {Event(e) : e \in Events}

VARIABLES
    process,     \* PiRpcClient.process, 0 for None
    closed,      \* PiRpcClient._closed
    closeEvent,  \* PiRpcClient._close_event
    readerTask,  \* PiRpcClient._reader_task, 0 for None
    failed,      \* PiRpcClient._reader_failure is set
    pending,     \* PiRpcClient._pending: id to the send whose future it is
    events,      \* PiRpcClient._events
    reader,      \* the reader task of each process: where it is ...
    readerOn,    \* ... and the process whose stdout it reads
    cancelled,   \* reader tasks with a cancellation on its way
    starter,     \* where each start() is
    closer,      \* where each close() is ...
    closerProc,  \* ... and the process it took hold of
    send,        \* where each send() is ...
    sentTo,      \* ... and the process it wrote to
    future,      \* its future: pending, failed or the request it answers
    waiter,      \* where each next_event() is; released: it saw the close event
    child,       \* each pi process
    wedged,      \* processes that do not read their full stdin pipe
    stdin,       \* requests each pi process has not answered yet
    stdout       \* messages each pi process wrote and nobody read yet

client == <<process, closed, closeEvent, readerTask, failed, pending, events>>
readers == <<reader, readerOn, cancelled>>
starts == <<starter>>
closes == <<closer, closerProc>>
sends == <<send, sentTo, future>>
pi == <<child, wedged, stdin, stdout>>

vars == <<client, readers, starts, closes, sends, waiter, pi>>

TypeOK ==
    /\ process \in Spawns \cup {0}
    /\ readerTask \in Spawns \cup {0}
    /\ closed \in BOOLEAN /\ closeEvent \in BOOLEAN /\ failed \in BOOLEAN
    /\ pending \in [Ids -> Sends \cup {NoOne}]
    /\ events \in Seq(Events)
    /\ reader \in [Spawns -> {"none", "reading", "handling", "ended"}]
    /\ readerOn \in [Spawns -> Spawns \cup {0}]
    /\ cancelled \subseteq Spawns
    /\ starter \in [Starters -> {"idle", "spawn", "probe", "cleanup",
                                 "started", "failed"}]
    /\ closer \in [Closers -> {"idle", "flush", "terminate", "cancel",
                               "finish", "done"}]
    /\ closerProc \in [Closers -> Spawns \cup {0}]
    /\ send \in [Sends -> {"idle", "drain", "await", "done"}]
    /\ sentTo \in [Sends -> Spawns \cup {0}]
    /\ future \in [Sends -> {"none", "pending", "failed", "timeout"} \cup Sends]
    /\ waiter \in [Waiters -> {"idle", "waiting", "released", "got", "raised"}]
    /\ child \in [Spawns -> {"none", "alive", "exited"}]
    /\ wedged \subseteq Spawns
    /\ stdin \in [Spawns -> SUBSET Sends]
    /\ stdout \in [Spawns -> Seq(Messages)]

Init ==
    /\ process = 0 /\ readerTask = 0
    /\ closed = FALSE /\ closeEvent = FALSE /\ failed = FALSE
    /\ pending = [i \in Ids |-> NoOne]
    /\ events = << >>
    /\ reader = [g \in Spawns |-> "none"]
    /\ readerOn = [g \in Spawns |-> 0]
    /\ cancelled = {}
    /\ starter = [a \in Starters |-> "idle"]
    /\ closer = [k \in Closers |-> "idle"]
    /\ closerProc = [k \in Closers |-> 0]
    /\ send = [s \in Sends |-> "idle"]
    /\ sentTo = [s \in Sends |-> 0]
    /\ future = [s \in Sends |-> "none"]
    /\ waiter = [w \in Waiters |-> "idle"]
    /\ child = [g \in Spawns |-> "none"]
    /\ wedged = {}
    /\ stdin = [g \in Spawns |-> {}]
    /\ stdout = [g \in Spawns |-> << >>]

\* The futures once every entry of _pending that is not done has failed.
Failed(fut) == [s \in Sends |-> IF pending[IdOf(s)] = s /\ fut[s] = "pending"
                                THEN "failed" ELSE fut[s]]

\* Mutant: the entries are dropped and their futures left alone.
FailPendingClears ==
    /\ UNCHANGED future
    /\ pending' = [i \in Ids |-> NoOne]

\* _fail_pending: every future still pending fails, and no entry is left.
FailPending ==
    /\ future' = Failed(future)
    /\ pending' = [i \in Ids |-> NoOne]

\* _close_event.set() wakes every next_event() that waits, for good.
SetCloseEvent ==
    /\ closeEvent' = TRUE
    /\ waiter' = [w \in Waiters |-> IF waiter[w] = "waiting" THEN "released"
                                   ELSE waiter[w]]

\* _pending.pop(request_id, None): whichever send's entry it is by now.
Pop(s) == pending' = [pending EXCEPT ![IdOf(s)] = NoOne]

-----------------------------------------------------------------------------
(* start() and _cleanup_after_startup_failure().                           *)

BeginStart(a) ==
    /\ starter[a] \in {"idle", "started", "failed"}
    /\ process = 0
    /\ \E g \in Spawns : child[g] = "none"
    /\ starter' = [starter EXCEPT ![a] = "spawn"]
    /\ UNCHANGED <<client, readers, closes, sends, waiter, pi>>

\* create_subprocess_exec returned: the client takes hold of the process and
\* starts its reader, without looking at self.process again.
Spawn(a) ==
    /\ starter[a] = "spawn"
    /\ \E g \in Spawns :
         /\ child[g] = "none"
         /\ \A f \in Spawns : f < g => child[f] # "none"
         /\ child' = [child EXCEPT ![g] = "alive"]
         /\ process' = g
         /\ readerTask' = g
         /\ reader' = [reader EXCEPT ![g] = "reading"]
         /\ readerOn' = [readerOn EXCEPT ![g] = g]
    /\ closed' = FALSE
    /\ closeEvent' = FALSE
    /\ starter' = [starter EXCEPT ![a] = "probe"]
    /\ UNCHANGED <<failed, pending, events, cancelled, closes, sends, waiter,
                   wedged, stdin, stdout>>

\* The command was not found.
SpawnFails(a) ==
    /\ starter[a] = "spawn"
    /\ starter' = [starter EXCEPT ![a] = "failed"]
    /\ UNCHANGED <<client, readers, closes, sends, waiter, pi>>

\* After the sleep: pi runs, or it exited, or close() has already cleared
\* self.process and reading its returncode raises AttributeError.
Probe(a) ==
    /\ starter[a] = "probe"
    /\ \/ /\ process # 0 /\ child[process] = "alive"
          /\ starter' = [starter EXCEPT ![a] = "started"]
          /\ UNCHANGED <<closed, closeEvent, cancelled, waiter>>
       \/ /\ process # 0 /\ child[process] = "exited"
          /\ closed' = TRUE
          /\ SetCloseEvent
          /\ cancelled' = IF readerTask = 0 THEN cancelled
                          ELSE cancelled \cup {readerTask}
          /\ starter' = [starter EXCEPT ![a] = "cleanup"]
       \/ /\ process = 0
          /\ starter' = [starter EXCEPT ![a] = "failed"]
          /\ UNCHANGED <<closed, closeEvent, cancelled, waiter>>
    /\ UNCHANGED <<process, readerTask, failed, pending, events, reader,
                   readerOn, closes, sends, pi>>

\* The reader task has ended and the process is reaped.
FinishCleanup(a) ==
    /\ starter[a] = "cleanup"
    /\ readerTask # 0 => reader[readerTask] = "ended"
    /\ readerTask' = 0
    /\ process' = 0
    /\ starter' = [starter EXCEPT ![a] = "failed"]
    /\ UNCHANGED <<closed, closeEvent, failed, pending, events, readers,
                   closes, sends, waiter, pi>>

-----------------------------------------------------------------------------
(* close().                                                                *)

\* An earlier close() has closed the stdin of the process: a later one does
\* not wait for it.
StdinClosing(g) == \E k \in Closers : closerProc[k] = g

BeginClose(k) ==
    /\ closer[k] = "idle"
    /\ closed' = TRUE
    /\ SetCloseEvent
    /\ closerProc' = [closerProc EXCEPT ![k] = process]
    /\ closer' = [closer EXCEPT ![k] =
                    IF process = 0 THEN "done"
                    ELSE IF StdinClosing(process) THEN "terminate"
                    ELSE "flush"]
    /\ UNCHANGED <<process, readerTask, failed, pending, events, readers,
                   starts, sends, pi>>

\* A full pipe that pi does not read: neither drain nor the flush of a closed
\* stdin gets anywhere while pi lives.
Stuck(g) == g \in wedged /\ child[g] = "alive"

\* await proc.stdin.wait_closed(), which nothing bounds.
FlushStdin(k) ==
    /\ closer[k] = "flush"
    /\ ~Stuck(closerProc[k])
    /\ closer' = [closer EXCEPT ![k] = "terminate"]
    /\ UNCHANGED <<client, readers, starts, closerProc, sends, waiter, pi>>

\* Mutant: pi is not killed when SIGTERM did not end it.
TerminatePolitely(k) ==
    /\ closer[k] = "terminate"
    /\ closer' = [closer EXCEPT ![k] = "cancel"]
    /\ UNCHANGED <<client, readers, starts, closerProc, sends, waiter, pi>>

\* pi exits by itself, on SIGTERM or on kill.
Terminate(k) ==
    /\ closer[k] = "terminate"
    /\ child' = [child EXCEPT ![closerProc[k]] = "exited"]
    /\ closer' = [closer EXCEPT ![k] = "cancel"]
    /\ UNCHANGED <<client, readers, starts, closerProc, sends, waiter, wedged,
                   stdin, stdout>>

\* The reader task that self._reader_task holds now.
CancelReader(k) ==
    /\ closer[k] = "cancel"
    /\ cancelled' = IF readerTask = 0 \/ reader[readerTask] = "ended"
                    THEN cancelled ELSE cancelled \cup {readerTask}
    /\ closer' = [closer EXCEPT ![k] = "finish"]
    /\ UNCHANGED <<client, reader, readerOn, starts, closerProc, sends, waiter,
                   pi>>

\* Mutant: close() leaves the pending requests to their timeouts.
FinishCloseLeavesPending(k) ==
    /\ closer[k] = "finish"
    /\ readerTask' = 0
    /\ process' = 0
    /\ closer' = [closer EXCEPT ![k] = "done"]
    /\ UNCHANGED <<closed, closeEvent, failed, pending, events, readers, starts,
                   closerProc, sends, waiter, pi>>

\* The reader has ended, or two seconds have passed (F15).
FinishClose(k) ==
    /\ closer[k] = "finish"
    /\ FailPending
    /\ readerTask' = 0
    /\ process' = 0
    /\ closer' = [closer EXCEPT ![k] = "done"]
    /\ UNCHANGED <<closed, closeEvent, failed, events, readers, starts,
                   closerProc, send, sentTo, waiter, pi>>

-----------------------------------------------------------------------------
(* send().                                                                 *)

\* A send of an event handler is made while the reader is in that handler.
InContext(s) == s \in HandlerSends => \E g \in Spawns : reader[g] = "handling"

\* pi can still be written to: it lives and no close() has closed its stdin.
StdinOpen(g) ==
    child[g] = "alive" /\ ~StdinClosing(g)

\* Mutant: an id that is in use is taken over.
BeginSendOverwrites(s) ==
    /\ send[s] = "idle"
    /\ InContext(s)
    /\ IF failed \/ process = 0
       THEN /\ send' = [send EXCEPT ![s] = "done"]
            /\ UNCHANGED <<pending, sentTo, future, stdin>>
       ELSE /\ send' = [send EXCEPT ![s] = "drain"]
            /\ pending' = [pending EXCEPT ![IdOf(s)] = s]
            /\ future' = [future EXCEPT ![s] = "pending"]
            /\ sentTo' = [sentTo EXCEPT ![s] = process]
            /\ stdin' = IF StdinOpen(process)
                        THEN [stdin EXCEPT ![process] = @ \cup {s}]
                        ELSE stdin
    /\ UNCHANGED <<process, closed, closeEvent, readerTask, failed, events,
                   readers, starts, closes, waiter, child, wedged, stdout>>

\* The checks, the entry in _pending and the write, up to the await of drain.
BeginSend(s) ==
    /\ send[s] = "idle"
    /\ InContext(s)
    /\ IF failed \/ process = 0 \/ pending[IdOf(s)] # NoOne
       THEN /\ send' = [send EXCEPT ![s] = "done"]
            /\ UNCHANGED <<pending, sentTo, future, stdin>>
       ELSE /\ send' = [send EXCEPT ![s] = "drain"]
            /\ pending' = [pending EXCEPT ![IdOf(s)] = s]
            /\ future' = [future EXCEPT ![s] = "pending"]
            /\ sentTo' = [sentTo EXCEPT ![s] = process]
            /\ stdin' = IF StdinOpen(process)
                        THEN [stdin EXCEPT ![process] = @ \cup {s}]
                        ELSE stdin
    /\ UNCHANGED <<process, closed, closeEvent, readerTask, failed, events,
                   readers, starts, closes, waiter, child, wedged, stdout>>

Drained(s) ==
    /\ send[s] = "drain"
    /\ ~Stuck(sentTo[s])
    /\ send' = [send EXCEPT ![s] = "await"]
    /\ UNCHANGED <<client, readers, starts, closes, sentTo, future, waiter, pi>>

\* drain raised BrokenPipeError or ConnectionResetError.
WriteFails(s) ==
    /\ send[s] = "drain"
    /\ ~StdinOpen(sentTo[s]) /\ ~Stuck(sentTo[s])
    /\ send' = [send EXCEPT ![s] = "done"]
    /\ Pop(s)
    /\ UNCHANGED <<process, closed, closeEvent, readerTask, failed, events,
                   readers, starts, closes, sentTo, future, waiter, pi>>

\* The future is done: send() pops its id and returns or raises.
SendEnds(s) ==
    /\ send[s] = "await"
    /\ future[s] # "pending"
    /\ send' = [send EXCEPT ![s] = "done"]
    /\ Pop(s)
    /\ UNCHANGED <<process, closed, closeEvent, readerTask, failed, events,
                   readers, starts, closes, sentTo, future, waiter, pi>>

\* request_timeout seconds without an answer.
SendTimesOut(s) ==
    /\ send[s] = "await"
    /\ future[s] = "pending"
    /\ future' = [future EXCEPT ![s] = "timeout"]
    /\ send' = [send EXCEPT ![s] = "done"]
    /\ Pop(s)
    /\ UNCHANGED <<process, closed, closeEvent, readerTask, failed, events,
                   readers, starts, closes, sentTo, waiter, pi>>

-----------------------------------------------------------------------------
(* next_event().                                                           *)

BeginWait(w) ==
    /\ waiter[w] = "idle"
    /\ waiter' = [waiter EXCEPT ![w] = IF closed THEN "raised" ELSE "waiting"]
    /\ UNCHANGED <<client, readers, starts, closes, sends, pi>>

WaiterGets(w) ==
    /\ waiter[w] \in {"waiting", "released"}
    /\ events # << >>
    /\ events' = Tail(events)
    /\ waiter' = [waiter EXCEPT ![w] = "got"]
    /\ UNCHANGED <<process, closed, closeEvent, readerTask, failed, pending,
                   readers, starts, closes, sends, pi>>

\* The close event wins only when no event is there.
WaiterSeesClose(w) ==
    /\ waiter[w] = "released"
    /\ events = << >>
    /\ waiter' = [waiter EXCEPT ![w] = "raised"]
    /\ UNCHANGED <<client, readers, starts, closes, sends, pi>>

-----------------------------------------------------------------------------
(* _read_stdout_loop() and the handlers it awaits.                         *)

\* The finally block of the reader, after it left the futures fut.
FailUnlessClosed(fut) ==
    IF closed
    THEN future' = fut /\ UNCHANGED pending
    ELSE future' = Failed(fut) /\ pending' = [i \in Ids |-> NoOne]

\* Other readers that read the stdout of the process the client has now.
Rivals(g) == {f \in Spawns \ {g} : /\ reader[f] = "reading"
                                   /\ readerOn[f] = process
                                   /\ child[process] = "alive"}

\* The loop reads self.process.stdout again after each message, with the
\* futures fut.  self.process may be None by then (AttributeError) or another
\* process whose reader waits on the same stream (RuntimeError): either kills
\* this reader.  If that reader has data it did not take yet, this one takes
\* it and the other finds an empty chunk, which it takes for EOF.
ReadOn(g, fut) ==
    \/ /\ process # 0 /\ Rivals(g) = {}
       /\ reader' = [reader EXCEPT ![g] = "reading"]
       /\ readerOn' = [readerOn EXCEPT ![g] = process]
       /\ future' = fut
       /\ UNCHANGED <<failed, pending>>
    \/ /\ process # 0 /\ Rivals(g) # {} /\ stdout[process] # << >>
       /\ reader' = [f \in Spawns |-> IF f = g THEN "reading"
                                      ELSE IF f \in Rivals(g) THEN "ended"
                                      ELSE reader[f]]
       /\ readerOn' = [readerOn EXCEPT ![g] = process]
       /\ FailUnlessClosed(fut)
       /\ UNCHANGED failed
    \/ /\ process = 0 \/ (Rivals(g) # {} /\ stdout[process] = << >>)
       /\ reader' = [reader EXCEPT ![g] = "ended"]
       /\ failed' = TRUE
       /\ FailUnlessClosed(fut)
       /\ UNCHANGED readerOn

Arrives(g, type) ==
    /\ reader[g] = "reading"
    /\ stdout[readerOn[g]] # << >>
    /\ Head(stdout[readerOn[g]]).type = type
    /\ stdout' = [stdout EXCEPT ![readerOn[g]] = Tail(@)]

\* Mutant: a response is given to some request that waits, whatever its id.
HandleResponseUncorrelated(g) ==
    /\ Arrives(g, "response")
    /\ LET r == Head(stdout[readerOn[g]]).of
       IN  ReadOn(g, IF \E s \in Sends : future[s] = "pending"
                     THEN [future EXCEPT ![CHOOSE s \in Sends :
                                             future[s] = "pending"] = r]
                     ELSE future)
    /\ UNCHANGED <<process, closed, closeEvent, readerTask, events, cancelled, starts, closes, send, sentTo, waiter, child, wedged, stdin>>

\* A response resolves the future pending under its id, if there is one.  A
\* response nobody waits for is dropped.
HandleResponse(g) ==
    /\ Arrives(g, "response")
    /\ LET r == Head(stdout[readerOn[g]]).of
           s == pending[IdOf(r)]
       IN  ReadOn(g, IF s # NoOne /\ future[s] = "pending"
                     THEN [future EXCEPT ![s] = r] ELSE future)
    /\ UNCHANGED <<process, closed, closeEvent, readerTask, events, cancelled, starts, closes, send, sentTo, waiter, child, wedged, stdin>>

\* An event goes to the queue, then to the handlers, which are awaited.
HandleEvent(g) ==
    /\ Arrives(g, "event")
    /\ events' = Append(events, Head(stdout[readerOn[g]]).of)
    /\ reader' = [reader EXCEPT ![g] = "handling"]
    /\ UNCHANGED <<process, closed, closeEvent, readerTask, failed, pending,
                   readerOn, cancelled, starts, closes, sends, waiter, child,
                   wedged, stdin>>

\* The handlers returned, raised an Exception that is logged, or swallowed a
\* cancellation.  A handler that awaits a send returns after it.
HandlerReturns(g) ==
    /\ reader[g] = "handling"
    /\ \A s \in HandlerSends : send[s] \in {"idle", "done"}
    /\ ReadOn(g, future)
    /\ cancelled' = cancelled \ {g}
    /\ UNCHANGED <<process, closed, closeEvent, readerTask, events, starts,
                   closes, send, sentTo, waiter, pi>>

\* The cancellation reaches the reader, and through it the handler and the
\* send the handler awaits.  A send cancelled in drain leaves its entry.
ReaderCancelled(g) ==
    /\ g \in cancelled
    /\ reader[g] \in {"reading", "handling"}
    /\ cancelled' = cancelled \ {g}
    /\ reader' = [reader EXCEPT ![g] = "ended"]
    /\ LET inner  == {s \in HandlerSends : /\ reader[g] = "handling"
                                           /\ send[s] \in {"drain", "await"}}
           waited == {s \in inner : send[s] = "await"}
           popped == [i \in Ids |-> IF \E s \in waited : IdOf(s) = i
                                    THEN NoOne ELSE pending[i]]
       IN /\ send' = [s \in Sends |-> IF s \in inner THEN "done" ELSE send[s]]
          /\ future' = [s \in Sends |->
                          IF future[s] = "pending" /\
                             (s \in waited \/ (~closed /\ popped[IdOf(s)] = s))
                          THEN "failed" ELSE future[s]]
          /\ pending' = IF closed THEN popped ELSE [i \in Ids |-> NoOne]
    /\ UNCHANGED <<process, closed, closeEvent, readerTask, failed, events,
                   readerOn, starts, closes, sentTo, waiter, pi>>

\* EOF: pi exited and everything it wrote was read.
ReaderEof(g) ==
    /\ reader[g] = "reading"
    /\ child[readerOn[g]] = "exited"
    /\ stdout[readerOn[g]] = << >>
    /\ reader' = [reader EXCEPT ![g] = "ended"]
    /\ cancelled' = cancelled \ {g}
    /\ FailUnlessClosed(future)
    /\ UNCHANGED <<process, closed, closeEvent, readerTask, failed, events,
                   readerOn, starts, closes, send, sentTo, waiter, pi>>

-----------------------------------------------------------------------------
(* The pi process.                                                         *)

PiAnswers(g) ==
    /\ child[g] = "alive" /\ ~Stuck(g)
    /\ \E s \in stdin[g] :
         /\ stdin' = [stdin EXCEPT ![g] = @ \ {s}]
         /\ stdout' = [stdout EXCEPT ![g] = Append(@, Response(s))]
    /\ UNCHANGED <<client, readers, starts, closes, sends, waiter, child,
                   wedged>>

Emitted == {e \in Events :
    \/ \E g \in Spawns : \E i \in 1..Len(stdout[g]) : stdout[g][i] = Event(e)
    \/ \E i \in 1..Len(events) : events[i] = e}

PiEmits(g) ==
    /\ child[g] = "alive"
    /\ \E e \in Events \ Emitted :
         stdout' = [stdout EXCEPT ![g] = Append(@, Event(e))]
    /\ UNCHANGED <<client, readers, starts, closes, sends, waiter, child,
                   wedged, stdin>>

\* pi stops reading while requests are on their way to it.
PiStopsReading(g) ==
    /\ PiWedges
    /\ child[g] = "alive"
    /\ stdin[g] # {}
    /\ wedged' = wedged \cup {g}
    /\ UNCHANGED <<client, readers, starts, closes, sends, waiter, child, stdin,
                   stdout>>

PiExits(g) ==
    /\ child[g] = "alive"
    /\ StartupFails \/ \A a \in Starters : starter[a] # "probe"
    /\ child' = [child EXCEPT ![g] = "exited"]
    /\ UNCHANGED <<client, readers, starts, closes, sends, waiter, wedged,
                   stdin, stdout>>

-----------------------------------------------------------------------------
StartStep(a) ==
    BeginStart(a) \/ Spawn(a) \/ SpawnFails(a) \/ Probe(a) \/ FinishCleanup(a)

CloseStep(k) ==
    \/ BeginClose(k) \/ FlushStdin(k) \/ Terminate(k) \/ CancelReader(k)
    \/ FinishClose(k)

SendStep(s) == BeginSend(s) \/ Drained(s) \/ WriteFails(s) \/ SendEnds(s)

WaitStep(w) == BeginWait(w) \/ WaiterGets(w) \/ WaiterSeesClose(w)

ReaderStep(g) ==
    \/ HandleResponse(g) \/ HandleEvent(g) \/ HandlerReturns(g)
    \/ ReaderCancelled(g) \/ ReaderEof(g)

PiStep(g) == PiAnswers(g) \/ PiEmits(g) \/ PiStopsReading(g) \/ PiExits(g)

Next ==
    \/ \E a \in Starters : StartStep(a)
    \/ \E k \in Closers : CloseStep(k)
    \/ \E s \in Sends : SendStep(s) \/ SendTimesOut(s)
    \/ \E w \in Waiters : WaitStep(w)
    \/ \E g \in Spawns : ReaderStep(g) \/ PiStep(g)

\* The loop runs every coroutine that is ready.  Nothing is promised of pi,
\* of the handlers' own waits, of who calls what, or of the request timeout:
\* the liveness properties hold without it.
Fairness ==
    /\ \A a \in Starters : WF_vars(starter[a] \in {"spawn", "probe", "cleanup"}
                                   /\ StartStep(a))
    /\ \A k \in Closers : WF_vars(closer[k] # "idle" /\ CloseStep(k))
    /\ \A s \in Sends : WF_vars(send[s] # "idle" /\ SendStep(s))
    /\ \A w \in Waiters : WF_vars(waiter[w] # "idle" /\ WaitStep(w))
    /\ \A g \in Spawns : WF_vars(HandleResponse(g) \/ HandleEvent(g)
                                 \/ ReaderCancelled(g) \/ ReaderEof(g))

Spec == Init /\ [][Next]_vars /\ Fairness

-----------------------------------------------------------------------------
(* Safety.                                                                 *)

\* A request that waits for its answer.
Outstanding(s) == send[s] \in {"drain", "await"} /\ future[s] = "pending"

\* Correlation: what a send returns is pi's answer to that very request,
\* whatever was answered late, timed out or sent to an earlier process.
AnswersMatch == \A s \in Sends : future[s] \in Sends => future[s] = s

\* A request that waits is the one registered under its id, so its answer
\* finds it: nobody overwrites or pops the entry (F34).
OutstandingIsRegistered ==
    \A s \in Sends : Outstanding(s) => pending[IdOf(s)] = s

\* An entry of _pending is that of a send with this id.
EntriesMatch ==
    \A i \in Ids : pending[i] # NoOne => IdOf(pending[i]) = i

\* Who works for a process has hold of one; a close() past its kill and a
\* startup cleanup find it exited; before the first process nothing is sent.
ProcessesHeld ==
    /\ \A g \in Spawns : reader[g] # "none" => readerOn[g] # 0
    /\ \A k \in Closers :
         /\ closer[k] \notin {"idle", "done"} => closerProc[k] # 0
         /\ closer[k] \in {"cancel", "finish"} => child[closerProc[k]] = "exited"
    /\ (\E a \in Starters : starter[a] = "cleanup") =>
         \E g \in Spawns : child[g] = "exited"
    /\ (\A g \in Spawns : child[g] = "none") =>
         process = 0 /\ \A s \in Sends : ~Outstanding(s)

\* The type invariant, the correlation, and what they rest on.
RequestsInv ==
    TypeOK /\ AnswersMatch /\ OutstandingIsRegistered /\ EntriesMatch /\ ProcessesHeld

\* Whenever the client holds no process and no start() failed, no request is
\* waiting: close() leaves none behind.
NothingOutstandingAfterClose ==
    (process = 0 /\ \A a \in Starters : starter[a] # "failed") =>
      \A s \in Sends : ~Outstanding(s)

\* Every live pi process is held by the client or by a close() in progress.
NoStrayProcess ==
    \A g \in Spawns :
      child[g] = "alive" =>
        process = g \/ \E k \in Closers : closerProc[k] = g /\ closer[k] \in {"flush", "terminate"}

(* Liveness.                                                               *)

\* close() returns, and it ends every request that was waiting, without the
\* help of a request timeout and even one made by an event handler.
CloseEndsSends ==
    \A k \in Closers, s \in Sends :
      (closer[k] = "flush" /\ send[s] \in {"drain", "await"})
         ~> (closer[k] = "done" /\ send[s] = "done")
=============================================================================
