------------------------------- MODULE Bridge -------------------------------
(***************************************************************************)
(* The loopback bridge between pi and Python: the TypeScript shim that     *)
(* runs inside pi (pi/shim.py) and PythonToolServer (pi/server.py).  Every *)
(* call has a TCP connection of its own: the shim connects, writes one     *)
(* request and reads frames; the server reads the request, runs a tool or  *)
(* a hook, writes the response and closes.                                 *)
(*                                                                         *)
(* Three parties interleave: the shim (with its timeout and pi's abort     *)
(* signal), the coroutines of the server on the asyncio loop (the one that *)
(* serves the connection and the one that watches for a disconnect), and   *)
(* the Python code they wait for, which may run on another thread.         *)
(***************************************************************************)
EXTENDS Naturals, Sequences, FiniteSets

CONSTANTS
    Executes,    \* bridgeCall("execute"): a tool call
    Decisions,   \* bridgeCall("event"): a decision hook with its gate open
    Notifies,    \* bridgeNotify("notify_event"): the gate is closed
    Detached,    \* calls whose Python code runs on another thread: a tool on
                 \* the executor, a sync hook on the owner thread
    MaxCalls,    \* bound on the calls pi ever makes
    MaxUpdates,  \* bound: a tool streams no update on top of that many frames
    MayClose,    \* the server is closed at some time
    WaitsForConnections  \* Server.wait_closed waits for the connections that
                         \* are open (Python 3.12), or for none (3.11)

Calls == Executes \cup Decisions \cup Notifies

ASSUME BridgeAssumption ==
    /\ Executes \cap Decisions = {}
    /\ Notifies \cap (Executes \cup Decisions) = {}
    /\ Detached \subseteq Calls
    /\ {MaxCalls, MaxUpdates} \subseteq Nat
    /\ {MayClose, WaitsForConnections} \subseteq BOOLEAN

VARIABLES
    piAlive,   \* pi, and the shim in it, run
    shim,      \* the promise of each call; waiting: the request is written
    conn,      \* the server's end of each connection
    frames,    \* the frames the server wrote on it ...
    read,      \* ... and how many of them the shim has read
    task,      \* the server's task of each call
    asked,     \* calls whose task has a cancellation on its way
    watching,  \* calls with a watch_disconnect task
    flag,      \* the cancelled event of each call
    handler,   \* the tool or hook of each call
    server     \* PythonToolServer

shimVars == <<piAlive, shim, read>>
pyVars == <<flag, handler>>
vars == <<shimVars, conn, frames, task, asked, watching, pyVars, server>>

Responses == {"ok", "error"}

TypeOK ==
    /\ piAlive \in BOOLEAN
    /\ shim \in [Calls -> {"idle", "connecting", "waiting", "resolved",
                           "rejected", "gone"}]
    /\ conn \in [Calls -> {"none", "backlog", "open", "closed", "reset"}]
    /\ frames \in [Calls -> Seq(Responses \cup {"update"})]
    /\ read \in [Calls -> Nat]
    /\ \A c \in Calls : read[c] <= Len(frames[c])
    /\ task \in [Calls -> {"none", "reading", "handling", "drain", "finish",
                           "done"}]
    /\ asked \subseteq Calls
    /\ watching \subseteq Calls
    /\ flag \in [Calls -> BOOLEAN]
    /\ handler \in [Calls -> {"none", "queued", "running", "value", "error",
                              "dropped"}]
    /\ server \in {"down", "up", "closing", "cancelling", "closed",
                   "abandoned"}

Init ==
    /\ piAlive = TRUE
    /\ shim = [c \in Calls |-> "idle"]
    /\ conn = [c \in Calls |-> "none"]
    /\ frames = [c \in Calls |-> << >>]
    /\ read = [c \in Calls |-> 0]
    /\ task = [c \in Calls |-> "none"]
    /\ asked = {}
    /\ watching = {}
    /\ flag = [c \in Calls |-> FALSE]
    /\ handler = [c \in Calls |-> "none"]
    /\ server = "down"

-----------------------------------------------------------------------------
(* The shim.                                                               *)

Settle(c, how) == shim' = [shim EXCEPT ![c] = how]

\* The shim has ended or destroyed its socket.
HungUp(c) == shim[c] \in {"resolved", "rejected", "gone"}

Call(c) ==
    /\ piAlive
    /\ shim[c] = "idle"
    /\ Cardinality({d \in Calls : shim[d] # "idle"}) < MaxCalls
    /\ Settle(c, "connecting")
    /\ UNCHANGED <<piAlive, read, conn, frames, task, asked, watching, pyVars,
                   server>>

\* "connect": the request is written.  bridgeNotify ends its socket with it
\* and is done.
Connect(c) ==
    /\ shim[c] = "connecting"
    /\ server = "up"
    /\ conn' = [conn EXCEPT ![c] = "backlog"]
    /\ Settle(c, IF c \in Notifies THEN "resolved" ELSE "waiting")
    /\ UNCHANGED <<piAlive, read, frames, task, asked, watching, pyVars,
                   server>>

\* "error": nobody listens, or the connection was reset.
SocketError(c) ==
    /\ \/ shim[c] = "connecting" /\ server # "up"
       \/ shim[c] = "waiting" /\ conn[c] = "reset"
    /\ Settle(c, "rejected")
    /\ UNCHANGED <<piAlive, read, conn, frames, task, asked, watching, pyVars,
                   server>>

\* The abort signal or the timeout of a bridgeCall.
GiveUp(c) ==
    /\ c \notin Notifies
    /\ shim[c] \in {"connecting", "waiting"}
    /\ Settle(c, "rejected")
    /\ UNCHANGED <<piAlive, read, conn, frames, task, asked, watching, pyVars,
                   server>>

\* "data": an update is passed on, a response settles the promise.
ReadFrame(c) ==
    /\ shim[c] = "waiting"
    /\ read[c] < Len(frames[c])
    /\ read' = [read EXCEPT ![c] = @ + 1]
    /\ LET frame == frames[c][read[c] + 1] IN
         CASE frame = "update" -> UNCHANGED shim
           [] frame = "ok" -> Settle(c, "resolved")
           [] frame = "error" -> Settle(c, "rejected")
    /\ UNCHANGED <<piAlive, conn, frames, task, asked, watching, pyVars, server>>

\* "end": the bridge ended before the response.
SocketEnds(c) ==
    /\ shim[c] = "waiting"
    /\ conn[c] = "closed"
    /\ read[c] = Len(frames[c])
    /\ Settle(c, "rejected")
    /\ UNCHANGED <<piAlive, read, conn, frames, task, asked, watching, pyVars,
                   server>>

\* pi ends, or is killed, and its sockets are closed.
PiExits ==
    /\ piAlive
    /\ piAlive' = FALSE
    /\ shim' = [c \in Calls |-> IF shim[c] \in {"connecting", "waiting"}
                                THEN "gone" ELSE shim[c]]
    /\ UNCHANGED <<read, conn, frames, task, asked, watching, pyVars, server>>

-----------------------------------------------------------------------------
(* The server's coroutines.                                                *)

Start ==
    /\ server = "down"
    /\ server' = "up"
    /\ UNCHANGED <<shimVars, conn, frames, task, asked, watching, pyVars>>

\* _handle_client: a task for the connection.
Accept(c) ==
    /\ server = "up"
    /\ conn[c] = "backlog"
    /\ conn' = [conn EXCEPT ![c] = "open"]
    /\ task' = [task EXCEPT ![c] = "reading"]
    /\ UNCHANGED <<shimVars, frames, asked, watching, pyVars, server>>

\* The finally block of _serve_client.
CloseWriter(c) ==
    /\ conn' = [conn EXCEPT ![c] = "closed"]
    /\ task' = [task EXCEPT ![c] = "done"]

Goes(c) == c \notin asked

\* Mutant: the connection of a request in progress is not watched.
ReadRequestUnwatched(c) ==
    /\ task[c] = "reading" /\ Goes(c)
    /\ task' = [task EXCEPT ![c] = "handling"]
    /\ handler' = [handler EXCEPT ![c] =
                     IF c \in Detached THEN "queued" ELSE "running"]
    /\ conn' = [conn EXCEPT ![c] = IF c \in Notifies THEN "closed" ELSE @]
    /\ UNCHANGED <<shimVars, frames, asked, watching, flag, server>>

\* The request is dispatched: a watcher is started, and the tool or hook runs
\* or is handed to its thread.  A notify_event gets a task of its own and its
\* connection is closed at once.
ReadRequest(c) ==
    /\ task[c] = "reading" /\ Goes(c)
    /\ task' = [task EXCEPT ![c] = "handling"]
    /\ watching' = watching \cup {c}
    /\ handler' = [handler EXCEPT ![c] =
                     IF c \in Detached THEN "queued" ELSE "running"]
    /\ conn' = [conn EXCEPT ![c] = IF c \in Notifies THEN "closed" ELSE @]
    /\ UNCHANGED <<shimVars, frames, asked, flag, server>>

\* Mutant: the connection of a request that failed is left open.
ReadFailsOpen(c) ==
    /\ task[c] = "reading" /\ Goes(c)
    /\ task' = [task EXCEPT ![c] = "done"]
    /\ UNCHANGED <<shimVars, conn, frames, asked, watching, pyVars, server>>

\* The request did not arrive whole or in time, or exceeds the limit: the
\* connection is closed without a word.
ReadFails(c) ==
    /\ task[c] = "reading" /\ Goes(c)
    /\ CloseWriter(c)
    /\ UNCHANGED <<shimVars, frames, asked, watching, pyVars, server>>

Write(c, frame) == frames' = [frames EXCEPT ![c] = Append(@, frame)]

\* Mutant: the watcher sets cancelled when it is cancelled itself.
RespondFlagging(c) ==
    /\ c \notin Notifies
    /\ task[c] = "handling" /\ Goes(c)
    /\ handler[c] \in {"value", "error"}
    /\ Write(c, IF handler[c] = "value" THEN "ok" ELSE "error")
    /\ watching' = IF c \in Decisions THEN watching \ {c} ELSE watching
    /\ flag' = [flag EXCEPT ![c] = @ \/ c \in watching]
    /\ \E next \in {"drain", "finish"} : task' = [task EXCEPT ![c] = next]
    /\ UNCHANGED <<shimVars, conn, asked, handler, server>>

\* The tool or hook has ended: the response is written, and drain waits only
\* when the peer reads slowly.  A decision's watcher is cancelled before, a
\* tool's after the response.
Respond(c) ==
    /\ c \notin Notifies
    /\ task[c] = "handling" /\ Goes(c)
    /\ handler[c] \in {"value", "error"}
    /\ Write(c, IF handler[c] = "value" THEN "ok" ELSE "error")
    /\ watching' = IF c \in Decisions THEN watching \ {c} ELSE watching
    /\ \E next \in {"drain", "finish"} : task' = [task EXCEPT ![c] = next]
    /\ UNCHANGED <<shimVars, conn, asked, pyVars, server>>

\* The peer has read what was written, or is gone.
Drained(c) ==
    /\ task[c] = "drain" /\ Goes(c)
    /\ read[c] = Len(frames[c]) \/ HungUp(c)
    /\ task' = [task EXCEPT ![c] = "finish"]
    /\ UNCHANGED <<shimVars, conn, frames, asked, watching, pyVars, server>>

\* The watcher is gone, the connection is closed.
FinishCall(c) ==
    /\ task[c] = "finish"
    /\ CloseWriter(c)
    /\ watching' = watching \ {c}
    /\ asked' = asked \ {c}
    /\ UNCHANGED <<shimVars, frames, pyVars, server>>

\* A notification hook has ended.
FinishNotify(c) ==
    /\ c \in Notifies
    /\ task[c] = "handling" /\ Goes(c)
    /\ handler[c] \in {"value", "error"}
    /\ task' = [task EXCEPT ![c] = "done"]
    /\ watching' = watching \ {c}
    /\ UNCHANGED <<shimVars, conn, frames, asked, pyVars, server>>

\* watch_disconnect reads EOF.
SeeDisconnect(c) ==
    /\ c \in watching
    /\ HungUp(c) \/ conn[c] = "closed"
    /\ watching' = watching \ {c}
    /\ flag' = [flag EXCEPT ![c] = TRUE]
    /\ UNCHANGED <<shimVars, conn, frames, task, asked, handler, server>>

-----------------------------------------------------------------------------
(* The Python code of a call.                                              *)

HandlerStarts(c) ==
    /\ handler[c] = "queued"
    /\ handler' = [handler EXCEPT ![c] = "running"]
    /\ UNCHANGED <<shimVars, conn, frames, task, asked, watching, flag, server>>

\* The loop writes an update of a tool, for a tool on the executor whatever
\* its task does by then.
Update(c) ==
    /\ c \in Executes
    /\ handler[c] = "running"
    /\ conn[c] = "open"
    /\ Len(frames[c]) < MaxUpdates
    /\ Write(c, "update")
    /\ UNCHANGED <<shimVars, conn, task, asked, watching, pyVars, server>>

HandlerEnds(c) ==
    /\ handler[c] = "running"
    /\ \E r \in {"value", "error"} : handler' = [handler EXCEPT ![c] = r]
    /\ UNCHANGED <<shimVars, conn, frames, task, asked, watching, flag, server>>

\* An async tool or hook that has not ended: it runs in the task itself.
AtWork(c) == c \notin Detached /\ handler[c] = "running"

\* What a task that ends by its cancellation leaves of the code it waited for:
\* async code has ended with the error, the executor drops a tool that did not
\* start, code that runs on another thread runs on, and so does a sync hook in
\* the owner thread's queue (unless it was the second of the call's two hooks).
Leftover(c) ==
    IF handler[c] \in {"none", "value", "error"} THEN {handler[c]}
    ELSE IF c \notin Detached THEN {"dropped"}
    ELSE IF handler[c] = "queued" /\ c \in Executes THEN {"dropped"}
    ELSE {handler[c]} \cup (IF handler[c] = "queued" THEN {"dropped"} ELSE {})

-----------------------------------------------------------------------------
(* Cancellation: where it finds the task.                                  *)

CancelReading(c) ==
    /\ c \in asked
    /\ task[c] = "reading"
    /\ CloseWriter(c)
    /\ asked' = asked \ {c}
    /\ UNCHANGED <<shimVars, frames, watching, pyVars, server>>

\* Mutant: the response to a cancelled execute is a success, the default.
CancelExecuteOk(c) ==
    /\ c \in asked \cap Executes
    /\ task[c] \in {"handling", "drain"}
    /\ Write(c, "ok")
    /\ flag' = [flag EXCEPT ![c] = TRUE]
    /\ \E h \in Leftover(c) : handler' = [handler EXCEPT ![c] = h]
    /\ \E next \in {"drain", "finish"} : task' = [task EXCEPT ![c] = next]
    /\ asked' = asked \ {c}
    /\ UNCHANGED <<shimVars, conn, watching, server>>

\* _dispatch_execute answers its own cancellation, even one that finds it in
\* the drain of the response.
CancelExecute(c) ==
    /\ c \in asked \cap Executes
    /\ task[c] \in {"handling", "drain"}
    /\ Write(c, "error")
    /\ flag' = [flag EXCEPT ![c] = TRUE]
    /\ \E h \in Leftover(c) : handler' = [handler EXCEPT ![c] = h]
    /\ \E next \in {"drain", "finish"} : task' = [task EXCEPT ![c] = next]
    /\ asked' = asked \ {c}
    /\ UNCHANGED <<shimVars, conn, watching, server>>

\* An event's task ends without a response, and its watcher with it.
CancelEvent(c) ==
    /\ c \in asked \ Executes
    /\ task[c] \in {"handling", "drain"}
    /\ CloseWriter(c)
    /\ \E h \in Leftover(c) : handler' = [handler EXCEPT ![c] = h]
    /\ watching' = watching \ {c}
    /\ asked' = asked \ {c}
    /\ UNCHANGED <<shimVars, frames, flag, server>>

\* Async code may handle the CancelledError itself and go on, as if it had not
\* been asked.  Before it lets the error through, or does that, it may await
\* what it likes: asked holds the task for so long.
CancelHandled(c) ==
    /\ c \in asked
    /\ task[c] = "handling" /\ AtWork(c)
    /\ asked' = asked \ {c}
    /\ UNCHANGED <<shimVars, conn, frames, task, watching, pyVars, server>>

-----------------------------------------------------------------------------
(* PythonToolServer.close.                                                 *)

Tasks == {c \in Calls : task[c] \notin {"none", "done"}}

\* The listening socket is closed: connections nobody accepted are reset.
BeginClose ==
    /\ MayClose
    /\ server = "up"
    /\ server' = "closing"
    /\ conn' = [c \in Calls |-> IF conn[c] = "backlog" THEN "reset"
                                ELSE conn[c]]
    /\ UNCHANGED <<shimVars, frames, task, asked, watching, pyVars>>

\* wait_closed waits for a connection to end.
HeldUp == WaitsForConnections /\ \E c \in Calls : conn[c] = "open"

\* Mutant: the tasks are waited for, not cancelled.
CancelTasksForgotten ==
    /\ server = "closing" /\ ~HeldUp
    /\ server' = IF Tasks = {} THEN "closed" ELSE "cancelling"
    /\ UNCHANGED <<shimVars, conn, frames, task, asked, watching, pyVars>>

\* wait_closed returned: the tasks are cancelled and waited for.
CancelTasks ==
    /\ server = "closing" /\ ~HeldUp
    /\ asked' = Tasks
    /\ server' = IF Tasks = {} THEN "closed" ELSE "cancelling"
    /\ UNCHANGED <<shimVars, conn, frames, task, watching, pyVars>>

EndClose ==
    /\ server = "cancelling"
    /\ Tasks = {}
    /\ server' = "closed"
    /\ UNCHANGED <<shimVars, conn, frames, task, asked, watching, pyVars>>

\* core.close() gives the server ten seconds; the cancellation of its close()
\* reaches the tasks only through the gather.
CloseTimesOut ==
    /\ server = "cancelling" \/ (server = "closing" /\ HeldUp)
    /\ asked' = IF server = "cancelling" THEN Tasks ELSE asked
    /\ server' = "abandoned"
    /\ UNCHANGED <<shimVars, conn, frames, task, watching, pyVars>>

-----------------------------------------------------------------------------
ShimStep(c) ==
    Connect(c) \/ SocketError(c) \/ ReadFrame(c) \/ SocketEnds(c)

TaskStep(c) ==
    \/ ReadRequest(c) \/ ReadFails(c) \/ Respond(c) \/ Drained(c)
    \/ FinishCall(c) \/ FinishNotify(c) \/ CancelReading(c)
    \/ CancelExecute(c) \/ CancelEvent(c) \/ CancelHandled(c)

ServerStep == CancelTasks \/ EndClose

Next ==
    \/ \E c \in Calls :
         \/ Call(c) \/ GiveUp(c) \/ ShimStep(c)
         \/ Accept(c) \/ TaskStep(c) \/ SeeDisconnect(c)
         \/ HandlerStarts(c) \/ Update(c) \/ HandlerEnds(c)
    \/ PiExits \/ Start \/ BeginClose \/ ServerStep \/ CloseTimesOut

\* The event loops of pi and of Python run what is ready.  Nothing is
\* promised of tools and hooks (an async one, cancelled or not, is its task's
\* next step), of aborts and timeouts, or of the ten seconds of core.close().
Fairness ==
    /\ \A c \in Calls : /\ WF_vars(ShimStep(c))
                        /\ WF_vars(Accept(c))
                        /\ WF_vars(~AtWork(c) /\ TaskStep(c))
                        /\ WF_vars(SeeDisconnect(c))
    /\ WF_vars(ServerStep)

Spec == Init /\ [][Next]_vars /\ Fairness

-----------------------------------------------------------------------------
(* Safety.                                                                 *)

\* What the shim relies on when it takes the first line of an event's
\* connection for its answer: an event is answered at most once, with nothing
\* before or after, also when close() cancels its task (server.py:208-211).
OneResponse == \A c \in Decisions : Len(frames[c]) <= 1

\* A call pi sees succeed is one whose tool or hook returned a value: no
\* cancelled, dropped or still running code is taken for a success.
ResolvedIsReturned ==
    \A c \in Calls \ Notifies : shim[c] = "resolved" => handler[c] = "value"

\* A call is connected, accepted, read and handled in that order, and the
\* connection of a call that waits for a response is open until its task ends.
StagesAgree ==
    \A c \in Calls :
      /\ shim[c] \in {"idle", "connecting"} => conn[c] = "none"
      /\ conn[c] \in {"none", "backlog", "reset"} => task[c] = "none"
      /\ task[c] \in {"none", "reading"} => handler[c] = "none"
      /\ c \notin Notifies /\ task[c] \notin {"none", "done"}
           => conn[c] = "open"

\* A success is written only of what returned a value, and never taken back.
OkIsReturned ==
    \A c \in Calls : \A i \in 1..Len(frames[c]) :
      frames[c][i] = "ok" => handler[c] = "value"

\* The watcher of a decision ends before its response is written, and the
\* response is the last thing its task does on the connection.
DecisionsUnanswered ==
    \A c \in Decisions :
      /\ c \in watching => task[c] = "handling"
      /\ task[c] \in {"none", "reading", "handling"} => Len(frames[c]) = 0

\* The type invariant and what the rest follows from.
BridgeInv ==
    /\ TypeOK
    /\ StagesAgree
    /\ OkIsReturned
    /\ DecisionsUnanswered
    /\ OneResponse
    /\ ResolvedIsReturned

\* F13: ctx.cancelled of a decision never flips once it was answered, and
\* only because pi hung up (server.py:239-258).
CancelNotAfterTheFact ==
    [][\A c \in Decisions :
         flag'[c] /\ ~flag[c] =>
           /\ HungUp(c)
           /\ \A i \in 1..Len(frames'[c]) : frames'[c][i] = "update"]_vars

(* Liveness.                                                               *)

\* No call of pi waits for a server that is done with it: once its tool or
\* hook has ended, or its task, the promise is settled.
CallsSettle ==
    \A c \in Calls \ Notifies :
      (task[c] = "done" \/ handler[c] \in {"value", "error"})
        ~> shim[c] # "waiting"

\* AGENT_HOOKS.md:221: a tool or hook that works for a call which ended
\* without it learns of that through ctx.cancelled, as long as the server is
\* not being closed.
DisconnectSeen ==
    \A c \in Calls \ Notifies :
      (shim[c] \in {"rejected", "gone"} /\ handler[c] \in {"queued", "running"})
        ~> (flag[c] \/ handler[c] \notin {"queued", "running"} \/ server # "up")

\* Once close() has cancelled the tasks of the server, each of them ends,
\* whatever tools and hooks on other threads do.  Only async code that handles
\* its cancellation, or awaits in spite of it, may hold its task up, and with it
\* close() (server.py:122-126), for as long as it runs; it holds up no other task.
CloseEndsTasks ==
    server \in {"closing", "cancelling", "abandoned"} ~> \A c \in Tasks : AtWork(c)
=============================================================================
