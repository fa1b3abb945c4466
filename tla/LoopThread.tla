----------------------------- MODULE LoopThread -----------------------------
(***************************************************************************)
(* The shared asyncio loop thread (AsyncioLoopThread) and the start,       *)
(* submit_async and close of HarnessRuntime around it (pi/runtime.py).     *)
(*                                                                         *)
(* Application threads submit coroutines and close the runtime while loop  *)
(* threads come up, run and drain.  self._start_lock is held across the    *)
(* wait for _ready in start() and across the join in stop(), so those two  *)
(* are modelled in the steps other threads can fall between.               *)
(***************************************************************************)
EXTENDS Naturals

CONSTANTS
    Users,      \* threads that call HarnessRuntime.submit_async once
    Stoppers,   \* threads that call HarnessRuntime.close once
    Loops,      \* the loop threads that can be made: a bound
    Free,       \* nobody holds _start_lock
    None        \* no loop thread

Threads == Users \cup Stoppers

ASSUME RuntimeAssumption ==
    /\ Users \cap Stoppers = {}
    /\ Free \notin Threads
    /\ None \notin Loops

VARIABLES
    lock,           \* AsyncioLoopThread._start_lock
    closed,         \* AsyncioLoopThread._closed
    runtimeClosed,  \* HarnessRuntime._closed
    thread,         \* AsyncioLoopThread._thread
    loop,           \* AsyncioLoopThread._loop
    ready,          \* AsyncioLoopThread._ready
    loopState,      \* what each loop thread is doing
    stopping,       \* loops with a loop.stop call queued
    pc,             \* where each application thread is
    round,          \* which start() of submit_async a user is in
    target,         \* the loop each user read from self.loop
    job             \* what became of each user's coroutine

vars == <<lock, closed, runtimeClosed, thread, loop, ready, loopState,
          stopping, pc, round, target, job>>

TypeOK ==
    /\ lock \in Threads \cup {Free}
    /\ closed \in BOOLEAN /\ runtimeClosed \in BOOLEAN /\ ready \in BOOLEAN
    /\ {thread, loop} \subseteq Loops \cup {None}
    /\ loopState \in [Loops -> {"none", "starting", "ready", "running",
                                "draining", "aborted", "closed"}]
    /\ stopping \subseteq Loops
    /\ pc \in [Threads -> {"idle", "start", "waitReady", "readLoop",
                           "schedule", "stop", "tell", "join", "shutdown",
                           "done"}]
    /\ round \in [Users -> 1..2]
    /\ target \in [Users -> Loops \cup {None}]
    /\ job \in [Users -> {"none", "refused", "scheduled", "task",
                          "cancelling", "cancelled", "done"}]

Init ==
    /\ lock = Free
    /\ closed = FALSE
    /\ runtimeClosed = FALSE
    /\ thread = None
    /\ loop = None
    /\ ready = FALSE
    /\ loopState = [g \in Loops |-> "none"]
    /\ stopping = {}
    /\ pc = [t \in Threads |-> "idle"]
    /\ round = [u \in Users |-> 1]
    /\ target = [u \in Users |-> None]
    /\ job = [u \in Users |-> "none"]

\* loop.is_running(): while a stopped loop drains, run_until_complete makes it
\* true and false by turns.
MayBeRunning(g) == g # None /\ loopState[g] \in {"running", "draining"}
MayBeIdle(g) == ~(g # None /\ loopState[g] = "running")

Goto(t, label) == pc' = [pc EXCEPT ![t] = label]

-----------------------------------------------------------------------------
(* HarnessRuntime.submit_async.                                            *)

Refuse(u) ==
    /\ job' = [job EXCEPT ![u] = "refused"]
    /\ Goto(u, "done")

\* HarnessRuntime.start: the unlocked check of the runtime's own flag.
BeginSubmit(u) ==
    /\ pc[u] = "idle"
    /\ IF runtimeClosed
       THEN Refuse(u)
       ELSE Goto(u, "start") /\ UNCHANGED job
    /\ UNCHANGED <<lock, closed, runtimeClosed, thread, loop, ready,
                   loopState, stopping, round, target>>

\* start() returned: submit_async goes on to the loop property, which calls
\* start() again and then reads self._loop.
StartReturns(u) ==
    IF round[u] = 1
    THEN round' = [round EXCEPT ![u] = 2] /\ Goto(u, "start")
    ELSE Goto(u, "readLoop") /\ UNCHANGED round

\* start() on a loop that runs.
StartFindsRunning(u) ==
    /\ pc[u] = "start"
    /\ lock = Free
    /\ MayBeRunning(loop)
    /\ StartReturns(u)
    /\ UNCHANGED <<lock, closed, runtimeClosed, thread, loop, ready,
                   loopState, stopping, target, job>>

StartRefused(u) ==
    /\ pc[u] = "start"
    /\ lock = Free
    /\ MayBeIdle(loop)
    /\ closed
    /\ Refuse(u)
    /\ UNCHANGED <<lock, closed, runtimeClosed, thread, loop, ready,
                   loopState, stopping, round, target>>

\* The loop thread that a call of start() makes.  submit_async calls start()
\* twice, in HarnessRuntime.start and in the loop property, so two for each
\* user are always enough.
CanMakeLoop == \E g \in Loops : loopState[g] = "none"
Fresh == CHOOSE g \in Loops : loopState[g] = "none"

\* Mutant: start() forgets that the loop thread was stopped.
StartMakesThreadUnchecked(u) ==
    /\ pc[u] = "start"
    /\ lock = Free
    /\ MayBeIdle(loop)
    /\ CanMakeLoop
    /\ lock' = u
    /\ ready' = FALSE
    /\ thread' = Fresh
    /\ loopState' = [loopState EXCEPT ![Fresh] = "starting"]
    /\ Goto(u, "waitReady")
    /\ UNCHANGED <<closed, runtimeClosed, loop, stopping, round, target, job>>

\* Mutant: the loop of the thread that is replaced is told to stop.
StartMakesThreadStopsOld(u) ==
    /\ pc[u] = "start"
    /\ lock = Free
    /\ MayBeIdle(loop)
    /\ ~closed
    /\ CanMakeLoop
    /\ lock' = u
    /\ ready' = FALSE
    /\ thread' = Fresh
    /\ loopState' = [loopState EXCEPT ![Fresh] = "starting"]
    /\ stopping' = stopping \cup ({loop} \ {None})
    /\ Goto(u, "waitReady")
    /\ UNCHANGED <<closed, runtimeClosed, loop, round, target, job>>

StartMakesThread(u) ==
    /\ pc[u] = "start"
    /\ lock = Free
    /\ MayBeIdle(loop)
    /\ ~closed
    /\ CanMakeLoop
    /\ lock' = u
    /\ ready' = FALSE
    /\ thread' = Fresh
    /\ loopState' = [loopState EXCEPT ![Fresh] = "starting"]
    /\ Goto(u, "waitReady")
    /\ UNCHANGED <<closed, runtimeClosed, loop, stopping, round, target, job>>

ReadyWaited(u) ==
    /\ pc[u] = "waitReady"
    /\ ready
    /\ lock' = Free
    /\ StartReturns(u)
    /\ UNCHANGED <<closed, runtimeClosed, thread, loop, ready, loopState,
                   stopping, target, job>>

ReadLoop(u) ==
    /\ pc[u] = "readLoop"
    /\ target' = [target EXCEPT ![u] = loop]
    /\ Goto(u, "schedule")
    /\ UNCHANGED <<lock, closed, runtimeClosed, thread, loop, ready,
                   loopState, stopping, round, job>>

\* run_coroutine_threadsafe raises on a closed loop and only on that.
Schedule(u) ==
    /\ pc[u] = "schedule"
    /\ IF loopState[target[u]] = "closed"
       THEN Refuse(u)
       ELSE /\ job' = [job EXCEPT ![u] = "scheduled"]
            /\ Goto(u, "done")
    /\ UNCHANGED <<lock, closed, runtimeClosed, thread, loop, ready,
                   loopState, stopping, round, target>>

-----------------------------------------------------------------------------
(* HarnessRuntime.close and AsyncioLoopThread.stop.                        *)

BeginClose(s) ==
    /\ pc[s] = "idle"
    /\ Goto(s, IF runtimeClosed THEN "done" ELSE "stop")
    /\ UNCHANGED <<lock, closed, runtimeClosed, thread, loop, ready,
                   loopState, stopping, round, target, job>>

StopNeverStarted(s) ==
    /\ pc[s] = "stop"
    /\ lock = Free
    /\ loop = None \/ thread = None
    /\ closed' = TRUE
    /\ Goto(s, "shutdown")
    /\ UNCHANGED <<lock, runtimeClosed, thread, loop, ready, loopState,
                   stopping, round, target, job>>

\* stop() takes the lock and asks the loop whether it is running: one that is
\* not is not told to stop, only joined.
CheckLoop(s) ==
    /\ pc[s] = "stop"
    /\ lock = Free
    /\ loop # None /\ thread # None
    /\ \/ MayBeRunning(loop) /\ Goto(s, "tell")
       \/ MayBeIdle(loop) /\ Goto(s, "join")
    /\ lock' = s
    /\ UNCHANGED <<closed, runtimeClosed, thread, loop, ready, loopState,
                   stopping, round, target, job>>

\* The loop may have been closed since: then call_soon_threadsafe raises, and
\* with it stop() and close(), before anything is marked closed.
TellLoop(s) ==
    /\ pc[s] = "tell"
    /\ IF loopState[loop] = "closed"
       THEN lock' = Free /\ Goto(s, "done") /\ UNCHANGED stopping
       ELSE stopping' = stopping \cup {loop} /\ Goto(s, "join")
            /\ UNCHANGED lock
    /\ UNCHANGED <<closed, runtimeClosed, thread, loop, ready, loopState,
                   round, target, job>>

\* join(timeout): the thread has ended, or the timeout has passed.
JoinLoop(s) ==
    /\ pc[s] = "join"
    /\ closed' = TRUE
    /\ lock' = Free
    /\ Goto(s, "shutdown")
    /\ UNCHANGED <<runtimeClosed, thread, loop, ready, loopState, stopping,
                   round, target, job>>

\* tool_executor.shutdown(wait=True) has returned, which it does when the tools
\* that run have ended: after any time, or never.  close() marks the runtime
\* closed last.
MarkClosed(s) ==
    /\ pc[s] = "shutdown"
    /\ runtimeClosed' = TRUE
    /\ Goto(s, "done")
    /\ UNCHANGED <<lock, closed, thread, loop, ready, loopState, stopping,
                   round, target, job>>

-----------------------------------------------------------------------------
(* The loop threads: AsyncioLoopThread._run.                               *)

On(g, states) == {u \in Users : target[u] = g /\ job[u] \in states}

\* Mutant: the loop thread never sets _ready.
SetReadyForgotten(g) ==
    /\ loopState[g] = "starting"
    /\ loop' = g
    /\ loopState' = [loopState EXCEPT ![g] = "ready"]
    /\ UNCHANGED <<lock, closed, runtimeClosed, thread, ready, stopping, pc,
                   round, target, job>>

SetReady(g) ==
    /\ loopState[g] = "starting"
    /\ loop' = g
    /\ ready' = TRUE
    /\ loopState' = [loopState EXCEPT ![g] = "ready"]
    /\ UNCHANGED <<lock, closed, runtimeClosed, thread, stopping, pc, round,
                   target, job>>

RunForever(g) ==
    /\ loopState[g] = "ready"
    /\ loopState' = [loopState EXCEPT ![g] = "running"]
    /\ UNCHANGED <<lock, closed, runtimeClosed, thread, loop, ready, stopping,
                   pc, round, target, job>>

\* The queued callback turns the coroutine into a task; a loop that drains
\* still runs callbacks.
CreateTask(u) ==
    /\ job[u] = "scheduled"
    /\ loopState[target[u]] \in {"running", "draining"}
    /\ job' = [job EXCEPT ![u] = "task"]
    /\ UNCHANGED <<lock, closed, runtimeClosed, thread, loop, ready,
                   loopState, stopping, pc, round, target>>

FinishTask(u) ==
    /\ job[u] \in {"task", "cancelling"}
    /\ loopState[target[u]] \in {"running", "draining"}
    /\ \/ job' = [job EXCEPT ![u] = "done"]
       \/ /\ job[u] = "cancelling"
          /\ job' = [job EXCEPT ![u] = "cancelled"]
    /\ UNCHANGED <<lock, closed, runtimeClosed, thread, loop, ready,
                   loopState, stopping, pc, round, target>>

\* Mutant: the loop swallows the stop and runs on.
DrainSwallowed(g) ==
    /\ loopState[g] = "running"
    /\ g \in stopping
    /\ stopping' = stopping \ {g}
    /\ UNCHANGED <<lock, closed, runtimeClosed, thread, loop, ready, loopState,
                   pc, round, target, job>>

\* loop.stop ends run_forever; the tasks that exist now, and no later ones,
\* are cancelled and waited for.
Drain(g) ==
    /\ loopState[g] = "running"
    /\ g \in stopping
    /\ stopping' = stopping \ {g}
    /\ loopState' = [loopState EXCEPT ![g] = "draining"]
    /\ job' = [u \in Users |-> IF u \in On(g, {"task"}) THEN "cancelling"
                               ELSE job[u]]
    /\ UNCHANGED <<lock, closed, runtimeClosed, thread, loop, ready, pc,
                   round, target>>

\* A second loop.stop interrupts run_until_complete, which raises: the thread
\* ends with the loop unclosed.
AbortDrain(g) ==
    /\ loopState[g] = "draining"
    /\ g \in stopping
    /\ stopping' = stopping \ {g}
    /\ loopState' = [loopState EXCEPT ![g] = "aborted"]
    /\ UNCHANGED <<lock, closed, runtimeClosed, thread, loop, ready, pc,
                   round, target, job>>

\* Mutant: the cancelled tasks are not waited for.
CloseLoopAtOnce(g) ==
    /\ loopState[g] = "draining"
    /\ loopState' = [loopState EXCEPT ![g] = "closed"]
    /\ UNCHANGED <<lock, closed, runtimeClosed, thread, loop, ready, stopping,
                   pc, round, target, job>>

CloseLoop(g) ==
    /\ loopState[g] = "draining"
    /\ On(g, {"cancelling"}) = {}
    /\ loopState' = [loopState EXCEPT ![g] = "closed"]
    /\ UNCHANGED <<lock, closed, runtimeClosed, thread, loop, ready, stopping,
                   pc, round, target, job>>

-----------------------------------------------------------------------------
UserStep(u) ==
    \/ BeginSubmit(u) \/ StartFindsRunning(u) \/ StartRefused(u)
    \/ StartMakesThread(u) \/ ReadyWaited(u) \/ ReadLoop(u) \/ Schedule(u)

StopStep(s) ==
    StopNeverStarted(s) \/ CheckLoop(s) \/ TellLoop(s) \/ JoinLoop(s)

StopperStep(s) == BeginClose(s) \/ StopStep(s) \/ MarkClosed(s)

LoopStep(g) ==
    \/ SetReady(g) \/ RunForever(g) \/ Drain(g) \/ AbortDrain(g)
    \/ CloseLoop(g)
    \/ \E u \in Users : target[u] = g /\ (CreateTask(u) \/ FinishTask(u))

Next ==
    \/ \E u \in Users : UserStep(u)
    \/ \E s \in Stoppers : StopperStep(s)
    \/ \E g \in Loops : LoopStep(g)

\* Threads are scheduled, and coroutines end (the ones of the library bound
\* their waits or end when cancelled).  Whether a thread calls is its choice,
\* and nothing is promised of the tools that close() waits for.
Fairness ==
    /\ \A u \in Users : WF_vars(pc[u] # "idle" /\ UserStep(u))
    /\ \A s \in Stoppers : WF_vars(StopStep(s))
    /\ \A g \in Loops : WF_vars(SetReady(g) \/ RunForever(g) \/ Drain(g)
                                \/ AbortDrain(g) \/ CloseLoop(g))
    /\ \A u \in Users : WF_vars(CreateTask(u)) /\ WF_vars(FinishTask(u))

Spec == Init /\ [][Next]_vars /\ Fairness

-----------------------------------------------------------------------------
(* Safety.                                                                 *)

\* Whenever _start_lock is free, self._loop is the loop of self._thread: stop()
\* never tells one loop to stop and joins the thread of another.  This does not
\* say that all work is on that loop, as the comment at runtime.py:68-72 would
\* have it: a start() that finds a loop ready but not yet running replaces it,
\* and the work it was given stays with it.
LoopMatchesThread == lock = Free => loop = thread

Stopped(s) == pc[s] \in {"join", "shutdown", "done"}

StoppedTwice == \E r, s \in Stoppers : r # s /\ Stopped(r) /\ Stopped(s)

\* A loop thread ends only after every task that existed when it stopped is
\* settled (runtime.py:115-118); only a second stop(), after the join of the
\* first has timed out, breaks off the drain and leaves futures pending.
TasksSettledAtClose ==
    \A g \in Loops :
      loopState[g] \in {"aborted", "closed"} /\ On(g, {"cancelling"}) # {} =>
        StoppedTwice

-----------------------------------------------------------------------------
(* The inductive invariant behind them.                                    *)

\* The thread that waits for _ready or is inside stop() is the one with the
\* lock; self._loop lags behind self._thread only while start() waits for _ready.
LockHeld ==
    /\ \A t \in Threads : pc[t] \in {"waitReady", "tell", "join"} => lock = t
    /\ \A u \in Users : pc[u] \notin {"tell", "join"}
    /\ \A s \in Stoppers : /\ pc[s] # "waitReady"
                            /\ pc[s] = "tell" => loop # None
    /\ loop # thread => lock \in Users /\ ~ready
    /\ \A g \in Loops :
         loopState[g] = "starting" => g = thread /\ lock \in Users /\ ~ready

\* A coroutine is on its loop only once it was handed over.
HandedOver == \A u \in Users : job[u] # "none" => pc[u] = "done"

\* A loop drains because one stop() told it to, and is broken off because a
\* second one did.
StopsCounted ==
    \A g \in Loops :
      /\ g \in stopping \/ loopState[g] \in {"draining", "aborted", "closed"} =>
           \E s \in Stoppers : Stopped(s)
      /\ g \in stopping /\ loopState[g] \in {"draining", "aborted", "closed"} =>
           StoppedTwice
      /\ loopState[g] = "aborted" => StoppedTwice
      /\ loopState[g] = "closed" => On(g, {"cancelling"}) = {}

\* stop() tells the loop to stop whose thread it joins, and a loop that ends has
\* settled the tasks it had when its drain began, unless a second stop() broke
\* off the drain (runtime.py:60-118).  Not promised are work on a loop that was
\* replaced before it ran, which no stop() joins, and work that reaches a loop
\* after its drain has begun.
LoopInv ==
    /\ TypeOK
    /\ LoopMatchesThread
    /\ TasksSettledAtClose
    /\ LockHeld
    /\ HandedOver
    /\ StopsCounted

\* Once stop() has returned, no loop thread is made any more.
NoThreadAfterStop ==
    [][closed => \A g \in Loops : loopState[g] = "none" =>
                                    loopState'[g] = "none"]_vars

(* Liveness.                                                               *)

\* start(), submit_async() and stop() return: nobody waits for _ready, for the
\* lock or for a loop thread forever.  What a close() may then still wait for
\* are the tools that run on its executor (runtime.py:179-181).
CallsReturn ==
    \A t \in Threads : pc[t] # "idle" ~> pc[t] \in {"shutdown", "done"}

\* As long as nobody closes the runtime, every coroutine handed to it
\* finishes, even when it was handed to a loop of which start() has lost track.
SubmittedWorkFinishes ==
    \A u \in Users :
      job[u] = "scheduled" ~> (job[u] = "done" \/ \E s \in Stoppers : pc[s] # "idle")

\* A loop that was running when stop() told it to stop ends its thread.
StoppedLoopEnds ==
    \A g \in Loops : g \in stopping ~> loopState[g] \in {"aborted", "closed"}
=============================================================================
