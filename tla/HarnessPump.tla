---------------------------- MODULE HarnessPump ----------------------------
(***************************************************************************)
(* PiAgentHarness in the threaded=False mode (pi/agent.py): there is no    *)
(* owner thread.  The application's thread runs the command queue itself,  *)
(* but only while it waits for something: _call() and pump_until() take    *)
(* items until the future or the event they wait for is done.              *)
(*                                                                         *)
(* A sync hook runs on the application's thread inside such a wait and may *)
(* call the harness again, so waits nest: the thread is a stack of frames. *)
(* Beside it there is only the asyncio loop thread, which completes        *)
(* futures and dispatches hooks.  _STOP is never queued in this mode.      *)
(***************************************************************************)
EXTENDS Naturals, Sequences, SequencesExt

CONSTANTS
    Ops,          \* public calls that run an operation of the core
    Closers,      \* calls of close()
    FutureWaits,  \* pump_until(coroutine) and pump_until(future)
    EventWaits,   \* pump_until(threading.Event)
    Hooks,        \* sync hook dispatches (one _HookCall each)
    Cancellable   \* hooks whose awaiting coroutine close() cancels

Calls == Ops \cup Closers \cup FutureWaits \cup EventWaits

ASSUME CallsAssumption ==
    /\ Ops \cap Closers = {}
    /\ FutureWaits \cap EventWaits = {}
    /\ (Ops \cup Closers) \cap (FutureWaits \cup EventWaits) = {}
    /\ Calls \cap Hooks = {}

ASSUME CancellableAssumption == Cancellable \subseteq Hooks

VARIABLES
    closed,      \* PiAgentHarness._closed
    commands,    \* PiAgentHarness._commands
    stack,       \* the frames of the application's thread, the innermost last
    future,      \* what each call waits for: main future, loop future or event
    loopFuture,  \* the loop future an operation returned
    outcome,     \* what each call ended with
    completion,  \* _HookCall.completion of each hook
    coreClosed   \* core.close() has run

vars == <<closed, commands, stack, future, loopFuture, outcome, completion,
          coreClosed>>

-----------------------------------------------------------------------------
Command(c)      == [kind |-> "command",      of |-> c]
Continuation(c) == [kind |-> "continuation", of |-> c]
HookCall(h)     == [kind |-> "hookCall",     of |-> h]
Wake            == [kind |-> "wake",         of |-> "_WAKE"]

Items == {Command(c) : c \in Ops \cup Closers}
         \cup {Continuation(c) : c \in Ops \cup Closers}
         \cup {HookCall(h) : h \in Hooks} \cup {Wake}

Done == {"value", "error", "cancelled", "undelivered", "refused"}

Waiting == {"register", "check", "get", "finally"}
InHook  == {"hook", "set_result", "set_exception"}

Frames == [at : Waiting, of : Calls]
          \cup [at : {"operation"}, of : Ops \cup Closers]
          \cup [at : InHook, of : Hooks]

TypeOK ==
    /\ closed \in BOOLEAN
    /\ coreClosed \in BOOLEAN
    /\ commands \in Seq(Items)
    /\ stack \in Seq(Frames)
    /\ future \in [Calls -> {"none", "pending", "running"} \cup Done]
    /\ loopFuture \in [Ops \cup Closers -> {"none", "pending", "value", "error"}]
    /\ outcome \in [Calls -> {"none", "returned", "raised"}]
    /\ completion \in [Hooks -> {"none", "pending"} \cup Done]

Init ==
    /\ closed = FALSE
    /\ commands = << >>
    /\ stack = << >>
    /\ future = [c \in Calls |-> "none"]
    /\ loopFuture = [c \in Ops \cup Closers |-> "none"]
    /\ outcome = [c \in Calls |-> "none"]
    /\ completion = [h \in Hooks |-> "none"]
    /\ coreClosed = FALSE

-----------------------------------------------------------------------------
(* The stack.                                                              *)

At(places) == stack # << >> /\ Last(stack).at \in places

Push(place, x) == Append(stack, [at |-> place, of |-> x])

Move(place) == [stack EXCEPT ![Len(stack)].at = place]

OnStack(c) == \E i \in DOMAIN stack : stack[i].at \in Waiting /\ stack[i].of = c

HookOnStack(h) ==
    \E i \in DOMAIN stack : stack[i].at \in InHook /\ stack[i].of = h

\* Application code runs: outside of the harness, or in a sync hook.
AppRuns == stack = << >> \/ At({"hook"})

\* A future is done: the callback of the wait registered on it wakes that
\* wait.  The main future of a _call has its callback before it can be done.
SetFuture(c, result, queue) ==
    /\ future' = [future EXCEPT ![c] = result]
    /\ commands' = Append(queue, Wake)

-----------------------------------------------------------------------------
(* Calls of the application.                                               *)

\* _call: on a harness that is open, queue the operation and wait for it.
BeginCall(c) ==
    /\ c \in Ops
    /\ AppRuns /\ outcome[c] = "none" /\ ~OnStack(c)
    /\ IF closed
       THEN /\ outcome' = [outcome EXCEPT ![c] = "raised"]
            /\ UNCHANGED <<commands, stack, future>>
       ELSE /\ commands' = Append(commands, Command(c))
            /\ future' = [future EXCEPT ![c] = "pending"]
            /\ stack' = Push("check", c)
            /\ UNCHANGED outcome
    /\ UNCHANGED <<closed, loopFuture, completion, coreClosed>>

\* close() returns at once on a closed harness.
BeginClose(k) ==
    /\ k \in Closers
    /\ AppRuns /\ outcome[k] = "none" /\ ~OnStack(k)
    /\ IF closed
       THEN /\ outcome' = [outcome EXCEPT ![k] = "returned"]
            /\ UNCHANGED <<commands, stack, future>>
       ELSE /\ commands' = Append(commands, Command(k))
            /\ future' = [future EXCEPT ![k] = "pending"]
            /\ stack' = Push("check", k)
            /\ UNCHANGED outcome
    /\ UNCHANGED <<closed, loopFuture, completion, coreClosed>>

\* pump_until submits its coroutine; it does not ask whether the harness is
\* closed.
BeginWait(w) ==
    /\ w \in FutureWaits \cup EventWaits
    /\ AppRuns /\ outcome[w] = "none" /\ ~OnStack(w)
    /\ future' = [future EXCEPT ![w] = "pending"]
    /\ stack' = Push(IF w \in FutureWaits THEN "register" ELSE "check", w)
    /\ UNCHANGED <<closed, commands, loopFuture, outcome, completion,
                   coreClosed>>

\* add_done_callback calls back at once on a future that is done already.
RegisterWake ==
    /\ At({"register"})
    /\ stack' = Move("check")
    /\ commands' = IF future[Last(stack).of] \in Done
                   THEN Append(commands, Wake) ELSE commands
    /\ UNCHANGED <<closed, future, loopFuture, outcome, completion,
                   coreClosed>>

\* The wait of c ends: its frame goes, or, for close(), its finally block.
EndWait(c, frames, result) ==
    /\ outcome' = [outcome EXCEPT ![c] = result]
    /\ stack' = IF c \in Closers
                THEN Append(frames, [at |-> "finally", of |-> c]) ELSE frames

\* The head of the loops of _pump_until and _pump_until_event: what is waited
\* for is done, a wait for an event may be over its deadline, or go on.
CheckDone ==
    /\ At({"check"})
    /\ LET c == Last(stack).of IN
         \/ /\ future[c] \in Done
            /\ EndWait(c, Front(stack),
                 IF future[c] = "value" THEN "returned" ELSE "raised")
         \/ /\ c \in EventWaits
            /\ future[c] = "pending"
            /\ EndWait(c, Front(stack), "returned")
         \/ /\ future[c] \notin Done
            /\ stack' = Move("get")
            /\ UNCHANGED outcome
    /\ UNCHANGED <<closed, commands, future, loopFuture, completion,
                   coreClosed>>

\* A wait for an event gives get() up after 0.05 s.
PollAgain ==
    /\ At({"get"})
    /\ Last(stack).of \in EventWaits
    /\ commands = << >>
    /\ stack' = Move("check")
    /\ UNCHANGED <<closed, commands, future, loopFuture, outcome, completion,
                   coreClosed>>

\* The finally block of close().
SetClosed ==
    /\ At({"finally"})
    /\ closed' = TRUE
    /\ stack' = Front(stack)
    /\ UNCHANGED <<commands, future, loopFuture, outcome, completion,
                   coreClosed>>

-----------------------------------------------------------------------------
(* The items the innermost wait takes from the queue: _process_item.       *)

Takes(kind) == At({"get"}) /\ commands # << >> /\ Head(commands).kind = kind

\* A wake-up is for whoever takes it only a reason to look again.
TakeWake ==
    /\ Takes("wake")
    /\ commands' = Tail(commands)
    /\ stack' = Move("check")
    /\ UNCHANGED <<closed, future, loopFuture, outcome, completion,
                   coreClosed>>

TakeCommand ==
    /\ Takes("command")
    /\ commands' = Tail(commands)
    /\ future' = [future EXCEPT ![Head(commands).of] = "running"]
    /\ stack' = Append(Move("check"), [at |-> "operation",
                                       of |-> Head(commands).of])
    /\ UNCHANGED <<closed, loopFuture, outcome, completion, coreClosed>>

\* The operation raises, returns a value, or hands work to the loop.
\* core.close() clears the core's references first.
FinishOperation ==
    /\ At({"operation"})
    /\ LET c == Last(stack).of IN
         /\ \/ /\ SetFuture(c, "error", commands)
               /\ UNCHANGED loopFuture
            \/ /\ c \notin Closers
               /\ SetFuture(c, "value", commands)
               /\ UNCHANGED loopFuture
            \/ /\ loopFuture' = [loopFuture EXCEPT ![c] = "pending"]
               /\ UNCHANGED <<future, commands>>
         /\ coreClosed' = (coreClosed \/ c \in Closers)
    /\ stack' = Front(stack)
    /\ UNCHANGED <<closed, outcome, completion>>

\* Mutant: a wait drops the continuations of other waits.
TakeContinuationOfOwn ==
    /\ Takes("continuation")
    /\ stack' = Move("check")
    /\ LET c == Head(commands).of IN
         IF c # Last(stack).of
         THEN commands' = Tail(commands) /\ UNCHANGED future
         ELSE SetFuture(c, loopFuture[c], Tail(commands))
    /\ UNCHANGED <<closed, loopFuture, outcome, completion, coreClosed>>

TakeContinuation ==
    /\ Takes("continuation")
    /\ stack' = Move("check")
    /\ LET c == Head(commands).of IN
         IF future[c] \in Done
         THEN commands' = Tail(commands) /\ UNCHANGED future
         ELSE SetFuture(c, loopFuture[c], Tail(commands))
    /\ UNCHANGED <<closed, loopFuture, outcome, completion, coreClosed>>

\* Mutant: close() skips the hook calls it finds in the queue.
TakeHookCallUnlessClosing ==
    /\ Takes("hookCall")
    /\ commands' = Tail(commands)
    /\ IF Last(stack).of \in Closers
       THEN stack' = Move("check")
       ELSE stack' = Append(Move("check"), [at |-> "hook",
                                            of |-> Head(commands).of])
    /\ UNCHANGED <<closed, future, loopFuture, outcome, completion,
                   coreClosed>>

TakeHookCall ==
    /\ Takes("hookCall")
    /\ commands' = Tail(commands)
    /\ stack' = Append(Move("check"), [at |-> "hook", of |-> Head(commands).of])
    /\ UNCHANGED <<closed, future, loopFuture, outcome, completion,
                   coreClosed>>

\* The hook returned or raised and completion.done() was read.
ReturnFromHook ==
    /\ At({"hook"})
    /\ stack' \in IF completion[Last(stack).of] \in Done
                  THEN {Front(stack)}
                  ELSE {Move("set_result"), Move("set_exception")}
    /\ UNCHANGED <<closed, commands, future, loopFuture, outcome, completion,
                   coreClosed>>

SettleHook ==
    /\ At({"set_result", "set_exception"})
    /\ completion[Last(stack).of] \notin Done
    /\ completion' = [completion EXCEPT ![Last(stack).of] =
            IF At({"set_result"}) THEN "value" ELSE "error"]
    /\ stack' = Front(stack)
    /\ UNCHANGED <<closed, commands, future, loopFuture, outcome, coreClosed>>

\* The completion was cancelled since the check: InvalidStateError leaves
\* _process_item and the wait around it, whatever that was waiting for.
InterruptWait ==
    /\ At({"set_result", "set_exception"})
    /\ completion[Last(stack).of] \in Done
    /\ LET frames == Front(stack)
       IN  EndWait(Last(frames).of, Front(frames), "raised")
    /\ UNCHANGED <<closed, commands, future, loopFuture, completion,
                   coreClosed>>

WaitStep ==
    \/ RegisterWake \/ CheckDone \/ PollAgain \/ SetClosed
    \/ TakeWake \/ TakeCommand \/ FinishOperation \/ TakeContinuation
    \/ TakeHookCall \/ ReturnFromHook \/ SettleHook \/ InterruptWait

-----------------------------------------------------------------------------
(* The asyncio loop thread.                                                *)

\* Mutant: on a closed harness the main future is failed without a wake-up.
CompleteLoopFutureSilently(c) ==
    /\ loopFuture[c] = "pending"
    /\ \E r \in {"value", "error"} : loopFuture' = [loopFuture EXCEPT ![c] = r]
    /\ IF ~closed
       THEN commands' = Append(commands, Continuation(c)) /\ UNCHANGED future
       ELSE /\ future' = IF future[c] \in Done THEN future
                         ELSE [future EXCEPT ![c] = "undelivered"]
            /\ UNCHANGED commands
    /\ UNCHANGED <<closed, stack, outcome, completion, coreClosed>>

\* Mutant: the callback fails the main future and drops the continuation.
CompleteLoopFutureDropped(c) ==
    /\ loopFuture[c] = "pending"
    /\ \E r \in {"value", "error"} : loopFuture' = [loopFuture EXCEPT ![c] = r]
    /\ IF future[c] \in Done
       THEN UNCHANGED <<commands, future>>
       ELSE SetFuture(c, "undelivered", commands)
    /\ UNCHANGED <<closed, stack, outcome, completion, coreClosed>>

\* The done-callback of a loop future: queue the continuation, or, on a
\* closed harness, fail the main future at once.
CompleteLoopFuture(c) ==
    /\ loopFuture[c] = "pending"
    /\ \E r \in {"value", "error"} : loopFuture' = [loopFuture EXCEPT ![c] = r]
    /\ IF ~closed
       THEN commands' = Append(commands, Continuation(c)) /\ UNCHANGED future
       ELSE IF future[c] \in Done
            THEN UNCHANGED <<commands, future>>
            ELSE SetFuture(c, "undelivered", commands)
    /\ UNCHANGED <<closed, stack, outcome, completion, coreClosed>>

\* Mutant: a future that is pumped for completes without a wake-up.
CompleteTargetSilently(w) ==
    /\ future[w] = "pending"
    /\ \E r \in {"value"} \cup (IF w \in FutureWaits THEN {"error"} ELSE {}) :
         future' = [future EXCEPT ![w] = r]
    /\ UNCHANGED <<closed, commands, stack, loopFuture, outcome, completion,
                   coreClosed>>

\* What pump_until waits for is done.  Only a future calls back.
CompleteTarget(w) ==
    /\ future[w] = "pending"
    /\ \E r \in {"value"} \cup (IF w \in FutureWaits THEN {"error"} ELSE {}) :
         future' = [future EXCEPT ![w] = r]
    /\ commands' = IF \E i \in DOMAIN stack :
                        /\ stack[i].of = w
                        /\ w \in FutureWaits
                        /\ stack[i].at \in {"check", "get"}
                   THEN Append(commands, Wake) ELSE commands
    /\ UNCHANGED <<closed, stack, loopFuture, outcome, completion, coreClosed>>

\* _dispatch_sync_hook, as in the threaded mode.
DispatchSyncHook(h) ==
    /\ completion[h] = "none"
    /\ IF closed
       THEN /\ completion' = [completion EXCEPT ![h] = "refused"]
            /\ UNCHANGED commands
       ELSE /\ completion' = [completion EXCEPT ![h] = "pending"]
            /\ commands' = Append(commands, HookCall(h))
    /\ UNCHANGED <<closed, stack, future, loopFuture, outcome, coreClosed>>

\* While _close_io runs, the coroutine that awaits the hook is cancelled.
CancelHook(h) ==
    /\ h \in Cancellable
    /\ \E k \in Closers : loopFuture[k] = "pending"
    /\ completion[h] = "pending"
    /\ completion' = [completion EXCEPT ![h] = "cancelled"]
    /\ UNCHANGED <<closed, commands, stack, future, loopFuture, outcome,
                   coreClosed>>

AppStep == \E c \in Calls : BeginCall(c) \/ BeginClose(c) \/ BeginWait(c)

LoopStep ==
    \/ \E c \in Ops \cup Closers : CompleteLoopFuture(c)
    \/ \E w \in FutureWaits \cup EventWaits : CompleteTarget(w)
    \/ \E h \in Hooks : DispatchSyncHook(h) \/ CancelHook(h)

Next == AppStep \/ WaitStep \/ LoopStep

\* The application's thread runs while it is in the harness, and hooks
\* return.  The futures and events an application pumps for are done some
\* day.  The loop future of a close() completes, because _close_io bounds its
\* waits; those of other calls for certain only after core.close(), which
\* fails what is pending.  Nobody has to call anything.
Fairness ==
    /\ WF_vars(WaitStep)
    /\ \A w \in FutureWaits \cup EventWaits : WF_vars(CompleteTarget(w))
    /\ \A c \in Ops \cup Closers :
         WF_vars((coreClosed \/ c \in Closers) /\ CompleteLoopFuture(c))

Spec == Init /\ [][Next]_vars /\ Fairness

-----------------------------------------------------------------------------
(* Properties.                                                             *)

InQueue(x) == \E i \in DOMAIN commands : commands[i] = x

\* A wait was interrupted by the failure of a hook it happened to run.
Interrupted(c) ==
    outcome[c] = "raised" /\ future[c] \in {"pending", "running", "value"}

\* Operations and hooks run inside a wait, and application code only at the
\* top of the stack or in a hook.
StackShape ==
    \A i \in DOMAIN stack :
      /\ stack[i].at \in InHook \cup {"operation"} =>
           i > 1 /\ stack[i-1].at = "check"
      /\ stack[i].at \in Waiting => i = 1 \/ stack[i-1].at = "hook"
      /\ stack[i].at \in {"register", "get", "finally", "set_result",
                          "set_exception", "operation"} => i = Len(stack)

\* No promise is dropped between the nested waits: a call that is pending is
\* in the queue; one that runs is an operation on the stack, at the loop, or
\* back in the queue; a hook that is pending is in the queue or on the stack.
CallTracked(c) ==
    /\ future[c] = "pending" => InQueue(Command(c))
    /\ future[c] = "running" =>
         \/ At({"operation"}) /\ Last(stack).of = c
         \/ loopFuture[c] = "pending"
         \/ InQueue(Continuation(c))

HookTracked(h) ==
    completion[h] = "pending" => InQueue(HookCall(h)) \/ HookOnStack(h)

FuturesTracked ==
    /\ \A c \in Ops \cup Closers : CallTracked(c)
    /\ \A h \in Hooks : HookTracked(h)

\* And only there: an item is in the queue once, and tells how far the call or
\* hook is.
QueuedOnce ==
    \A i, j \in DOMAIN commands :
      commands[i] = commands[j] => i = j \/ commands[i] = Wake

ItemsMatch ==
    /\ QueuedOnce
    /\ \A c \in Ops \cup Closers :
         /\ InQueue(Command(c)) => future[c] = "pending"
         /\ InQueue(Continuation(c)) =>
              future[c] = "running" /\ loopFuture[c] \in {"value", "error"}
         /\ loopFuture[c] = "pending" => future[c] = "running"
         /\ future[c] \in {"none", "pending"} => loopFuture[c] = "none"
    /\ \A h \in Hooks : InQueue(HookCall(h)) => completion[h] # "none"

\* So do the frames.
FrameMatches(f) ==
    /\ f.at \in Waiting => future[f.of] # "none"
    /\ f.at = "finally" => outcome[f.of] # "none"
    /\ f.at = "operation" => future[f.of] = "running" /\ loopFuture[f.of] = "none"
    /\ f.at \in InHook => completion[f.of] # "none"

FramesMatch == \A i \in DOMAIN stack : FrameMatches(stack[i])

\* A call that was accepted stays on the stack until it has its outcome.
CallsOnce ==
    \A c \in Calls : future[c] # "none" => OnStack(c) \/ outcome[c] # "none"

\* The type invariant, the shape of the stack, and where in the system the
\* promise to settle each future is kept (agent.py:487-538).
PumpInv ==
    TypeOK /\ StackShape /\ FuturesTracked /\ ItemsMatch /\ FramesMatch /\ CallsOnce

\* No wake-up is lost: if the innermost wait blocks on an empty queue, what
\* it waits for is not done.  The check of done() and the get() are two
\* steps, and nested waits take each other's wake-ups (agent.py:500-510).
NoLostWakeup ==
    At({"get"}) /\ commands = << >> /\ Last(stack).of \notin EventWaits =>
      future[Last(stack).of] \notin Done

-----------------------------------------------------------------------------
(* What the mode promises its callers: HarnessService, except that a hook  *)
(* nobody pumps for may stay unanswered.                                   *)

CallState(c) ==
    CASE future[c] \in {"pending", "running"} -> "accepted"
      [] future[c] \in Done -> future[c]
      [] OTHER -> IF outcome[c] = "raised" THEN "refused" ELSE "new"

HookState(h) ==
    CASE completion[h] = "none" -> "new"
      [] completion[h] = "pending" -> "accepted"
      [] OTHER -> completion[h]

Requests == Ops \cup Closers \cup Hooks

RequestState ==
    [r \in Requests |-> IF r \in Hooks THEN HookState(r) ELSE CallState(r)]

Service == INSTANCE HarnessService WITH open <- ~closed, state <- RequestState

\* Without an owner thread the harness still accepts nothing once _closed is
\* set, drops no result before, and answers each accepted call or hook at
\* most once.
ImplementsServiceSafely == Service!SSafety

(* Liveness.                                                               *)

\* After core.close() every call ends, however deep it is nested and whoever
\* takes the items it waits for (agent.py:405-413, 487-510).
CallsEndAfterClose ==
    \A c \in Calls : OnStack(c) /\ coreClosed ~> ~OnStack(c)

\* close() runs the hooks that are waiting while it waits for pi and the
\* bridge to be shut down, so the coroutines behind them can end
\* (agent.py:405-413, 764-772); an interrupted close() need not.
CloseRunsHooks ==
    \A h \in Hooks :
      completion[h] = "pending" /\ (\E k \in Closers : loopFuture[k] = "pending")
      ~> completion[h] \in Done \/ \E k \in Closers : Interrupted(k)
=============================================================================
