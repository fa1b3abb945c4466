---------------------------- MODULE HarnessQueue ----------------------------
(***************************************************************************)
(* The owner-thread command queue of PiAgentHarness (pi/agent.py) together *)
(* with the sync-hook dispatch of Agent (pi/agent_class.py), in the        *)
(* threaded=True mode.                                                     *)
(*                                                                         *)
(* Four kinds of thread meet here:                                         *)
(*   - application threads, each making one public call: a Caller runs an  *)
(*     operation on the owner thread, a Closer runs close();               *)
(*   - the owner thread, the only consumer of the queue;                   *)
(*   - the asyncio loop thread, which completes the loop futures returned  *)
(*     by operations and runs the coroutines that dispatch sync hooks;     *)
(*   - clients that run ON the loop thread (LoopCallers): a blocking       *)
(*     public call made by an async hook.                                  *)
(*                                                                         *)
(* A region under _close_lock is one action.  A read of _closed outside    *)
(* the lock is an action of its own, as are the check and the use of a     *)
(* hook's completion future, which the code does not make atomic.          *)
(***************************************************************************)
EXTENDS Naturals, Sequences

CONSTANTS
    Callers,      \* threads that make one public call other than close()
    Closers,      \* threads that call close()
    Submitters,   \* callers that use submit() and may cancel its future
    LoopCallers,  \* clients whose thread is the asyncio loop thread
    Hooks,        \* sync hook dispatches (one _HookCall each)
    Cancellable,  \* hooks whose awaiting coroutine close() cancels
    ClosingHooks  \* hooks whose function calls close() on the harness

Clients == Callers \cup Closers

ASSUME ClientsAssumption ==
    /\ Callers \cap Closers = {}
    /\ Submitters \subseteq Callers
    /\ LoopCallers \subseteq Clients \ Submitters

ASSUME HooksAssumption ==
    /\ Cancellable \subseteq Hooks
    /\ ClosingHooks \subseteq Hooks

VARIABLES
    closed,       \* PiAgentHarness._closed
    commands,     \* PiAgentHarness._commands, the FIFO of items
    ownerAt,      \* where the owner thread is
    ownerItem,    \* the item the owner thread is processing
    pc,           \* where each client is in its call
    outcome,      \* what each client's call ended with
    mainFuture,   \* the future submit() made for each client
    loopFuture,   \* the loop future each client's operation returned
    completion,   \* _HookCall.completion of each hook
    coreClosed    \* core.close() has run on the owner thread

vars == <<closed, commands, ownerAt, ownerItem, pc, outcome, mainFuture,
          loopFuture, completion, coreClosed>>

-----------------------------------------------------------------------------
(* The items of the queue: (operation, main_future) tuples, _Continuation, *)
(* _HookCall and the _STOP sentinel.                                       *)

Command(c)      == [kind |-> "command",      of |-> c]
Continuation(c) == [kind |-> "continuation", of |-> c]
HookCall(h)     == [kind |-> "hookCall",     of |-> h]
Stop            == [kind |-> "stop",         of |-> "_STOP"]

Items == {Command(c) : c \in Clients} \cup {Continuation(c) : c \in Clients}
         \cup {HookCall(h) : h \in Hooks} \cup {Stop}

\* The ways a future is done.  "undelivered" and "refused" are the
\* RuntimeErrors of agent.py:577-583 and agent_class.py:221-226.
Done == {"value", "error", "cancelled", "undelivered", "refused"}

\* A client that runs on the loop thread is in a blocking call: no coroutine
\* of the loop makes progress until the call returns.
LoopBlocked == \E c \in LoopCallers : pc[c] \notin {"idle", "done"}

TypeOK ==
    /\ closed \in BOOLEAN
    /\ coreClosed \in BOOLEAN
    /\ commands \in Seq(Items)
    /\ ownerAt \in {"none", "idle", "operation", "hook", "hookClose",
                    "set_result", "set_exception", "exited", "died"}
    /\ ownerItem \in Items
    /\ pc \in [Clients -> {"idle", "check", "submit", "wait", "finally",
                           "join", "done"}]
    /\ outcome \in [Clients -> {"none", "returned", "raised"}]
    /\ mainFuture \in [Clients -> {"none", "pending", "running"} \cup Done]
    /\ loopFuture \in [Clients -> {"none", "pending", "value", "error"}]
    /\ completion \in [Hooks -> {"none", "pending"} \cup Done]

Init ==
    /\ closed = FALSE
    /\ commands = << >>
    /\ ownerAt = "none"
    /\ ownerItem = Stop
    /\ pc = [c \in Clients |-> "idle"]
    /\ outcome = [c \in Clients |-> "none"]
    /\ mainFuture = [c \in Clients |-> "none"]
    /\ loopFuture = [c \in Clients |-> "none"]
    /\ completion = [h \in Hooks |-> "none"]
    /\ coreClosed = FALSE

-----------------------------------------------------------------------------
(* Clients.                                                                *)

\* A client on the loop thread starts its call only when the loop is free to
\* run the coroutine it is in.
CanBegin(c) == pc[c] = "idle" /\ (c \in LoopCallers => ~LoopBlocked)

\* The call of c raises.  For close() the exception first passes through the
\* finally block of agent.py:248-255.
Raise(c) ==
    /\ outcome' = [outcome EXCEPT ![c] = "raised"]
    /\ pc' = [pc EXCEPT ![c] = IF c \in Closers THEN "finally" ELSE "done"]

\* A public call enters _call; submit() is entered without its check.
BeginCall(c) ==
    /\ c \in Callers
    /\ CanBegin(c)
    /\ pc' = [pc EXCEPT ![c] = IF c \in Submitters THEN "submit" ELSE "check"]
    /\ UNCHANGED <<closed, commands, ownerAt, ownerItem, outcome, mainFuture,
                   loopFuture, completion, coreClosed>>

\* Mutant: close() marks the harness closed before it runs core.close().
BeginCloseMarksFirst(k) ==
    /\ k \in Closers
    /\ CanBegin(k)
    /\ closed' = TRUE
    /\ pc' = [pc EXCEPT ![k] = "check"]
    /\ UNCHANGED <<commands, ownerAt, ownerItem, outcome, mainFuture,
                   loopFuture, completion, coreClosed>>

\* close() returns at once on a closed harness (a read outside the lock).
BeginClose(k) ==
    /\ k \in Closers
    /\ CanBegin(k)
    /\ IF closed
       THEN /\ pc' = [pc EXCEPT ![k] = "done"]
            /\ outcome' = [outcome EXCEPT ![k] = "returned"]
       ELSE /\ pc' = [pc EXCEPT ![k] = "check"]
            /\ UNCHANGED outcome
    /\ UNCHANGED <<closed, commands, ownerAt, ownerItem, mainFuture,
                   loopFuture, completion, coreClosed>>

\* The unlocked check of _closed at the head of _call.
CheckClosed(c) ==
    /\ pc[c] = "check"
    /\ IF closed
       THEN Raise(c)
       ELSE /\ pc' = [pc EXCEPT ![c] = "submit"]
            /\ UNCHANGED outcome
    /\ UNCHANGED <<closed, commands, ownerAt, ownerItem, mainFuture,
                   loopFuture, completion, coreClosed>>

\* start_owner_thread: at most one owner thread is ever started, and the call
\* returns once the thread has built the core and entered its loop.
StartOwnerThread(c) ==
    /\ pc[c] = "submit"
    /\ ownerAt = "none"
    /\ ownerAt' = "idle"
    /\ UNCHANGED <<closed, commands, ownerItem, pc, outcome, mainFuture,
                   loopFuture, completion, coreClosed>>

\* Mutant: submit() puts without looking at _closed under the lock.
SubmitUnchecked(c) ==
    /\ pc[c] = "submit"
    /\ ownerAt # "none"
    /\ commands' = Append(commands, Command(c))
    /\ mainFuture' = [mainFuture EXCEPT ![c] = "pending"]
    /\ pc' = [pc EXCEPT ![c] = "wait"]
    /\ UNCHANGED <<closed, ownerAt, ownerItem, outcome, loopFuture, completion,
                   coreClosed>>

\* The locked check-and-put of submit().
Submit(c) ==
    /\ pc[c] = "submit"
    /\ ownerAt # "none"
    /\ IF closed
       THEN /\ Raise(c)
            /\ UNCHANGED <<commands, mainFuture>>
       ELSE /\ commands' = Append(commands, Command(c))
            /\ mainFuture' = [mainFuture EXCEPT ![c] = "pending"]
            /\ pc' = [pc EXCEPT ![c] = "wait"]
            /\ UNCHANGED outcome
    /\ UNCHANGED <<closed, ownerAt, ownerItem, loopFuture, completion,
                   coreClosed>>

\* A user of submit() cancels the future; it takes effect until the owner
\* thread marks the future running.
CancelFuture(c) ==
    /\ c \in Submitters
    /\ pc[c] = "wait"
    /\ mainFuture[c] = "pending"
    /\ mainFuture' = [mainFuture EXCEPT ![c] = "cancelled"]
    /\ UNCHANGED <<closed, commands, ownerAt, ownerItem, pc, outcome,
                   loopFuture, completion, coreClosed>>

\* .result() returns or raises once the future is done.
AwaitResult(c) ==
    /\ pc[c] = "wait"
    /\ mainFuture[c] \in Done
    /\ IF mainFuture[c] = "value"
       THEN /\ outcome' = [outcome EXCEPT ![c] = "returned"]
            /\ pc' = [pc EXCEPT ![c] =
                        IF c \in Closers THEN "finally" ELSE "done"]
       ELSE Raise(c)
    /\ UNCHANGED <<closed, commands, ownerAt, ownerItem, mainFuture,
                   loopFuture, completion, coreClosed>>

\* The finally block of close(): _closed and _STOP, in one locked region.
SetClosedAndStop(k) ==
    /\ pc[k] = "finally"
    /\ closed' = TRUE
    /\ commands' = Append(commands, Stop)
    /\ pc' = [pc EXCEPT ![k] = "join"]
    /\ UNCHANGED <<ownerAt, ownerItem, outcome, mainFuture, loopFuture,
                   completion, coreClosed>>

\* join(timeout=5) returns when the owner thread has ended or after five
\* seconds, whatever the owner thread is doing then.
JoinOwner(k) ==
    /\ pc[k] = "join"
    /\ pc' = [pc EXCEPT ![k] = "done"]
    /\ UNCHANGED <<closed, commands, ownerAt, ownerItem, outcome, mainFuture,
                   loopFuture, completion, coreClosed>>

ClientStep(c) ==
    \/ BeginCall(c) \/ BeginClose(c) \/ CheckClosed(c) \/ StartOwnerThread(c)
    \/ Submit(c) \/ AwaitResult(c) \/ SetClosedAndStop(c) \/ JoinOwner(c)

-----------------------------------------------------------------------------
(* The owner thread: _owner_loop and _process_item.                        *)

\* commands.get() returned an item of this kind.
Takes(kind) ==
    /\ ownerAt = "idle"
    /\ commands # << >>
    /\ Head(commands).kind = kind
    /\ commands' = Tail(commands)

TakeStop ==
    /\ Takes("stop")
    /\ ownerAt' = "exited"
    /\ UNCHANGED <<closed, ownerItem, pc, outcome, mainFuture, loopFuture,
                   completion, coreClosed>>

\* set_running_or_notify_cancel skips a cancelled future.
TakeCommand ==
    /\ Takes("command")
    /\ LET c == Head(commands).of IN
         IF mainFuture[c] = "cancelled"
         THEN UNCHANGED <<ownerAt, ownerItem, mainFuture>>
         ELSE /\ mainFuture' = [mainFuture EXCEPT ![c] = "running"]
              /\ ownerAt' = "operation"
              /\ ownerItem' = Head(commands)
    /\ UNCHANGED <<closed, pc, outcome, loopFuture, completion, coreClosed>>

\* The operation raises, returns a value, or hands work to the loop and
\* returns its future, on which _register_continuation puts the callback.
\* core.close() clears the core's references before it reaches the loop and
\* never returns a plain value.
FinishOperation ==
    /\ ownerAt = "operation"
    /\ ownerAt' = "idle"
    /\ LET c == ownerItem.of IN
         /\ \/ /\ mainFuture' = [mainFuture EXCEPT ![c] = "error"]
               /\ UNCHANGED loopFuture
            \/ /\ c \notin Closers
               /\ mainFuture' = [mainFuture EXCEPT ![c] = "value"]
               /\ UNCHANGED loopFuture
            \/ /\ loopFuture' = [loopFuture EXCEPT ![c] = "pending"]
               /\ UNCHANGED mainFuture
         /\ coreClosed' = (coreClosed \/ c \in Closers)
    /\ UNCHANGED <<closed, commands, ownerItem, pc, outcome, completion>>

\* _handle_continuation: a main future that is already done keeps its result.
TakeContinuation ==
    /\ Takes("continuation")
    /\ LET c == Head(commands).of IN
         mainFuture' = IF mainFuture[c] \in Done THEN mainFuture
                       ELSE [mainFuture EXCEPT ![c] = loopFuture[c]]
    /\ UNCHANGED <<closed, ownerAt, ownerItem, pc, outcome, loopFuture,
                   completion, coreClosed>>

TakeHookCall ==
    /\ Takes("hookCall")
    /\ ownerAt' = "hook"
    /\ ownerItem' = Head(commands)
    /\ UNCHANGED <<closed, pc, outcome, mainFuture, loopFuture, completion,
                   coreClosed>>

\* A hook calls close() on its own harness: past the check of _closed,
\* submit() raises the re-entry error, and the finally block still runs.
HookBeginsClose ==
    /\ ownerAt = "hook"
    /\ ownerItem.of \in ClosingHooks
    /\ ~closed
    /\ ownerAt' = "hookClose"
    /\ UNCHANGED <<closed, commands, ownerItem, pc, outcome, mainFuture,
                   loopFuture, completion, coreClosed>>

HookEndsClose ==
    /\ ownerAt = "hookClose"
    /\ closed' = TRUE
    /\ commands' = Append(commands, Stop)
    /\ ownerAt' = "hook"
    /\ UNCHANGED <<ownerItem, pc, outcome, mainFuture, loopFuture, completion,
                   coreClosed>>

\* The hook function returned or raised and completion.done() was read: a
\* completion that is done already is left alone.
ReturnFromHook ==
    /\ ownerAt = "hook"
    /\ IF completion[ownerItem.of] \in Done
       THEN ownerAt' = "idle"
       ELSE ownerAt' \in {"set_result", "set_exception"}
    /\ UNCHANGED <<closed, commands, ownerItem, pc, outcome, mainFuture,
                   loopFuture, completion, coreClosed>>

\* completion.set_result / set_exception.  On a future that was cancelled
\* since the check it raises InvalidStateError, which nothing between here
\* and _owner_loop catches.
SettleHook ==
    /\ ownerAt \in {"set_result", "set_exception"}
    /\ LET h == ownerItem.of IN
         IF completion[h] \in Done
         THEN /\ ownerAt' = "died"
              /\ UNCHANGED completion
         ELSE /\ ownerAt' = "idle"
              /\ completion' = [completion EXCEPT ![h] =
                    IF ownerAt = "set_result" THEN "value" ELSE "error"]
    /\ UNCHANGED <<closed, commands, ownerItem, pc, outcome, mainFuture,
                   loopFuture, coreClosed>>

OwnerStep ==
    \/ TakeStop \/ TakeCommand \/ FinishOperation \/ TakeContinuation
    \/ TakeHookCall \/ HookBeginsClose \/ HookEndsClose \/ ReturnFromHook
    \/ SettleHook

-----------------------------------------------------------------------------
(* The asyncio loop thread.                                                *)

\* Mutant: the callback queues its continuation without looking at _closed.
CompleteLoopFutureUnchecked(c) ==
    /\ ~LoopBlocked
    /\ loopFuture[c] = "pending"
    /\ \E r \in {"value", "error"} : loopFuture' = [loopFuture EXCEPT ![c] = r]
    /\ commands' = Append(commands, Continuation(c))
    /\ UNCHANGED <<closed, ownerAt, ownerItem, pc, outcome, mainFuture,
                   completion, coreClosed>>

\* Mutant: on a closed harness the callback returns and fails nothing.
CompleteLoopFutureDropped(c) ==
    /\ ~LoopBlocked
    /\ loopFuture[c] = "pending"
    /\ \E r \in {"value", "error"} : loopFuture' = [loopFuture EXCEPT ![c] = r]
    /\ commands' = IF closed THEN commands ELSE Append(commands, Continuation(c))
    /\ UNCHANGED <<closed, ownerAt, ownerItem, pc, outcome, mainFuture,
                   completion, coreClosed>>

\* A loop future completes and its done-callback runs: the continuation is
\* queued, or, on a closed harness, the main future is failed at once.
CompleteLoopFuture(c) ==
    /\ ~LoopBlocked
    /\ loopFuture[c] = "pending"
    /\ \E r \in {"value", "error"} : loopFuture' = [loopFuture EXCEPT ![c] = r]
    /\ IF closed
       THEN /\ mainFuture' = IF mainFuture[c] \in Done THEN mainFuture
                             ELSE [mainFuture EXCEPT ![c] = "undelivered"]
            /\ UNCHANGED commands
       ELSE /\ commands' = Append(commands, Continuation(c))
            /\ UNCHANGED mainFuture
    /\ UNCHANGED <<closed, ownerAt, ownerItem, pc, outcome, completion,
                   coreClosed>>

\* Mutant: a hook call is queued without looking at _closed.
DispatchSyncHookUnchecked(h) ==
    /\ ~LoopBlocked
    /\ ownerAt # "none"
    /\ completion[h] = "none"
    /\ completion' = [completion EXCEPT ![h] = "pending"]
    /\ commands' = Append(commands, HookCall(h))
    /\ UNCHANGED <<closed, ownerAt, ownerItem, pc, outcome, mainFuture,
                   loopFuture, coreClosed>>

\* _dispatch_sync_hook: the locked check-and-put of a _HookCall.  Events come
\* from pi or the bridge, which an operation on the owner thread started.
DispatchSyncHook(h) ==
    /\ ~LoopBlocked
    /\ ownerAt # "none"
    /\ completion[h] = "none"
    /\ IF closed
       THEN /\ completion' = [completion EXCEPT ![h] = "refused"]
            /\ UNCHANGED commands
       ELSE /\ completion' = [completion EXCEPT ![h] = "pending"]
            /\ commands' = Append(commands, HookCall(h))
    /\ UNCHANGED <<closed, ownerAt, ownerItem, pc, outcome, mainFuture,
                   loopFuture, coreClosed>>

\* While _close_io runs, the coroutine that awaits the hook is cancelled (the
\* stdout reader by PiRpcClient.close, a bridge connection by
\* PythonToolServer.close) and wrap_future cancels the completion with it.
CancelHook(h) ==
    /\ ~LoopBlocked
    /\ h \in Cancellable
    /\ \E k \in Closers : loopFuture[k] = "pending"
    /\ completion[h] = "pending"
    /\ completion' = [completion EXCEPT ![h] = "cancelled"]
    /\ UNCHANGED <<closed, commands, ownerAt, ownerItem, pc, outcome,
                   mainFuture, loopFuture, coreClosed>>

LoopStep ==
    \/ \E c \in Clients : CompleteLoopFuture(c)
    \/ \E h \in Hooks : DispatchSyncHook(h) \/ CancelHook(h)

-----------------------------------------------------------------------------
Next ==
    \/ \E c \in Clients : ClientStep(c) \/ CancelFuture(c)
    \/ OwnerStep
    \/ LoopStep

\* Every thread is scheduled.  _close_io cancels each of its waits after
\* ten seconds, so the loop future of a close() completes, unless async code of
\* the application handles every cancellation and runs on; the others complete
\* for certain only once core.close() has run, because PiRpcClient.close
\* fails what is still pending.  Whether a client makes its call, cancels
\* its future, or the loop dispatches a hook is not promised.
Fairness ==
    /\ WF_vars(OwnerStep)
    /\ \A c \in Clients :
         WF_vars(pc[c] # "idle" /\ ClientStep(c))
    /\ \A c \in Clients :
         WF_vars((coreClosed \/ c \in Closers) /\ CompleteLoopFuture(c))

Spec == Init /\ [][Next]_vars /\ Fairness

-----------------------------------------------------------------------------
(* Safety.                                                                 *)

\* F9 and C1: nothing is ever queued behind _STOP except another _STOP, and
\* _STOP is in the queue only when the harness is closed (agent.py:250,
\* 363-370, 567-574).
NothingBehindStop ==
    /\ \A i \in 1..Len(commands) : commands[i] = Stop => closed
    /\ \A i, j \in 1..Len(commands) :
          i < j /\ commands[i] = Stop => commands[j] = Stop

\* When the owner thread has taken _STOP, no future depends on the queue any
\* more: no call is waiting to be taken, a call that was started is waiting
\* for a loop future whose callback will fail it, and no hook is waiting.
NothingStranded ==
    ownerAt = "exited" =>
      /\ \A c \in Clients :
           /\ mainFuture[c] # "pending"
           /\ mainFuture[c] = "running" => loopFuture[c] = "pending"
      /\ \A h \in Hooks : completion[h] # "pending"

\* The harness is marked closed only after the owner thread has run core.close(),
\* whoever calls close(), in whatever order and however often its future is
\* cancelled (agent.py:243-255).  It does not say how that core.close() ended,
\* nor that no start() was run between it and the mark.
ClosedAfterCoreClose == closed => coreClosed

-----------------------------------------------------------------------------
(* The inductive invariant behind the safety properties: it says where in  *)
(* the system the promise to settle each future is kept.                   *)

InQueue(x) == \E i \in 1..Len(commands) : commands[i] = x

Unique(q, x) == \A i, j \in 1..Len(q) : q[i] = x /\ q[j] = x => i = j

InHook == ownerAt \in {"hook", "hookClose", "set_result", "set_exception"}

\* The owner thread works on an item of the kind its place in the code tells.
OwnerItemMatches ==
    /\ ownerAt = "operation" =>
         \E c \in Clients : /\ ownerItem = Command(c)
                            /\ mainFuture[c] = "running"
                            /\ loopFuture[c] = "none"
    /\ InHook => \E h \in Hooks : ownerItem = HookCall(h)

\* A call that is waiting is in the queue; one that was started is at the
\* owner thread, at the loop, or back in the queue; a hook that is waiting is
\* in the queue or at the owner thread.
FuturesTracked ==
    /\ \A c \in Clients :
         /\ mainFuture[c] = "pending" => InQueue(Command(c))
         /\ mainFuture[c] = "running" =>
              \/ ownerAt = "operation" /\ ownerItem = Command(c)
              \/ loopFuture[c] = "pending"
              \/ InQueue(Continuation(c))
    /\ \A h \in Hooks :
         completion[h] = "pending" =>
           InQueue(HookCall(h)) \/ (InHook /\ ownerItem = HookCall(h))

\* Conversely, what the queue and the loop hold is of a call in that phase.
ItemsTracked ==
    \A c \in Clients :
      /\ pc[c] \in {"idle", "check", "submit"} =>
           mainFuture[c] = "none" /\ loopFuture[c] = "none"
      /\ InQueue(Command(c)) =>
           mainFuture[c] \in {"pending", "cancelled"} /\ loopFuture[c] = "none"
      /\ InQueue(Continuation(c)) => loopFuture[c] \in {"value", "error"}
      /\ loopFuture[c] = "pending" => mainFuture[c] = "running"
      /\ Unique(commands, Command(c))

\* The owner thread exits only on a closed harness with nothing left to take.
ExitIsFinal ==
    ownerAt = "exited" => closed /\ \A x \in Items : InQueue(x) => x = Stop

QueueInv ==
    /\ NothingBehindStop
    /\ OwnerItemMatches
    /\ FuturesTracked
    /\ ItemsTracked
    /\ ExitIsFinal

\* A call has no outcome before it has met the queue, and what was handed to
\* the loop or to the owner thread was accepted first.
AcceptedFirst ==
    /\ \A c \in Clients :
         /\ pc[c] \in {"idle", "check", "submit"} => outcome[c] = "none"
         /\ loopFuture[c] # "none" => mainFuture[c] # "none"
    /\ \A h \in Hooks :
         InQueue(HookCall(h)) \/ (InHook /\ ownerItem = HookCall(h)) =>
           completion[h] # "none"

\* The inductive invariant: every future that waits is in the hands of the
\* queue, the owner thread or the loop (agent.py:540-625), and of its type.
SafetyInv == TypeOK /\ QueueInv /\ AcceptedFirst

\* Without hooks that call close(): no call of close() gets to its finally
\* block before core.close() has run.
CoreCloseInv ==
    /\ ClosedAfterCoreClose
    /\ ownerAt # "hookClose"
    /\ \A c \in Clients : pc[c] \in {"finally", "join"} => c \in Closers
    /\ \A k \in Closers :
         (\/ loopFuture[k] # "none"
          \/ mainFuture[k] \in Done
          \/ pc[k] \in {"finally", "join"}) => coreClosed

-----------------------------------------------------------------------------
(* What the queue promises to those who use it.                            *)

\* A call is refused when it raised before submit() made its future.
CallState(c) ==
    CASE mainFuture[c] \in {"pending", "running"} -> "accepted"
      [] mainFuture[c] \in Done -> mainFuture[c]
      [] OTHER -> IF outcome[c] = "raised" THEN "refused" ELSE "new"

HookState(h) ==
    CASE completion[h] = "none" -> "new"
      [] completion[h] = "pending" -> "accepted"
      [] OTHER -> completion[h]

RequestState == [r \in Clients \cup Hooks |->
                   IF r \in Clients THEN CallState(r) ELSE HookState(r)]

Service == INSTANCE HarnessService WITH
    Requests <- Clients \cup Hooks,
    open <- ~closed,
    state <- RequestState

\* The queue implements the service: nothing is accepted once _closed is set,
\* no result is dropped before, each accepted call or hook gets one answer.
ImplementsServiceSafely == Service!SSafety

\* ... and once the harness is closed each of them does get its answer.
ImplementsService == Service!SSpec

(* Liveness.                                                               *)

\* Once a thread is inside close(), every call that waits for a result ends,
\* that of close() included.
CloseUnblocksEveryone ==
    \A k \in Closers, c \in Clients :
      (pc[k] # "idle" /\ pc[c] = "wait") ~> pc[c] = "done"

\* Every sync hook the loop dispatched is completed, so the coroutine that
\* awaits it (the stdout reader, a bridge connection) goes on.
HooksComplete ==
    \A h \in Hooks : completion[h] = "pending" ~> completion[h] \in Done
=============================================================================
