# Verification of libharness

libharness runs the coding agent *pi* as a child process and lets Python own
it: Python starts and stops pi, talks to it over JSONL on its stdin and stdout,
and serves tools and hooks to a small TypeScript shim that runs inside pi.  A
synchronous public API, an asyncio loop on a thread of its own, a thread pool
and a second process meet in about two thousand lines.  This directory models
the parts where they meet, checks them with TLC and proves their safety with TLAPS.

Paths below are relative to `src/src/libharness/`.

## The system

| Part | State | Operations | Talks to |
|---|---|---|---|
| `PiAgentHarness` (`pi/agent.py`) | `_closed`, the queue `_commands`, the owner thread | public calls (`_call`, `submit`), `close` | queues commands for the owner thread, which runs them on the core |
| `Agent` (`pi/agent_class.py`) | its event subscription | dispatch of notification and decision hooks, `start`, `close` | queues `_HookCall`s for the owner thread from the loop |
| `_PiAgentHarnessCore` (`pi/agent.py`) | `pi`, `server`, `endpoint`, `_tempdir` | `start`, `close`, `snapshot`, `call_rpc` | hands coroutines to the runtime; owner thread only, but `start` writes from the loop |
| `HarnessRuntime`, `AsyncioLoopThread` (`pi/runtime.py`) | the loop, its thread, `_ready`, `_closed`, a thread pool | `start`, `submit_async`, `close` | shared by all harnesses of a process |
| `PiRpcClient` (`pi/rpc.py`) | `process`, `_pending`, `_events`, reader task | `start`, `send`, `next_event`, `close` | pi, over stdin and stdout |
| `PythonToolServer` (`pi/server.py`) | listening socket, tasks | one request per connection: `execute`, `event`, `notify_event` | tools (loop or thread pool), hooks |
| shim (`pi/shim.py`) | the promise of each call | `bridgeCall`, `bridgeNotify` | the server, over loopback TCP |
| `PiPythonHarness` (`pi/harness.py`) | as the core | async `start`, `close` | as the core, on one loop |
| `ToolRegistry` (`pi/tools.py`), decoder (`pi/jsonl.py`), installer (`_pi_vendor.py`), `pi/cli.py` | tools; a byte buffer; files; none | `register`, `freeze`; `feed`; `fetch_and_extract` | sequential code |

What is hard to test here:

* *Threads at `close()`*: a call, a continuation of the loop or a hook may
  arrive while the harness closes.  Whatever is queued behind `_STOP` is lost
  and its waiter hangs; the code guards this with `_close_lock` (its notes F9
  and C1).
* *Futures shared between threads*: a waiter may cancel a future between the
  check and the use of it on another thread.
* *Bring-up of the loop thread*, where `_loop`, `_thread` and `is_running()`
  change at different times, and its drain.
* *Late answers*: a request that timed out, a client that was restarted, a
  reader task that outlives its process.
* *Three parties per bridge call*: pi may give the call up, the server may be
  closed, and a tool or hook runs on another thread and cannot be stopped.
* *Lifecycle*: `start()` fails half way, or overlaps with `close()`.

What makes each component correct:

* queue: nothing behind `_STOP`, `close()` unblocks everyone, the harness is not
  marked closed before the owner thread has run the core's `close()`;
* loop thread: `_loop` is the loop of `_thread`, calls return, work finishes, the tasks
  there are when the loop stops settle before it closes, nothing starts after `stop()`;
* RPC client: an answer reaches its own request, no request waits on a closed
  client, no pi process is lost;
* bridge: at most one response to an event, no success that did not happen, hooks and
  tools learn of a disconnect, `close()` ends every task that does not handle its cancellation;
* lifecycle: what runs is owned by the core, pi never runs without its bridge,
  `close()` leaves nothing;
* pump: the same promise without an owner thread, and no wake-up lost between
  waits that are nested in each other;
* events: while the reader lives, what pi writes reaches every handler once and in
  order; no wait is forgotten by `close()`;
* hooks: one at a time and in the order of the events, observation before decision,
  before a prompt that began after `start()` returns; each event ends, whatever `close()` does;
* registry: pi and the server agree on the tools for good.

## Modules

| Module | Models | Used by |
|---|---|---|
| `HarnessService` | the promise of the queue: open, shut, each accepted request gets exactly one answer | refined by `HarnessQueue` and, for safety, by `HarnessPump` |
| `HarnessQueue` | `threaded=True`: command queue, owner thread, continuations, sync hooks, `close()` | `MCHarnessQueue` |
| `HarnessPump` | `threaded=False`: nested waits of one thread that take the queue themselves | `MCHarnessPump` |
| `AgentHooks` | the subscription of an `Agent`, its hooks on the loop and on the owner thread | `MCAgentHooks` |
| `LoopThread` | loop thread and runtime | `MCLoopThread` |
| `RpcClient` | RPC client: processes, requests, `start()` and `close()`, with pi as its environment | `MCRpcClient` |
| `JsonlDecoder` | `feed()` of the decoder, as operators | `RpcEvents` |
| `RpcEvents` | RPC client: the way of an event from the bytes of pi to handlers, waits and dialogs | `MCRpcEvents` |
| `Bridge` | shim and tool server, with pi, tools and hooks as their environment | `MCBridge` |
| `ToolRegistry` | `register()`, `freeze()` | instantiated by `HarnessLifecycle` |
| `HarnessLifecycle` | the core's `start`, `close`, `snapshot`, with the registry and the manifest | `MCHarnessLifecycle` |

`HarnessQueueProofs`, `HarnessPumpProofs`, `AgentHooksProofs`, `LoopThreadProofs`,
`RpcClientProofs`, `RpcEventsProofs`, `BridgeProofs` and `HarnessLifecycleProofs` hold the
theorems about the module each is named after; `RpcEventsProofs` those about `JsonlDecoder` too.

How they fit: `HarnessQueue` and `HarnessPump` carry operations and hooks without
a look at what these do; `HarnessLifecycle` is what the operations `start`, `close` and
`snapshot` do, `AgentHooks` what hooks are called for and in which order, on top of the
queue.  `RpcClient` and `RpcEvents` share the code of one class: the first has requests,
restarts and late answers and takes an event as a whole, the second has one
process and follows its bytes.

Definitions after a comment `Mutant:` are plausible bugs of the
code; they are not part of any specification and show that the properties can
fail.

### HarnessQueue

Application threads (`Callers`, `Closers`), the owner thread and the loop.  A
region under `_close_lock` is one action; a read of `_closed` outside the lock
is one of its own (`CheckClosed`), and so are the check and the use of a hook's
completion future (`ReturnFromHook`, `SettleHook`), because the code does not
make them atomic.

| Code | Definition |
|---|---|
| `_call`, `submit` | `BeginCall`, `CheckClosed`, `StartOwnerThread`, `Submit`, `AwaitResult`, `CancelFuture` |
| `close` | `BeginClose`, then as a call, `SetClosedAndStop`, `JoinOwner` |
| `_owner_loop`, `_process_item` | `TakeCommand`, `FinishOperation`, `TakeContinuation`, `TakeHookCall`, `TakeStop` |
| `_register_continuation` | `CompleteLoopFuture` |
| `_dispatch_sync_hook` | `DispatchSyncHook`, `CancelHook` |
| `_handle_hook_call` | `TakeHookCall`, `ReturnFromHook`, `SettleHook`, `HookBeginsClose`, `HookEndsClose` |

What an operation returns is a choice: a value, an error or a loop future.

### HarnessPump

There is one application thread; `stack` is its frames.  A wait (`_call`,
`pump_until`) takes items while its future is not done, a hook it takes may call
the harness again, and so a frame of one wait lies above that of another.
`CheckDone` and `TakeWake`, `TakeCommand` and the others are two steps (`done()` and
`get()`), and the wake-up is put by whoever completes the future
(`CompleteTarget`, `CompleteLoopFuture`).  `_pump_until_event` polls instead
(`PollAgain`).  `InterruptWait` is the `InvalidStateError` of a hook that was
cancelled, as in `queue_owner_death`: here it ends the wait that happens to run the hook.

| Code | Definition |
|---|---|
| `_call`, `close` | `BeginCall`, `BeginClose`, `RegisterWake`, `EndWait`, `SetClosed` |
| `pump_until`, `_pump_until_event` | `BeginWait`, `CheckDone`, `PollAgain` |
| `_pump_until`, `_process_item` | `TakeWake`, `TakeCommand`, `FinishOperation`, `TakeContinuation`, `TakeHookCall` |
| `_handle_hook_call` | `ReturnFromHook`, `SettleHook`, `InterruptWait` |
| the loop | `CompleteLoopFuture`, `CompleteTarget`, `DispatchSyncHook`, `CancelHook` |

### AgentHooks

`Classes` is the set of subclasses a program may write: for each hook of each
event, whether it is missing, `on_`/`decide_` (sync) or `async_`.  `run` says where each hook
is, `reader` where the stdout reader is, `stage` where the task of each decision
event is.  The queue holds the operations of `start()` and `close()` that matter to the
subscription, their continuations, the hook calls and `_STOP`.
`pi` is set in the middle of `start()` (`pi/agent.py:745`), so another thread can prompt before
`pi/agent_class.py:84-85` subscribes the agent: such a prompt is `eager`.  `pi.close()` may
fail by its timeout (`ClosePiTimesOut`), and the server's `close()` waits for the hooks that handle
their cancellation, or times out too.

| Code | Definition |
|---|---|
| `Agent.start` | `StartPi`, `InstallDispatcher`, `StartEnds`; on the loop `LoopInstall` |
| `Agent.close` | `BeginClose`, `Uninstall`, `Uninstalled`, `CloseSuper`, `SetClosedAndStop`; on the loop `LoopUninstall`, `LoopClosePi`, `ClosePiTimesOut`, `LoopCloseServer`, `LoopCloseEnds` |
| `_async_on_event` | `Notify`, `Notified` |
| `_async_on_bridge_event` | `Fire`, `Observed`, `Decided` |
| `_dispatch_sync_hook` | `Begin`, `TakeHookCall`, `SyncHookEnds` |
| `prompt_and_wait` | `BeginPrompt`, `Collect`, `PromptReturns` |

### LoopThread

`submit_async` calls `start()` twice (in `HarnessRuntime.start` and in the `loop`
property), so each user makes at most two loop threads: `Loops` is that many in
the run, and any set in the proofs (`CanMakeLoop` is the bound).
`_start_lock` is a variable because it is held across the wait for `_ready` and
across the join.  `is_running()` of a loop that drains is true and false by
turns, since the drain consists of several `run_until_complete`.  `stop()` asks `is_running()`
(`CheckLoop`) and calls the loop after that (`TellLoop`); when the loop was closed in between,
`call_soon_threadsafe` raises out of `stop()` and `close()`.  A `close()` at `shutdown` waits for the
tools on the executor, without a bound (`pi/runtime.py:179-180`).

### RpcClient

All coroutines share one loop: code between two awaits is one action.  pi
answers in any order, or never, may emit events, stop reading and exit.  The
reader task of each process has a state of its own, since `start()` after
`close()` may find an old one still there.  Request timeouts may strike at any time.

### RpcEvents, JsonlDecoder

A record is two bytes and its line end, so a chunk can end inside of it or inside of
CR LF; a line that is no JSON fills the buffer exactly, so that one more byte makes it
overflow.  A record is told by its number, which is its place in what pi wrote.
The decoder is described by the places of the line feeds and not by its loop: `Line` is what is
between two of them, `RecordEnds` where a line is a record, `Rest` what is behind the last.
`handled` is what the reader took, `base` how much that was when a handler was
installed, `seen` what the handler was called with.  The reader stands in the
middle of an event while it calls a handler (`CallHandler`, `HandlerEnds`) or answers a
dialog (`AnswerDialog`), and everybody else goes on.  The answer may end the reader: it may be
no mapping (`pi/rpc.py:689`), not serializable (`pi/rpc.py:703`), or find pi gone (`pi/rpc.py:704`);
all three are outside of the `try` around the handler.

### Bridge

One connection per call.  `frames` is what the server wrote and `read` how much
of it the shim has seen; a peer that reads slowly makes `drain` wait.  `handler`
is the tool or hook, which for `Detached` calls runs on another thread and
survives the cancellation of the task that waits for it.  `asked` holds the
tasks with a cancellation on its way: it is delivered where the task is then
(`CancelReading`, `CancelExecute`, `CancelEvent`).  Async code (`AtWork`) may await as long
as it likes before it lets the error through, or handle it and go on (`CancelHandled`);
`server.close()` waits for it, and the ten seconds of `core.close()` only cancel it once more
(`CloseTimesOut`).  `WaitsForConnections` tells
Python 3.12, where `Server.wait_closed` waits for open connections, from 3.11;
`pyproject.toml` admits both.

### HarnessLifecycle

The operation on the owner thread is one action (`StartCore`, `CloseCore`,
`Snapshot`), its coroutine runs on with one action per await.  What a `start()`
makes (bridge, pi, directory) is named after its caller, so that one can tell
which survives.  `StartCore` freezes the registry, in which other threads may be
between the two checks of `register()`; pi fetches the manifest at any time while
it runs (`FetchManifest`).  Either of the two timeouts of `_close_io` may strike (`CloseHangs`):
`ClosePiTimesOut` skips the bridge and the directory, `CloseServerTimesOut` the directory.

## Runs

All runs set `CHECK_DEADLOCK FALSE`: when every call has been made and has
returned, the system rests.

| Run | Instance | Question |
|---|---|---|
| `queue_live` | 1 caller with a cancellable future, 2 closers, 1 hook; 264k states | does `close()` unblock everyone, and does the queue implement `HarnessService` |
| `queue_safe` | the same with a client on the loop thread, a hook whose waiter is cancelled and which calls `close()`; 120k states | the inductive invariant, which the theorems prove for every instance |
| `queue_owner_death` | one cancellable hook | violated: see findings |
| `pump_all` | a call, a `close()`, a pumped coroutine and a pumped event, 2 hooks, one of them cancelled; 974k states | wake-ups, nested waits, hooks during `close()`, safety of `HarnessService` |
| `agent_hooks` | 3 classes, 2 notification events, a decision event, a `prompt_and_wait()`, a `close()`; 832k states | order of hooks, what is over when a prompt returns (an eager one included), do all events end |
| `loop_all` | 2 users, 2 stoppers; 223k states | calls return, work finishes, tasks settle, no start after stop |
| `rpc_close` | 1 start, 1 close, 2 sends with one id, one of them in an event handler, 1 waiter, 1 event; 78k states | does `close()` end everything without a request timeout; does a send ever take over an id in use |
| `rpc_sends` | 2 pi processes, failing starts, 1 close, 2 sends, 1 event, a pi that wedges; 552k states | correlation across restarts, late answers and crossed readers |
| `events_all` | 2 records in chunks of 3 and 8 bytes, a buffer of 8, a `prompt_and_wait()`, a subscriber, a `wait_for_event()`, a `close()`; 436k states | delivery, subscribers that raise and leave, dialogs answered well and badly, waits |
| `bridge_all` | 1 tool on the executor with an update, 1 async decision, 1 notification on another thread, any two of them made; 259k states | `close()`, aborts and exits of pi against tools and hooks, async ones that handle their cancellation included; disconnects |
| `life_serial` | 3 starts, 2 closes, 1 snapshot from one thread, 2 `register()` of one name from others, everything may fail, both timeouts of `close()` may strike; 237k states | ownership, cleanup, the manifest |
| `life_close_in_start` | 1 start and 1 close from two threads | violated: see findings |

Why these bounds are enough to be interesting.  *Queue*: the hazards need a
waiter, one closer that is ahead and one that is behind, and a hook in the queue
at the same time; each kind of item has an instance.  The proofs remove the
bound for safety.  *Pump*: every kind of wait has an instance, and two hooks nest
them three deep, which is what one wait needs to take the wake-up of another that
took it of a third.  *Hooks*: two notification events have an order, the decision event
has an observation and a decision; every kind of hook is sync in one class and async
in another; in the third an event has a decision hook and no observation.  *Loop*: two users race for the start, the second stopper
finds the first in its join or the loop in its drain.  *RPC*: two processes
are what a crossed reader needs, two sends a crossed answer.  *Events*: two records,
one of them behind an empty line and with CR LF, in chunks of less than one record
and of more, give every cut; which two they are is a choice of pi.
*Bridge*: calls have connections of their own and meet only in `close()`, so two at a
time suffice (`MaxCalls`); `MaxUpdates` bounds a tool that streams forever.
*Lifecycle*: three starts allow a failure, a retry and a start after both; two
registrations of one name are what the second check is for.

### Fairness

* Owner thread, application threads inside a call, loop threads: the operating
  system schedules them (weak fairness of their steps).  Nobody promises that a
  client calls, cancels or closes.
* A loop future is completed for certain only when it is the one of `close()`
  (which cancels its awaits after ten seconds each, `pi/agent.py:764-772`; see *Known limits*) or after the
  core was closed, when `PiRpcClient.close` fails what is pending.
* Coroutines of the loop that are ready are run.  Nothing is promised of pi, of
  tools and hooks, of aborts and timeouts: `CloseEndsSends` and `CloseEndsTasks` do
  not lean on a timeout.  That covers an async tool or hook, cancelled or not: its task's next
  step is its own.
* `HarnessPump`: the application's thread runs while it is inside the harness.  What it
  pumps for is done some day; that is the application's business.  A hook nobody
  pumps for may wait forever, so only the safety part of `HarnessService` is claimed.
* `RpcEvents`: the tasks of the loop run and handlers return; no timeout is counted on.
* `AgentHooks`: hooks return, those of the loop and those of the owner thread, cancelled or not.
* `LoopThread` also assumes that the coroutines handed to it end, or end when
  they are cancelled.  It promises nothing of the tools `close()` waits for at its end, so
  `CallsReturn` says of a `close()` only that it gets there.

## Findings

Two runs show that the code differs from what its tests, comments or
documents say.

* `queue_owner_death`: `_handle_hook_call` checks `completion.done()` and then
  calls `set_result` (`pi/agent.py:621-622`).  A cancellation in between raises
  `InvalidStateError` on the owner thread and ends it; the queue behind it is
  never processed.
* `life_close_in_start`: a `close()` during `start()` closes the bridge and leaves
  the pi that is spawned afterwards without an owner (`pi/agent.py:745`).

### Known limits

The passing runs make assumptions that the code does not enforce.  Each is a
constant; the instance that drops it fails as follows.

* `LoopCallers = {}` in `queue_live`.  An async hook that makes a blocking public call
  stops the loop it waits for (`pi/agent.py:406`); `CloseUnblocksEveryone` fails.  The
  message of `pi/agent.py:352-357` recommends `async_*` hooks and does not say so.
* `ClosingHooks = {}` in `queue_live`, and in `CloseRunsCoreClose`.  A sync hook that
  calls `close()` gets its error, but the `finally` block marks the harness closed
  (`pi/agent.py:248-255`), and no later `close()` shuts pi down; `ClosedAfterCoreClose` fails.
* `PiWedges = FALSE` in `rpc_close`.  `close()` waits for `wait_closed()` of a stdin that pi
  does not read (`pi/rpc.py:285`) and does not get to the kill; `CloseEndsSends` fails.
  `_close_io` gives up after ten seconds.
* `StartupFails = FALSE` in `rpc_close`.  `_cleanup_after_startup_failure` marks the
  client closed first (`pi/rpc.py:250`), so the reader it cancels does not fail what is pending;
  a request sent during the probe waits for its timeout.
* `SameId = {}` in `rpc_sends`.  A caller that reuses the id of a request that timed out may
  get its late answer (`pi/rpc.py:342-369`); `AnswersMatch` fails.  Also, `send()` pops its id in a
  `finally` block without looking whose entry it is (`pi/rpc.py:361`, `369`): when the end of the
  reader has cleared `_pending`, that may be the entry of a later send with the same id, which `close()`
  then does not fail.  `rpc_close`, where one of the two equal ids is a handler's, does not reach that;
  with two ordinary callers of one id `OutstandingIsRegistered` fails.
* The queue's fairness takes it that the `close()` of the core ends (`pi/agent.py:764-772`).  Its two
  `wait_for` cancel what they wait for and wait for that to end.  An async tool or hook that
  handles each cancellation and runs on holds `server.close()` up at its `gather`
  (`pi/server.py:122-126`), and with it `close()`; `CloseEndsTasks` excepts such a task.
* A `close()` of the core that failed or timed out is not repeated: the harness is closed, and what
  was not shut down stays (`pi/agent.py:752-772`).  So does the pi of a `start()` that another thread queues
  between the core's `close()` and `_closed`.  `ClosedAfterCoreClose` says only that the core's
  `close()` was run; what it leaves is the subject of `NothingLeftAfterClose`.
* `WaitsForConnections = FALSE` in `bridge_all`.  On Python 3.12 `close()` waits for the
  connections before it cancels the tasks that hold them open (`pi/server.py:117-126`);
  `CloseEndsTasks` fails.
* `DisconnectSeen` is stated while the server is up.  A hook whose task `close()` cancels
  loses its watcher with the task (`pi/server.py:276-278`) and never sees `cancelled`.
* `Serial = TRUE` in `life_serial`.  With two threads a second `close()` returns while
  the first still works (`NothingLeftAfterClose` fails), and two `start()` pass the check of
  `core.pi`, so that two pi run at once; a `snapshot()` during `start()` says "started" early.
* Two `stop()`: the second breaks off a drain after the join of the first timed
  out (`pi/runtime.py:98-118`).  `TasksSettledAtClose` states that one exception.
* Two loop threads.  `_ready` is set before `run_forever` (`pi/runtime.py:111`), and a caller in
  that window finds a loop that does not run and starts a second thread; the first is
  forgotten, keeps the work it was given, and runs until the process ends, since `stop()` joins only the
  second.  `docs/DESIGN.md:50` has one loop thread, and the comment at `pi/runtime.py:68-72` wants to
  rule the first one out.  No run is spent on it: the properties of `loop_all` hold with both
  threads, and `LoopMatchesThread` says no more than that the two fields agree.
* Late work.  A coroutine that reaches a loop after its drain has begun may be left pending when the
  loop is closed (`pi/runtime.py:115-118`); `TasksSettledAtClose` is about the others.
* `close()` of the runtime waits for the tools on its executor without a bound
  (`pi/runtime.py:179-180`); `CallsReturn` ends before that.
* Frames after the response.  A cancellation that finds an `execute` in its response writes a
  second one behind it, and a tool on the executor may send updates after the error response
  of its cancelled task (`pi/server.py:358-362`); the shim has settled its promise by then.
  `OneResponse`, a conjunct of `BridgeInv`, is about the events, which do have at most one.
* `MaxSpawns = 1` in `rpc_close`.  A `close()` that overlaps a failing `start()` which is then
  retried takes the process of neither; `NoStrayProcess` fails with two spawns.
* A chunk that makes the buffer exceed its bound raises even when it holds complete records
  (`pi/jsonl.py:69`), which are then lost with the reader; the docstring (`pi/jsonl.py:39-41`)
  speaks of a record without LF.  `DeliveredInOrder` names a full buffer as a way for the reader to
  die.
* A dialog handler that returns what is no mapping (`pi/rpc.py:689`) or cannot be serialized
  (`pi/rpc.py:703`) ends the reader, although the comments (`pi/rpc.py:641-649`, `670-673`) want a handler
  that misbehaves to cost no more than itself.  Its dialog stays without an answer, and what pi
  writes after it is not read.  `AnswerDialog` has the step; `DeliveredInOrder` and `DialogsAnswered`
  name it as an exception, and `PromptsEnd` is about a reader that lives.
* A prompt from another thread in the middle of `start()` is subscribed before the agent, so it sees an event
  before the notification hook of the agent does, and may return while the hook of its last event is still to
  run; `HooksBeforePromptReturns` excepts that event.  In `AgentHooks` prompts do not fail or time out; in
  `RpcEvents` they do.
* A handler that raises a `CancelledError` of its own ends the reader like `close()` would
  (`pi/rpc.py:654`), without a trace; the handlers of `RpcEvents` raise ordinary exceptions.
* `HarnessPump` has one application thread.  Two that call a `threaded=False` harness take each
  other's items and wake-ups; the code neither excludes nor detects that.  `submit()` is `_call()` in
  this mode (`pi/agent.py:332-343`).

Hazards outside of the modules:

* The installer takes an existing binary for a complete installation (`_pi_vendor.py:134`); a crash
  between the extraction and the `chmod` leaves one that is not.
* `bridgeNotify` removes its error listener once it is connected (`pi/shim.py:259`); what an unhandled
  error event of a socket does is up to Node and pi.
* `PiPythonHarness.start()` checks `pi` before it awaits the server (`pi/harness.py:66`): a second task that
  starts it in between shares the server, and the first client is forgotten.
* What pi emits between `super().start()` and the subscription (`pi/agent_class.py:84`) reaches no
  notification hook, and with `threaded=False` a sync hook waits until some call pumps the queue.

## Proofs

Eight modules prove the safety of what they are named after, for all values of the
constants: any sets of callers, closers, hooks, requests, bridge calls, events, classes
and sizes of chunks.  The assumptions on constants only say which sets are subsets of
which, that names differ, and that a bound is a number.  Where a theorem has a
hypothesis beyond them, it is in the table.

| Module | Theorem | States | Hypothesis |
|---|---|---|---|
| `HarnessQueueProofs` | `TypeCorrect`, `QueueCorrect`, `InvariantHolds` | `TypeOK`, `QueueInv`, and both: `SafetyInv` | |
| | `StopIsLast` | `NothingBehindStop` | |
| | `ExitStrandsNothing` | `NothingStranded` | |
| | `CloseRunsCoreClose` | `ClosedAfterCoreClose` | `ClosingHooks = {}` |
| | `QueueImplementsService` | `ImplementsServiceSafely`: the safety of `HarnessService` | |
| `HarnessPumpProofs` | `PumpCorrect` | `PumpInv` | |
| | `NoWakeupLost` | `NoLostWakeup` | |
| | `PumpImplementsService` | `ImplementsServiceSafely` | |
| `AgentHooksProofs` | `HooksCorrect` | `HooksInOrder` | |
| | `PromptsSeeHooksEnd` | `HooksBeforePromptReturns` | |
| `LoopThreadProofs` | `LoopCorrect` | `LoopInv` | |
| | `NoLoopAfterStop` | `NoThreadAfterStop` | |
| `RpcClientProofs` | `NoEntryIsTaken` | of each request with an id of its own: nobody takes its entry or its answer | |
| | `RequestsCorrect` | `RequestsInv` | `UniqueIds` |
| | `NoPiIsLost` | `NoStrayProcess` | `OneProcess` |
| | `CloseFailsAll` | `NothingOutstandingAfterClose` | both |
| `RpcEventsProofs` | `FeedInPieces` | a stream cut anywhere decodes to the same records and the same rest | |
| | `EventsCorrect`, `EventsInOrder` | all three invariants, and of them `DeliveredInOrder` | |
| | `EveryHandlerSeesAll` | `HandlersSeeAll` | |
| | `DialogsGetAnswers` | `DialogsAnswered` | |
| `BridgeProofs` | `BridgeCorrect` | `BridgeInv` | |
| | `NoLateCancel` | `CancelNotAfterTheFact` | |
| `HarnessLifecycleProofs` | `TypeCorrect`, `ManifestFinal` | `TypeOK`, `ManifestIsFinal` | |
| | `LifeCorrect` | `LifeInv` | `Serial` |
| | `CloseIsComplete` | `NothingLeftAfterClose` | `Serial` |
| | `SnapshotIsTrue` | `NotStartedIsTrue` | `Serial` |

The hypotheses are those under which the code keeps the promise; *Known limits* tells
what happens without them.  `ClosingHooks = {}`: no sync hook calls `close()`.
`UniqueIds`: two requests have two ids, which holds unless a caller of `send()` brings
an id that was used before.  `OneProcess`: a client is started once, as the core does,
which makes a client for each start.  `Serial`: the calls of the core come one after
the other.

But for `FeedInPieces` and `NoEntryIsTaken`, each property above is also one of a run, or a part of one, which is
where TLC tried the invariants before they were proved.

### The arguments

Hardly any of these is inductive as it stands.  What they need besides, and why:

*Queue.*  That nothing waits when the owner thread has exited depends on where every
future was before.  `QueueInv` says where the promise to settle a future is kept: a
call that is pending is in the queue, one that runs is at the owner thread, at the loop
or back in the queue as a continuation, a hook that waits is in the queue or at the
owner thread (`FuturesTracked`); conversely, an item in the queue belongs to a call in
that phase (`ItemsTracked`), each command is there once, and the owner thread works on an
item of the kind its place in the code tells (`OwnerItemMatches`).  Together with
`NothingBehindStop` this gives `ExitIsFinal`: when the owner thread takes `_STOP` the
queue holds nothing but `_STOP`.  `CloseRunsCoreClose` needs `CoreCloseInv`: a `close()`
reaches its `finally` block only with a loop future or a settled main future, and both
come after the core was closed.  For the refinement, `AcceptedFirst` adds that a
request has an answer or a place in the queue only if it was accepted; each action is
then a step of `HarnessService` or leaves what it sees alone.

*Pump.*  The frames of the one thread replace the owner thread, so a future may be on
the stack at any depth.  `StackShape` is which frame may lie on which, `FramesMatch`
what a frame knows of its future, `CallsOnce` that a call has one frame until it has its
outcome; `FuturesTracked` and `ItemsMatch` are as for the queue.  With these an empty
queue under a blocked wait means that nobody owes it a wake-up.

*Hooks.*  Two orders meet.  `QueueMatches` ties the queue and the owner thread to the
state of each sync hook, and each continuation to the call that waits for it.
`UpUntilClose` is why the agent is subscribed when `start()` returns, and before it only
the prompts that began before that (`eager`).  So the reader is in the agent's hook before any other
prompt collects the event (`ReaderInOrder`), and leaves it when the hook is over; what a
prompt collected has no hook left to run, but for the last event of an eager one.  That is
`CollectedInOrder`, a strengthening that the proofs module adds and the runs do not name.  `BegunOnce` says that a
hook that is over is not begun again.  `list.remove` is in the model as
`RemoveFirst`; its lemma shows that it takes away all of a handler that is there once.

*Loop thread.*  `LockHeld` says who is between the making of a thread and its `_ready`, and
with it why `_loop` lags behind `_thread` only then; `HandedOver` and `StopsCounted` why a
loop that is closed with tasks left was stopped twice.

*Client.*  An answer settles the future that is registered under its id.  `EntriesMatch`
says that this is a request with that id, `OutstandingIsRegistered` that a request
that waits is registered.  Of a request with an id of its own the two follow from what the model does,
whatever ids the others have (`OwnRequestsKept`); with `UniqueIds` that is every request.  `ProcessesHeld` is what
each task of `start()` and `close()` knows of its process, from which the other two follow.

*Events.*  The arguments about sequences rest on one fact: a finite set of numbers has one
ascending sequence (`AscendingUnique`).  So joining two sets of which one is below the other
joins their sequences (`AscendingConcat`), which takes the place of an induction over the data.
A byte stream that ends with a line feed decodes as if nothing followed it (`DecodedConcat`),
and every stream is such a one and its `Rest` (`RestFacts`); together they are
`FeedInPieces`, which says that the chunks do not matter.  Then pi adds to the end
of `handled \o reader.records \o Decoded(buffer \o pipe)` what it adds to `Valid` (`WriteValid`,
`EncodeFacts`), and a read or a record handled only moves a boundary (`ReadDelivered`,
`HandleDelivered`).  Since `Valid` ascends, so does `handled`, and the next record is larger
than all before it (`OrderFacts`): that is why no dialog is answered twice and why a handler's
events grow at their end (`AmongGrows`).  `CalledOnce` is what the walk over the handlers needs:
those still to be called are a list without repetitions, each installed before
the event in hand; with it `HandlersSeeAll` counts the event in hand as seen by those
behind and not by those ahead (`Pending`).

*Bridge.*  `StagesAgree` relates the connection to the task of the call, `OkIsReturned`
the frames to the handler, `DecisionsUnanswered` the watcher of a decision to its response.
Then a promise resolves only with what a handler returned, and a watcher that could still
set `cancelled` sees no response.

*Lifecycle.*  `StartInProgress`, `HeldTogether` and `CloseInProgress` say what each
coroutine in flight has brought up or taken and not yet given to or taken from the core;
`CallsInOrder` is what `Serial` means for states.  `FrozenBeforePi` is the order the manifest
depends on, and holds for calls in any order.

Each conjunct has a lemma that goes through the actions of `Next`, and lemmas about
`Append`, `Tail` and the helpers of a module say what one queue operation or delivery does.

### What the proofs found

* A definition of `Bridge` for the outcome that a cancelled handler leaves had a `CASE` with
  guards that overlapped.  TLC takes the first of them, as the code does, but the value of such
  a `CASE` is open; the definition is now an `IF`.
* `HooksBeforePromptReturns` excused prompts that overlap a `close()`.  The induction does not need
  the exception: the reader that `close()` cancels in a hook does not get to the prompt.  The
  property is now stated, checked and proved without it; what it excepts is the last event of a
  prompt that began before the agent was subscribed.
* The bridge, the client, the pump and the loop thread needed conjuncts that no run had been asked
  for (`StagesAgree`, `EntriesMatch`, `CallsOnce`, `LockHeld` and those listed with them above).
  They are part of the invariants now, so the runs check them as well.
* The invariants of `RpcEvents` spoke of the states between two records, and the order of records
  of readers that live.  Neither is inductive.  They now speak of every state, the middle of an
  event and a reader that died included, and say more for it: the three of them together are
  inductive as they stand.
* `Decoded` needs that the delimiters are no halves of a record, and `MaxBuffer` that it is a
  number; `DecoderAssumption` says so.

### Only model-checked

* Liveness: `CloseUnblocksEveryone`, `HooksComplete`, `CallsEndAfterClose`, `CloseRunsHooks`,
  `EventsEnd`, `CallsReturn`, `SubmittedWorkFinishes`, `StoppedLoopEnds`, `CloseEndsSends`,
  `WaitsEnd`, `PromptsEnd`, `CloseEndsTasks`, `CallsSettle`, `DisconnectSeen`, and with it the
  fairness part of the refinement, `ImplementsService`.  TLAPS 1.4.5 proves neither
  liveness under fairness nor `ENABLED`.

Every safety invariant and every action property of a passing run is proved, some of them under a
hypothesis of the table.

## Not modelled

* Of `Agent`: the checks of a class when it is defined, strict mode
  (`_raise_on_unhandled_event`), and the timeouts of the manifest.  The first runs before
  there is an object, the others are choices of data.
* Of the client: the typed commands, which are `send()` with a fixed request; stderr, which only
  goes to a log.  `flush()` of the decoder, which only its own tests call.
* The process-wide default runtime, and a runtime that shares its loop thread.
* Tokens, the reply to a manifest request and malformed messages of the bridge (one more way
  to answer with an error), and the registration of tools in the shim.
* The inference of JSON schemas (`pi/tools.py`), a sequential conversion.
* `PiPythonHarness`: the awaits of the core's coroutines on one loop, without a queue.
* The installer and the command line, sequential and run before anything else.
* pi itself, which is a program of its own.
* `dev-notes/predecessors`: earlier versions, of which nothing is imported.

A share of the repository's implementation lines that counts the predecessors understates what
is covered: they and the typed commands, declarations and schema conversions above are three
quarters of those lines.

## Plan

Modelled: the queue, its pump, the hooks on top, the loop thread, the client with its
requests and its events, the bridge, the lifecycle with the registry.  What may follow, a
`PiPythonHarness` beside `HarnessLifecycle` and the default runtime beside `LoopThread`,
repeats what these show.

Proved: the safety of every module (see Proofs).  What is left to model checking is liveness.

The modules have no `RECURSIVE` operator, so all of them can be proved about.
