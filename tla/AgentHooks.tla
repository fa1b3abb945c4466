----------------------------- MODULE AgentHooks -----------------------------
(***************************************************************************)
(* Agent (pi/agent_class.py): the hooks a subclass declares, run for the   *)
(* events of pi.  Notification events come from the stdout of pi, one      *)
(* after the other, through a subscription that start() installs and       *)
(* close() removes.  Decision events come over the bridge, each in a task  *)
(* of its own.  An async hook runs on the loop; a sync hook runs on the    *)
(* owner thread (threaded=True), behind what else is in its queue.         *)
(*                                                                         *)
(* The queue has the operations of start() and close() that concern the    *)
(* subscription, their continuations, the hook calls and _STOP.            *)
(* HarnessQueue has the queue in detail, RpcEvents the reader, and         *)
(* HarnessLifecycle what core.start() and core.close() bring up and down.  *)
(***************************************************************************)
EXTENDS Naturals, Sequences, FiniteSets, SequencesExt

CONSTANTS
    RpcEvents,     \* notification events pi writes to its stdout
    EndEvents,     \* those of them that are an agent_end
    BridgeEvents,  \* decision events pi sends over the bridge
    Prompts,       \* calls of prompt_and_wait()
    Closers,       \* threads that call close()
    Agent,         \* the subscription of the agent; also the name of start()
    Classes        \* the classes a program derives from Agent: which hooks
                   \* each declares, and their colours

Events == RpcEvents \cup BridgeEvents
Callers == Closers \cup {Agent}
Hooks == (Events \X {"on"}) \cup (BridgeEvents \X {"decide"})

ASSUME HooksAssumption ==
    /\ EndEvents \subseteq RpcEvents
    /\ RpcEvents \cap BridgeEvents = {}
    /\ Agent \notin Prompts \cup Closers
    /\ Classes \subseteq [Hooks -> {"none", "sync", "async"}]

VARIABLES
    declared,  \* the colour of the hooks the class declares
    start,     \* where start() is
    closer,    \* where each close() is
    future,    \* the main future of the operation each of them waits for
    attr,      \* _agent_event_unsubscribe is not None
    closed,    \* _closed
    commands,  \* the command queue
    owner,     \* what the owner thread runs
    corePi,    \* core.pi is not None
    client,    \* pi and its client
    handlers,  \* _event_handlers of the client
    reader,    \* the reader task of the client
    handled,   \* the notification events it took, in order
    prompts,   \* the calls of prompt_and_wait(), ...
    collected, \* ... the events each has seen, and ...
    eager,     \* ... those that began while the agent was not subscribed
    stage,     \* the task of each decision event
    run        \* the run of each hook

callVars == <<start, closer, future, attr, closed>>
coreVars == <<corePi, client>>
rpcVars  == <<handlers, reader, handled, prompts, collected, eager>>
vars == <<declared, callVars, commands, owner, coreVars, rpcVars, stage, run>>

-----------------------------------------------------------------------------
On(e) == <<e, "on">>
Decide(e) == <<e, "decide">>

Item(kind, of) == [kind |-> kind, of |-> of]
Stop == Item("stop", Agent)
Items == [kind : {"install", "uninstall", "close", "value", "error"},
          of : Callers]
         \cup [kind : {"hook"}, of : Hooks] \cup {Stop}

TypeOK ==
    /\ declared \in Classes
    /\ start \in {"idle", "install", "wait", "returned", "raised"}
    /\ closer \in [Closers -> {"idle", "clear", "uninstall", "super", "core",
                               "finally", "done"}]
    /\ future \in [Callers -> {"none", "pending", "install", "uninstall", "pi",
                               "server", "tasks", "nothing", "value", "error"}]
    /\ attr \in BOOLEAN /\ closed \in BOOLEAN /\ corePi \in BOOLEAN
    /\ commands \in Seq(Items)
    /\ owner \in Hooks \cup {<<>>, <<"exited">>}
    /\ client \in {"none", "up", "closed"}
    /\ handlers \in Seq(Prompts \cup {Agent})
    /\ reader \in [at : {"read", "call", "hook", "stopped"},
                   todo : Seq(Prompts \cup {Agent})]
    /\ handled \in Seq(RpcEvents)
    /\ prompts \in [Prompts -> {"idle", "waiting", "returned"}]
    /\ collected \in [Prompts -> SUBSET RpcEvents]
    /\ eager \subseteq Prompts
    /\ stage \in [BridgeEvents -> {"new", "on", "decide", "done", "cancelled"}]
    /\ run \in [Hooks -> {"none", "queued", "running", "ended", "refused"}]

Init ==
    /\ declared \in Classes
    /\ start = "idle"
    /\ closer = [k \in Closers |-> "idle"]
    /\ future = [c \in Callers |-> "none"]
    /\ attr = FALSE /\ closed = FALSE /\ corePi = FALSE
    /\ commands = << >> /\ owner = << >>
    /\ client = "none"
    /\ handlers = << >> /\ handled = << >>
    /\ reader = [at |-> "read", todo |-> << >>]
    /\ prompts = [p \in Prompts |-> "idle"]
    /\ collected = [p \in Prompts |-> {}]
    /\ eager = {}
    /\ stage = [e \in BridgeEvents |-> "new"]
    /\ run = [h \in Hooks |-> "none"]

Put(item) == commands' = Append(commands, item)

Unsubscribe == handlers' = RemoveFirst(handlers, Agent)

-----------------------------------------------------------------------------
(* start().                                                                *)

\* PiAgentHarness.start(): pi runs from here on; it may emit events, and other
\* threads may prompt it.
StartPi ==
    /\ start = "idle"
    /\ IF closed
       THEN start' = "raised" /\ UNCHANGED coreVars
       ELSE start' = "install" /\ corePi' = TRUE /\ client' = "up"
    /\ UNCHANGED <<declared, closer, future, attr, closed, commands, owner,
                   rpcVars, stage, run>>

InstallDispatcher ==
    /\ start = "install"
    /\ IF closed
       THEN start' = "raised" /\ UNCHANGED <<future, commands>>
       ELSE /\ start' = "wait"
            /\ future' = [future EXCEPT ![Agent] = "pending"]
            /\ Put(Item("install", Agent))
    /\ UNCHANGED <<declared, closer, attr, closed, owner, coreVars, rpcVars,
                   stage, run>>

StartEnds ==
    /\ start = "wait" /\ future[Agent] \in {"value", "error"}
    /\ start' = IF future[Agent] = "value" THEN "returned" ELSE "raised"
    /\ attr' = (future[Agent] = "value")
    /\ UNCHANGED <<declared, closer, future, closed, commands, owner, coreVars,
                   rpcVars, stage, run>>

-----------------------------------------------------------------------------
(* close(): the uninstall, then PiAgentHarness.close().                    *)

BeginClose(k) ==
    /\ closer[k] = "idle"
    /\ closer' = [closer EXCEPT ![k] = IF attr THEN "clear" ELSE "super"]
    /\ UNCHANGED <<declared, start, future, attr, closed, commands, owner,
                   coreVars, rpcVars, stage, run>>

\* A call that is refused is made up for on the calling thread.
Uninstall(k) ==
    /\ closer[k] = "clear"
    /\ attr' = FALSE
    /\ IF closed
       THEN /\ closer' = [closer EXCEPT ![k] = "super"]
            /\ Unsubscribe
            /\ UNCHANGED <<future, commands>>
       ELSE /\ closer' = [closer EXCEPT ![k] = "uninstall"]
            /\ future' = [future EXCEPT ![k] = "pending"]
            /\ Put(Item("uninstall", k))
            /\ UNCHANGED handlers
    /\ UNCHANGED <<declared, start, closed, owner, coreVars, reader, handled,
                   prompts, collected, eager, stage, run>>

Uninstalled(k) ==
    /\ closer[k] = "uninstall" /\ future[k] \in {"value", "error"}
    /\ closer' = [closer EXCEPT ![k] = "super"]
    /\ IF future[k] = "error" THEN Unsubscribe ELSE UNCHANGED handlers
    /\ UNCHANGED <<declared, start, future, attr, closed, commands, owner,
                   coreVars, reader, handled, prompts, collected, eager, stage,
                   run>>

CloseSuper(k) ==
    /\ closer[k] = "super"
    /\ IF closed
       THEN closer' = [closer EXCEPT ![k] = "done"]
            /\ UNCHANGED <<future, commands>>
       ELSE /\ closer' = [closer EXCEPT ![k] = "core"]
            /\ future' = [future EXCEPT ![k] = "pending"]
            /\ Put(Item("close", k))
    /\ UNCHANGED <<declared, start, attr, closed, owner, coreVars, rpcVars,
                   stage, run>>

SetClosedAndStop(k) ==
    /\ closer[k] = "core" /\ future[k] \in {"value", "error"}
    /\ closer' = [closer EXCEPT ![k] = "done"]
    /\ closed' = TRUE
    /\ Put(Stop)
    /\ UNCHANGED <<declared, start, future, attr, owner, coreVars, rpcVars,
                   stage, run>>

-----------------------------------------------------------------------------
(* The owner thread.                                                       *)

Takes(kind) ==
    /\ owner = << >>
    /\ commands # << >> /\ Head(commands).kind = kind
    /\ commands' = Tail(commands)

\* core.subscribe_client_events and core.unsubscribe_client_events hand a
\* coroutine to the loop; core.close() gives up the client first, and has
\* nothing to do when that is gone.
TakeOperation ==
    /\ LET c == Head(commands).of IN
         \/ /\ Takes("install")
            /\ future' = [future EXCEPT ![c] = IF corePi THEN "install"
                                              ELSE "error"]
            /\ UNCHANGED corePi
         \/ /\ Takes("uninstall")
            /\ future' = [future EXCEPT ![c] = "uninstall"]
            /\ UNCHANGED corePi
         \/ /\ Takes("close")
            /\ future' = [future EXCEPT ![c] = IF corePi THEN "pi"
                                              ELSE "nothing"]
            /\ corePi' = FALSE
    /\ UNCHANGED <<declared, start, closer, attr, closed, owner, client,
                   rpcVars, stage, run>>

TakeContinuation ==
    /\ Takes("value") \/ Takes("error")
    /\ future' = [future EXCEPT ![Head(commands).of] = Head(commands).kind]
    /\ UNCHANGED <<declared, start, closer, attr, closed, owner, coreVars,
                   rpcVars, stage, run>>

TakeHookCall ==
    /\ Takes("hook")
    /\ owner' = Head(commands).of
    /\ run' = [run EXCEPT ![Head(commands).of] = "running"]
    /\ UNCHANGED <<declared, callVars, coreVars, rpcVars, stage>>

\* Whether it returned or raised: a coroutine that still waits for it goes on.
SyncHookEnds ==
    /\ owner \in Hooks
    /\ run' = [run EXCEPT ![owner] = "ended"]
    /\ owner' = << >>
    /\ UNCHANGED <<declared, callVars, commands, coreVars, rpcVars, stage>>

TakeStop ==
    /\ Takes("stop")
    /\ owner' = <<"exited">>
    /\ UNCHANGED <<declared, callVars, coreVars, rpcVars, stage, run>>

OwnerStep ==
    \/ TakeOperation \/ TakeContinuation \/ TakeHookCall \/ SyncHookEnds
    \/ TakeStop

-----------------------------------------------------------------------------
(* The coroutines of the operations.                                       *)

\* The callback of a coroutine that ended queues a continuation, or fails
\* the call when the harness is closed.
Deliver(c, result) ==
    IF closed
    THEN future' = [future EXCEPT ![c] = "error"] /\ UNCHANGED commands
    ELSE future' = [future EXCEPT ![c] = "pending"] /\ Put(Item(result, c))

LoopInstall ==
    /\ future[Agent] = "install"
    /\ handlers' = IF corePi THEN Append(handlers, Agent) ELSE handlers
    /\ Deliver(Agent, IF corePi THEN "value" ELSE "error")
    /\ UNCHANGED <<declared, start, closer, attr, closed, owner, coreVars,
                   reader, handled, prompts, collected, eager, stage, run>>

LoopUninstall(k) ==
    /\ future[k] = "uninstall"
    /\ Unsubscribe
    /\ Deliver(k, "value")
    /\ UNCHANGED <<declared, start, closer, attr, closed, owner, coreVars,
                   reader, handled, prompts, collected, eager, stage, run>>

\* The runs that end when the tasks in them are cancelled: a sync hook stays
\* in the queue or runs on.
Cancelled(hooks) ==
    run' = [h \in Hooks |->
              IF h \in hooks /\ declared[h] = "async" /\ run[h] = "running"
              THEN "ended" ELSE run[h]]

\* The reader is cancelled; an async hook that it waits in may handle that, and
\* then the two go on.
CancelReader ==
    \/ /\ reader' = [reader EXCEPT !.at = "stopped"]
       /\ Cancelled(RpcEvents \X {"on"})
    \/ /\ reader.at = "hook" /\ declared[On(Last(handled))] = "async"
       /\ UNCHANGED <<reader, run>>

\* pi.close(): pi exits.
LoopClosePi(k) ==
    /\ future[k] = "pi"
    /\ future' = [future EXCEPT ![k] = "server"]
    /\ client' = "closed"
    /\ CancelReader
    /\ UNCHANGED <<declared, start, closer, attr, closed, commands, owner,
                   corePi, handlers, handled, prompts, collected, eager, stage>>

\* Its timeout: the rest of core.close() is skipped.
ClosePiTimesOut(k) ==
    /\ future[k] = "pi"
    /\ Deliver(k, "error")
    /\ client' \in {client, "closed"}
    /\ CancelReader \/ UNCHANGED <<reader, run>>
    /\ UNCHANGED <<declared, start, closer, attr, closed, owner, corePi,
                   handlers, handled, prompts, collected, eager, stage>>

InTask(e) == stage[e] \in {"on", "decide"}

Hook(e) == IF stage[e] = "on" THEN On(e) ELSE Decide(e)

\* server.close(): the tasks of the bridge are cancelled, and those that do
\* not end by that are waited for: an async hook may handle it.
LoopCloseServer(k) ==
    /\ future[k] = "server"
    /\ future' = [future EXCEPT ![k] = "tasks"]
    /\ \E ended \in SUBSET BridgeEvents :
         /\ \A e \in BridgeEvents \ ended :
              InTask(e) => declared[Hook(e)] = "async"
         /\ stage' = [e \in BridgeEvents |->
              IF e \in ended /\ InTask(e) THEN "cancelled" ELSE stage[e]]
         /\ Cancelled(ended \X {"on", "decide"})
    /\ UNCHANGED <<declared, start, closer, attr, closed, commands, owner,
                   coreVars, rpcVars>>

\* core.close() ends: the tasks have ended, or there was nothing to close; or
\* by the timeout of server.close().
LoopCloseEnds(k) ==
    /\ \/ /\ future[k] = "tasks" /\ \A e \in BridgeEvents : ~InTask(e)
          /\ Deliver(k, "value")
       \/ future[k] = "nothing" /\ Deliver(k, "value")
       \/ future[k] \in {"server", "tasks"} /\ Deliver(k, "error")
    /\ UNCHANGED <<declared, start, closer, attr, closed, owner, coreVars,
                   rpcVars, stage, run>>

-----------------------------------------------------------------------------
(* The hooks on the loop.                                                  *)

\* Mutant: a sync hook is queued behind _STOP.
BeginUnchecked(h) ==
    /\ run' = [run EXCEPT ![h] = CASE declared[h] = "none"  -> "none"
                                   [] declared[h] = "async" -> "running"
                                   [] OTHER                 -> "queued"]
    /\ IF declared[h] = "sync" THEN Put(Item("hook", h))
       ELSE UNCHANGED commands

\* A hook of either colour, or none, is begun; a sync hook is refused once
\* the harness is closed (C1).
Begin(h) ==
    LET refused == declared[h] = "sync" /\ closed IN
    /\ run' = [run EXCEPT ![h] = CASE declared[h] = "none"  -> "none"
                                   [] declared[h] = "async" -> "running"
                                   [] refused               -> "refused"
                                   [] OTHER                 -> "queued"]
    /\ IF declared[h] = "sync" /\ ~refused THEN Put(Item("hook", h))
       ELSE UNCHANGED commands

\* What awaits a hook goes on: it is not declared, has ended or was refused.
Over(h) == declared[h] = "none" \/ run[h] \in {"ended", "refused"}

AsyncHookEnds(h) ==
    /\ declared[h] = "async" /\ run[h] = "running"
    /\ run' = [run EXCEPT ![h] = "ended"]
    /\ UNCHANGED <<declared, callVars, commands, owner, coreVars, rpcVars,
                   stage>>

\* The reader takes the next event; the handlers of this moment see it.
ReadEvent(e) ==
    /\ client # "none"
    /\ reader.at = "read" /\ e \notin Range(handled)
    /\ handled' = Append(handled, e)
    /\ reader' = [at |-> "call", todo |-> handlers]
    /\ UNCHANGED <<declared, callVars, commands, owner, coreVars, handlers,
                   prompts, collected, eager, stage, run>>

CallsHandler(h) ==
    /\ reader.at = "call"
    /\ reader.todo # << >> /\ Head(reader.todo) = h

\* Mutant: the hooks run in a task of their own.
NotifyDetached ==
    /\ CallsHandler(Agent)
    /\ Begin(On(Last(handled)))
    /\ reader' = [at |-> "call", todo |-> Tail(reader.todo)]
    /\ UNCHANGED <<declared, callVars, owner, coreVars, handlers, handled,
                   prompts, collected, eager, stage>>

\* _async_on_event: the reader waits in the hook.
Notify ==
    /\ CallsHandler(Agent)
    /\ Begin(On(Last(handled)))
    /\ reader' = [at |-> "hook", todo |-> Tail(reader.todo)]
    /\ UNCHANGED <<declared, callVars, owner, coreVars, handlers, handled,
                   prompts, collected, eager, stage>>

\* The hook has ended, and what it raised was logged.
Notified ==
    /\ reader.at = "hook" /\ Over(On(Last(handled)))
    /\ reader' = [reader EXCEPT !.at = "call"]
    /\ UNCHANGED <<declared, callVars, commands, owner, coreVars, handlers,
                   handled, prompts, collected, eager, stage, run>>

\* The handler of a prompt_and_wait().
Collect(p) ==
    /\ CallsHandler(p)
    /\ collected' = [collected EXCEPT ![p] = @ \cup {Last(handled)}]
    /\ reader' = [reader EXCEPT !.todo = Tail(@)]
    /\ UNCHANGED <<declared, callVars, commands, owner, coreVars, handlers,
                   handled, prompts, eager, stage, run>>

EventDone ==
    /\ reader.at = "call" /\ reader.todo = << >>
    /\ reader' = [reader EXCEPT !.at = "read"]
    /\ UNCHANGED <<declared, callVars, commands, owner, coreVars, handlers,
                   handled, prompts, collected, eager, stage, run>>

ReaderStep == Notify \/ Notified \/ (\E p \in Prompts : Collect(p)) \/ EventDone

\* prompt_and_wait(), while pi runs.  Nothing keeps a second thread from it
\* before start() has subscribed the agent.
BeginPrompt(p) ==
    /\ prompts[p] = "idle" /\ client = "up"
    /\ prompts' = [prompts EXCEPT ![p] = "waiting"]
    /\ handlers' = Append(handlers, p)
    /\ eager' = IF Agent \in Range(handlers) THEN eager ELSE eager \cup {p}
    /\ UNCHANGED <<declared, callVars, commands, owner, coreVars, reader,
                   handled, collected, stage, run>>

PromptReturns(p) ==
    /\ prompts[p] = "waiting" /\ collected[p] \cap EndEvents # {}
    /\ prompts' = [prompts EXCEPT ![p] = "returned"]
    /\ handlers' = RemoveFirst(handlers, p)
    /\ UNCHANGED <<declared, callVars, commands, owner, coreVars, reader,
                   handled, collected, eager, stage, run>>

\* A decision event arrives: it is observed first.
Fire(e) ==
    /\ stage[e] = "new" /\ client = "up"
    /\ stage' = [stage EXCEPT ![e] = "on"]
    /\ Begin(On(e))
    /\ UNCHANGED <<declared, callVars, owner, coreVars, rpcVars>>

\* Mutant: the observation is begun, not awaited.
ObservedAtOnce(e) ==
    /\ stage[e] = "on"
    /\ IF declared[Decide(e)] = "none"
       THEN /\ stage' = [stage EXCEPT ![e] = "done"]
            /\ UNCHANGED <<run, commands>>
       ELSE /\ stage' = [stage EXCEPT ![e] = "decide"]
            /\ Begin(Decide(e))
    /\ UNCHANGED <<declared, callVars, owner, coreVars, rpcVars>>

\* The gate of an event is open when the class declares a decision hook.
Observed(e) ==
    /\ stage[e] = "on" /\ Over(On(e))
    /\ IF declared[Decide(e)] = "none"
       THEN /\ stage' = [stage EXCEPT ![e] = "done"]
            /\ UNCHANGED <<run, commands>>
       ELSE /\ stage' = [stage EXCEPT ![e] = "decide"]
            /\ Begin(Decide(e))
    /\ UNCHANGED <<declared, callVars, owner, coreVars, rpcVars>>

\* The decision, or the error of the hook, is the answer.
Decided(e) ==
    /\ stage[e] = "decide" /\ Over(Decide(e))
    /\ stage' = [stage EXCEPT ![e] = "done"]
    /\ UNCHANGED <<declared, callVars, commands, owner, coreVars, rpcVars, run>>

-----------------------------------------------------------------------------
StartStep == InstallDispatcher \/ StartEnds \/ LoopInstall

CloseStep(k) ==
    \/ Uninstall(k) \/ Uninstalled(k) \/ CloseSuper(k) \/ SetClosedAndStop(k)
    \/ LoopUninstall(k) \/ LoopClosePi(k) \/ ClosePiTimesOut(k)
    \/ LoopCloseServer(k) \/ LoopCloseEnds(k)

EventStep(e) == Observed(e) \/ Decided(e)

Next ==
    \/ StartPi \/ StartStep
    \/ \E k \in Closers : BeginClose(k) \/ CloseStep(k)
    \/ OwnerStep
    \/ \E h \in Hooks : AsyncHookEnds(h)
    \/ (\E e \in RpcEvents : ReadEvent(e)) \/ ReaderStep
    \/ \E p \in Prompts : BeginPrompt(p) \/ PromptReturns(p)
    \/ \E e \in BridgeEvents : Fire(e) \/ EventStep(e)

\* The threads and the loop run, and hooks return.  Nobody has to call
\* anything, and pi need not emit an event.
Fairness ==
    /\ WF_vars(StartStep) /\ WF_vars(OwnerStep) /\ WF_vars(ReaderStep)
    /\ \A k \in Closers : WF_vars(CloseStep(k))
    /\ \A h \in Hooks : WF_vars(AsyncHookEnds(h))
    /\ \A e \in BridgeEvents : WF_vars(EventStep(e))

Spec == Init /\ [][Next]_vars /\ Fairness

-----------------------------------------------------------------------------
(* Properties.                                                             *)

Active(h) == run[h] \in {"queued", "running"}

NobodyCloses == \A k \in Closers : closer[k] = "idle"

\* Between start() and close() the agent is subscribed, once, and behind no
\* prompt_and_wait() but those that began before it was (agent_class.py:80-91,
\* 233-248).
Subscribed(s) ==
    /\ IsInjective(s)
    /\ \A i, j \in DOMAIN s : i < j /\ s[j] = Agent => s[i] \in eager

SubscribedWhileUp ==
    /\ Subscribed(handlers)
    /\ start = "returned" /\ NobodyCloses =>
         attr /\ Agent \in Range(handlers)

\* Observation first, decision second (docs/AGENT_HOOKS.md:163): no decision
\* hook is begun while the observation hook of its event waits or runs.  And
\* notification hooks run one at a time, in the order of their events, on
\* whatever thread (agent_class.py:93-123).
InOrder ==
    /\ \A e \in BridgeEvents :
         run[Decide(e)] # "none" => ~Active(On(e))
    /\ \A i, j \in DOMAIN handled :
         i < j /\ run[On(handled[j])] # "none" => ~Active(On(handled[i]))

\* What the two follow from.  The queue has an item for what waits in it, and
\* only one; the owner thread runs a sync hook that is running.
IsHook(item) == item.kind = "hook"
IsCall(item) == item.kind \notin {"hook", "stop"}

SameKind(x, y) ==
    (IsHook(x) /\ IsHook(y)) \/ (IsCall(x) /\ IsCall(y))

ItemMatches(x) ==
    /\ IsHook(x) => declared[x.of] = "sync" /\ run[x.of] = "queued"
    /\ IsCall(x) => future[x.of] = "pending"
    /\ x.kind = "install" => x.of = Agent

ItemsDiffer ==
    \A i, j \in DOMAIN commands :
      i # j /\ SameKind(commands[i], commands[j])
        => commands[i].of # commands[j].of

QueueMatches ==
    /\ \A x \in Range(commands) : ItemMatches(x)
    /\ ItemsDiffer
    /\ owner \in Hooks => declared[owner] = "sync" /\ run[owner] = "running"
    /\ \A k \in Closers : closer[k] \in {"idle", "clear", "super"}
                           => future[k] \in {"none", "value", "error"}

\* Before close() is called nothing of the harness is taken down, and what
\* start() waits for succeeds only with the agent subscribed.
Installs == \/ future[Agent] = "install"
            \/ Item("install", Agent) \in Range(commands)

Succeeds == \/ future[Agent] = "value"
            \/ Item("value", Agent) \in Range(commands)

UpUntilClose ==
    /\ start \in {"idle", "install"} => future[Agent] = "none"
    /\ start \in {"idle", "install"} \/ Installs
         => Agent \notin Range(handlers) /\ Range(handlers) \subseteq eager
    /\ start = "returned" => future[Agent] = "value"
    /\ NobodyCloses =>
         /\ ~closed
         /\ start = "returned" => attr
         /\ Succeeds => Agent \in Range(handlers)

\* A hook is begun once: those of an event that was not handled yet, or whose
\* stage they belong to did not come, have not been.
BegunOnce ==
    /\ \A h \in Hooks : declared[h] = "none" => run[h] = "none"
    /\ \A e \in BridgeEvents :
         /\ stage[e] = "new" => run[On(e)] = "none"
         /\ stage[e] \in {"new", "on"} => run[Decide(e)] = "none"
    /\ \A e \in RpcEvents \ Range(handled) : run[On(e)] = "none"

\* The hook of an event is over when the next event is read, and, as the reader
\* calls the agent first, when a prompt sees it that is not eager.
ReaderInOrder ==
    /\ Subscribed(handlers) /\ Subscribed(reader.todo)
    /\ \A p \in Range(handlers) \ {Agent} : prompts[p] = "waiting"
    /\ IsInjective(handled)
    /\ \A i \in DOMAIN handled : i < Len(handled) => ~Active(On(handled[i]))
    /\ reader.at \in {"call", "hook"} => handled # << >>
    /\ reader.at = "hook" => Agent \notin Range(reader.todo)
    /\ handled # << >> =>
         /\ reader.at = "read" => ~Active(On(Last(handled)))
         /\ reader.at = "call" /\ Agent \in Range(reader.todo)
              => run[On(Last(handled))] = "none"
         /\ reader.at = "call" /\ Agent \notin Range(reader.todo)
              => ~Active(On(Last(handled)))

HooksInOrder ==
    /\ TypeOK
    /\ QueueMatches
    /\ UpUntilClose
    /\ BegunOnce
    /\ ReaderInOrder
    /\ SubscribedWhileUp
    /\ InOrder

\* When prompt_and_wait() returns, the notification hooks of all the events
\* that it returns have ended, sync hooks on the owner thread included, whatever
\* close() does at the time (rpc.py:392-411, agent_class.py:93-104, 125-161).
\* For one that began before the agent was subscribed the hook of the last
\* event may still come: it sees each event before the agent does.
HooksBeforePromptReturns ==
    \A p \in Prompts :
      prompts[p] = "returned" =>
        \A e \in collected[p] :
          Active(On(e)) => p \in eager /\ e = Last(handled)

\* Every decision event is answered or cancelled, and the reader leaves every
\* hook, whatever close() does at the time (agent_class.py:199-231).
EventsEnd ==
    /\ \A e \in BridgeEvents :
         stage[e] \in {"on", "decide"} ~> stage[e] \in {"done", "cancelled"}
    /\ \A e \in RpcEvents :
         reader.at = "hook" /\ Last(handled) = e
           ~> ~(reader.at = "hook" /\ Last(handled) = e)
=============================================================================
