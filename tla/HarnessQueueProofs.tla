------------------------- MODULE HarnessQueueProofs -------------------------
(***************************************************************************)
(* Proofs about HarnessQueue, for every set of clients and hooks.          *)
(***************************************************************************)
EXTENDS HarnessQueue, TLAPS

-----------------------------------------------------------------------------
(* The queue as a sequence: what Append and Tail do to its members.        *)

\* x is somewhere in the queue q.
Has(q, x) == \E i \in 1..Len(q) : q[i] = x

\* Putting an item adds that item and nothing else (queue.put).
LEMMA HasAppend ==
  ASSUME NEW T, NEW q \in Seq(T), NEW e \in T, NEW x
  PROVE  Has(Append(q, e), x) <=> Has(q, x) \/ x = e
<1>1. /\ Len(Append(q, e)) = Len(q) + 1
      /\ \A i \in 1..Len(q) : Append(q, e)[i] = q[i]
      /\ Append(q, e)[Len(q) + 1] = e
      /\ Len(q) \in Nat
  OBVIOUS
<1> QED BY <1>1 DEF Has

\* Taking the head leaves the other items (queue.get).
LEMMA HasTail ==
  ASSUME NEW T, NEW q \in Seq(T), q # << >>, NEW x
  PROVE  Has(q, x) <=> x = Head(q) \/ Has(Tail(q), x)
<1>1. /\ Len(q) \in Nat \ {0}
      /\ Len(Tail(q)) = Len(q) - 1
      /\ \A i \in 1..(Len(q) - 1) : Tail(q)[i] = q[i + 1]
      /\ Head(q) = q[1]
  OBVIOUS
<1>2. ASSUME Has(q, x), x # Head(q) PROVE Has(Tail(q), x)
  <2>1. PICK i \in 1..Len(q) : q[i] = x
    BY <1>2 DEF Has
  <2>2. i - 1 \in 1..Len(Tail(q)) /\ Tail(q)[i - 1] = x
    BY <1>1, <1>2, <2>1
  <2> QED BY <2>2 DEF Has
<1>3. ASSUME Has(Tail(q), x) PROVE Has(q, x)
  <2>1. PICK i \in 1..Len(Tail(q)) : Tail(q)[i] = x
    BY <1>3 DEF Has
  <2>2. i + 1 \in 1..Len(q) /\ q[i + 1] = x
    BY <1>1, <2>1
  <2> QED BY <2>2 DEF Has
<1>4. Has(q, Head(q))
  BY <1>1 DEF Has
<1> QED BY <1>2, <1>3, <1>4

\* Every member of a queue is an item.
LEMMA HasTyped ==
  ASSUME NEW T, NEW q \in Seq(T), NEW x, Has(q, x)
  PROVE  x \in T
BY DEF Has

-----------------------------------------------------------------------------
(* Types.                                                                  *)

\* An item of the queue is what its kind says.
LEMMA ItemKinds ==
  ASSUME NEW x \in Items
  PROVE  /\ x.kind = "command" => x.of \in Clients /\ x = Command(x.of)
         /\ x.kind = "continuation" => x.of \in Clients /\ x = Continuation(x.of)
         /\ x.kind = "hookCall" => x.of \in Hooks /\ x = HookCall(x.of)
         /\ x.kind = "stop" => x = Stop
BY DEF Items, Command, Continuation, HookCall, Stop

\* Every step of every thread keeps the types.
LEMMA TypeStep == TypeOK /\ [Next]_vars => TypeOK'
<1> SUFFICES ASSUME TypeOK, [Next]_vars PROVE TypeOK'
  OBVIOUS
<1> USE DEF TypeOK, Done
<1>1. ASSUME NEW c \in Clients, BeginCall(c) PROVE TypeOK'
  BY <1>1 DEF BeginCall
<1>2. ASSUME NEW c \in Clients, BeginClose(c) PROVE TypeOK'
  BY <1>2 DEF BeginClose
<1>3. ASSUME NEW c \in Clients, CheckClosed(c) PROVE TypeOK'
  BY <1>3 DEF CheckClosed, Raise
<1>4. ASSUME NEW c \in Clients, StartOwnerThread(c) PROVE TypeOK'
  BY <1>4 DEF StartOwnerThread
<1>5. ASSUME NEW c \in Clients, Submit(c) PROVE TypeOK'
  <2>1. Command(c) \in Items
    BY DEF Items
  <2>2. commands' \in Seq(Items)
    BY <1>5, <2>1 DEF Submit
  <2> QED BY <1>5, <2>2 DEF Submit, Raise
<1>6. ASSUME NEW c \in Clients, CancelFuture(c) PROVE TypeOK'
  BY <1>6 DEF CancelFuture
<1>7. ASSUME NEW c \in Clients, AwaitResult(c) PROVE TypeOK'
  BY <1>7 DEF AwaitResult, Raise
<1>8. ASSUME NEW c \in Clients, SetClosedAndStop(c) PROVE TypeOK'
  <2>1. Stop \in Items
    BY DEF Items
  <2> QED BY <1>8, <2>1 DEF SetClosedAndStop
<1>9. ASSUME NEW c \in Clients, JoinOwner(c) PROVE TypeOK'
  BY <1>9 DEF JoinOwner
<1>10. ASSUME OwnerStep PROVE TypeOK'
  <2>0. ASSUME commands # << >>
        PROVE  Head(commands) \in Items /\ Tail(commands) \in Seq(Items)
    BY <2>0
  <2>1. CASE TakeStop
    BY <2>0, <2>1 DEF TakeStop, Takes
  <2>2. CASE TakeCommand
    BY <2>0, <2>2 DEF TakeCommand, Takes
  <2>3. CASE FinishOperation
    BY <2>3 DEF FinishOperation
  <2>4. CASE TakeContinuation
    <3>1. Head(commands).of \in Clients
      BY <2>0, <2>4, ItemKinds DEF TakeContinuation, Takes
    <3> QED BY <2>0, <2>4, <3>1 DEF TakeContinuation, Takes
  <2>5. CASE TakeHookCall
    BY <2>0, <2>5 DEF TakeHookCall, Takes
  <2>6. CASE HookBeginsClose
    BY <2>6 DEF HookBeginsClose
  <2>7. CASE HookEndsClose
    <3>1. Stop \in Items
      BY DEF Items
    <3>2. commands' \in Seq(Items)
      BY <2>7, <3>1 DEF HookEndsClose
    <3> QED BY <2>7, <3>2 DEF HookEndsClose
  <2>8. CASE ReturnFromHook
    BY <2>8 DEF ReturnFromHook
  <2>9. CASE SettleHook
    BY <2>9 DEF SettleHook
  <2> QED BY <1>10, <2>1, <2>2, <2>3, <2>4, <2>5, <2>6, <2>7, <2>8, <2>9
             DEF OwnerStep
<1>11. ASSUME NEW c \in Clients, CompleteLoopFuture(c) PROVE TypeOK'
  <2>1. Continuation(c) \in Items
    BY DEF Items
  <2>2. commands' \in Seq(Items)
    BY <1>11, <2>1 DEF CompleteLoopFuture
  <2> QED BY <1>11, <2>2 DEF CompleteLoopFuture
<1>12. ASSUME NEW h \in Hooks, DispatchSyncHook(h) PROVE TypeOK'
  <2>1. HookCall(h) \in Items
    BY DEF Items
  <2>2. commands' \in Seq(Items)
    BY <1>12, <2>1 DEF DispatchSyncHook
  <2> QED BY <1>12, <2>2 DEF DispatchSyncHook
<1>13. ASSUME NEW h \in Hooks, CancelHook(h) PROVE TypeOK'
  BY <1>13 DEF CancelHook
<1>14. CASE UNCHANGED vars
  BY <1>14 DEF vars
<1> HIDE DEF TypeOK, Done
<1>15. ASSUME NEW c \in Clients, ClientStep(c) PROVE TypeOK'
  BY <1>15, <1>1, <1>2, <1>3, <1>4, <1>5, <1>7, <1>8, <1>9 DEF ClientStep
<1>16. ASSUME LoopStep PROVE TypeOK'
  BY <1>16, <1>11, <1>12, <1>13 DEF LoopStep
<1> QED BY <1>6, <1>10, <1>14, <1>15, <1>16 DEF Next

\* The variables of the queue always have their types.
THEOREM TypeCorrect == Spec => []TypeOK
<1>1. Init => TypeOK
  <2>1. Stop \in Items
    BY DEF Items
  <2>2. << >> \in Seq(Items)
    OBVIOUS
  <2> QED BY <2>1, <2>2 DEF Init, TypeOK
<1> QED BY <1>1, TypeStep, PTL DEF Spec

-----------------------------------------------------------------------------
(* What a put and a get do to the queue's members and to its order.        *)

\* _commands.put: one item more, nothing behind a _STOP unless it is one.
LEMMA Put ==
  ASSUME TypeOK, NothingBehindStop, NEW e \in Items,
         commands' = Append(commands, e),
         e = Stop \/ ~closed,
         closed \/ e = Stop => closed'
  PROVE  /\ \A x : InQueue(x)' <=> InQueue(x) \/ x = e
         /\ \A x : x # e /\ Unique(commands, x) => Unique(commands, x)'
         /\ ~InQueue(e) => Unique(commands, e)'
         /\ NothingBehindStop'
<1>1. commands \in Seq(Items)
  BY DEF TypeOK
<1>2. /\ Len(commands') = Len(commands) + 1
      /\ \A i \in 1..Len(commands) : commands'[i] = commands[i]
      /\ commands'[Len(commands) + 1] = e
      /\ Len(commands) \in Nat
  BY <1>1
<1>3. ASSUME NEW x PROVE InQueue(x)' <=> InQueue(x) \/ x = e
  BY <1>1, HasAppend DEF InQueue, Has
<1>4. ASSUME NEW x, x # e, Unique(commands, x) PROVE Unique(commands, x)'
  BY <1>2, <1>4 DEF Unique
<1>5. ASSUME ~InQueue(e) PROVE Unique(commands, e)'
  BY <1>2, <1>5 DEF Unique, InQueue
<1>6. NothingBehindStop'
  <2>1. ASSUME NEW i \in 1..Len(commands'), commands'[i] = Stop PROVE closed'
    <3>1. CASE i \in 1..Len(commands)
      BY <1>2, <2>1, <3>1 DEF NothingBehindStop
    <3>2. CASE i = Len(commands) + 1
      BY <1>2, <2>1, <3>2
    <3> QED BY <1>2, <3>1, <3>2
  <2>2. ASSUME NEW i \in 1..Len(commands'), NEW j \in 1..Len(commands'),
               i < j, commands'[i] = Stop
        PROVE  commands'[j] = Stop
    <3>1. i \in 1..Len(commands) /\ commands[i] = Stop
      BY <1>2, <2>2
    <3>2. closed
      BY <3>1 DEF NothingBehindStop
    <3>3. CASE j \in 1..Len(commands)
      BY <1>2, <2>2, <3>1, <3>3 DEF NothingBehindStop
    <3>4. CASE j = Len(commands) + 1
      BY <1>2, <3>2, <3>4
    <3> QED BY <1>2, <3>3, <3>4
  <2> QED BY <2>1, <2>2 DEF NothingBehindStop
<1> QED BY <1>3, <1>4, <1>5, <1>6

\* _commands.get: the head goes, everything else stays in its order.
LEMMA Get ==
  ASSUME TypeOK, NothingBehindStop, commands # << >>,
         commands' = Tail(commands), closed' = closed
  PROVE  /\ Head(commands) \in Items
         /\ \A x : InQueue(x) <=> x = Head(commands) \/ InQueue(x)'
         /\ \A x : Unique(commands, x) => Unique(commands, x)'
         /\ \A x : x = Head(commands) /\ Unique(commands, x) => ~InQueue(x)'
         /\ Head(commands) = Stop =>
              closed /\ \A x : InQueue(x)' => x = Stop
         /\ NothingBehindStop'
<1>1. commands \in Seq(Items)
  BY DEF TypeOK
<1>2. /\ Len(commands) \in Nat \ {0}
      /\ Len(commands') = Len(commands) - 1
      /\ \A i \in 1..(Len(commands) - 1) : commands'[i] = commands[i + 1]
      /\ Head(commands) = commands[1]
      /\ Head(commands) \in Items
  BY <1>1
<1>3. ASSUME NEW x PROVE InQueue(x) <=> x = Head(commands) \/ InQueue(x)'
  BY <1>1, HasTail DEF InQueue, Has
<1>4. \A i \in 1..Len(commands') :
        i + 1 \in 1..Len(commands) /\ commands'[i] = commands[i + 1] /\ 1 < i + 1
  BY <1>2
<1>5. ASSUME NEW x, Unique(commands, x) PROVE Unique(commands, x)'
  <2> SUFFICES ASSUME NEW i \in 1..Len(commands'), NEW j \in 1..Len(commands'),
                      commands'[i] = x, commands'[j] = x
               PROVE  i = j
    BY DEF Unique
  <2>1. i + 1 = j + 1
    BY <1>4, <1>5 DEF Unique
  <2> QED BY <1>2, <2>1
<1>6. ASSUME NEW x, x = Head(commands), Unique(commands, x), InQueue(x)'
      PROVE  FALSE
  <2>1. PICK i \in 1..Len(commands') : commands'[i] = x
    BY <1>6 DEF InQueue
  <2>2. i + 1 \in 1..Len(commands) /\ commands[i + 1] = x /\ 1 < i + 1
    BY <1>4, <2>1
  <2>3. 1 \in 1..Len(commands) /\ commands[1] = x
    BY <1>2, <1>6
  <2>4. 1 = i + 1
    BY <1>6, <2>2, <2>3 DEF Unique
  <2> QED BY <2>2, <2>4
<1>7. ASSUME Head(commands) = Stop
      PROVE  closed /\ \A x : InQueue(x)' => x = Stop
  <2>1. closed
    BY <1>2, <1>7 DEF NothingBehindStop
  <2>2. ASSUME NEW i \in 1..Len(commands') PROVE commands'[i] = Stop
    BY <1>2, <1>4, <1>7 DEF NothingBehindStop
  <2> QED BY <2>1, <2>2 DEF InQueue
<1>8. NothingBehindStop'
  <2>1. ASSUME NEW i \in 1..Len(commands'), commands'[i] = Stop PROVE closed'
    BY <1>4, <2>1 DEF NothingBehindStop
  <2>2. ASSUME NEW i \in 1..Len(commands'), NEW j \in 1..Len(commands'),
               i < j, commands'[i] = Stop
        PROVE  commands'[j] = Stop
    <3>1. i + 1 < j + 1
      BY <1>2, <2>2
    <3> QED BY <1>4, <2>2, <3>1 DEF NothingBehindStop
  <2> QED BY <2>1, <2>2 DEF NothingBehindStop
<1> QED BY <1>2, <1>3, <1>5, <1>6, <1>7, <1>8

-----------------------------------------------------------------------------
(* The invariant, step by step.                                            *)

\* Items of different kinds, or of different owners, are different items.
LEMMA ItemsDiffer ==
  ASSUME NEW a, NEW b
  PROVE  /\ Command(a) # Continuation(b)
         /\ Command(a) # HookCall(b)
         /\ Continuation(a) # HookCall(b)
         /\ Command(a) = Command(b) => a = b
         /\ Continuation(a) = Continuation(b) => a = b
         /\ HookCall(a) = HookCall(b) => a = b
         /\ Command(a) # Stop /\ Continuation(a) # Stop /\ HookCall(a) # Stop
BY DEF Command, Continuation, HookCall, Stop

\* A step that leaves the queue and the owner's item alone.
LEMMA QueueKept ==
  ASSUME UNCHANGED commands
  PROVE  /\ \A x : InQueue(x)' <=> InQueue(x)
         /\ \A x : Unique(commands, x)' <=> Unique(commands, x)
BY DEF InQueue, Unique

\* Steps of a client that touch neither the queue nor a future.
LEMMA ClientWalks ==
  ASSUME TypeOK, QueueInv, NEW c \in Clients,
         BeginCall(c) \/ BeginClose(c) \/ CheckClosed(c) \/ StartOwnerThread(c)
         \/ AwaitResult(c) \/ JoinOwner(c)
  PROVE  QueueInv'
<1>1. UNCHANGED <<closed, commands, ownerItem, mainFuture, loopFuture, completion>>
  BY DEF BeginCall, BeginClose, CheckClosed, StartOwnerThread, AwaitResult, JoinOwner
<1>2. ownerAt' = ownerAt \/ (ownerAt = "none" /\ ownerAt' = "idle")
  BY DEF BeginCall, BeginClose, CheckClosed, StartOwnerThread, AwaitResult, JoinOwner
<1>3. \A d \in Clients : pc'[d] \in {"idle", "check", "submit"} =>
                          pc[d] \in {"idle", "check", "submit"}
  <2> USE DEF TypeOK
  <2>1. CASE BeginCall(c)
    BY <2>1 DEF BeginCall, CanBegin
  <2>2. CASE BeginClose(c)
    BY <2>2 DEF BeginClose, CanBegin
  <2>3. CASE CheckClosed(c)
    BY <2>3 DEF CheckClosed, Raise
  <2>4. CASE StartOwnerThread(c)
    BY <2>4 DEF StartOwnerThread
  <2>5. CASE AwaitResult(c)
    BY <2>5 DEF AwaitResult, Raise
  <2>6. CASE JoinOwner(c)
    BY <2>6 DEF JoinOwner
  <2> QED BY <2>1, <2>2, <2>3, <2>4, <2>5, <2>6
<1>4. /\ \A x : InQueue(x)' <=> InQueue(x)
      /\ \A x : Unique(commands, x)' <=> Unique(commands, x)
  BY <1>1, QueueKept
<1>5. NothingBehindStop'
  BY <1>1 DEF QueueInv, NothingBehindStop
<1>6. OwnerItemMatches'
  BY <1>1, <1>2 DEF QueueInv, OwnerItemMatches, InHook
<1>7. FuturesTracked'
  BY <1>1, <1>2, <1>4 DEF QueueInv, FuturesTracked, InHook
<1>8. ItemsTracked'
  BY <1>1, <1>3, <1>4 DEF QueueInv, ItemsTracked
<1>9. ExitIsFinal'
  BY <1>1, <1>2, <1>4 DEF QueueInv, ExitIsFinal
<1> QED BY <1>5, <1>6, <1>7, <1>8, <1>9 DEF QueueInv

\* submit() queues a call that was never queued before, on an open harness.
LEMMA SubmitKeeps ==
  ASSUME TypeOK, QueueInv, NEW c \in Clients, Submit(c)
  PROVE  QueueInv'
<1> USE DEF TypeOK
<1>1. UNCHANGED <<closed, ownerAt, ownerItem, loopFuture, completion>>
  BY DEF Submit
<1>2. \A d \in Clients : pc'[d] \in {"idle", "check", "submit"} =>
                          pc[d] \in {"idle", "check", "submit"} /\ d # c
  BY DEF Submit, Raise
<1>3. CASE closed
  <2>1. UNCHANGED <<commands, mainFuture>>
    BY <1>3 DEF Submit
  <2>2. /\ \A x : InQueue(x)' <=> InQueue(x)
        /\ \A x : Unique(commands, x)' <=> Unique(commands, x)
    BY <2>1, QueueKept
  <2>3. NothingBehindStop' /\ OwnerItemMatches'
    BY <1>1, <2>1 DEF QueueInv, NothingBehindStop, OwnerItemMatches, InHook
  <2>4. FuturesTracked' /\ ExitIsFinal'
    BY <1>1, <2>1, <2>2 DEF QueueInv, FuturesTracked, ExitIsFinal, InHook
  <2>5. ItemsTracked'
    BY <1>1, <1>2, <2>1, <2>2 DEF QueueInv, ItemsTracked
  <2> QED BY <2>3, <2>4, <2>5 DEF QueueInv
<1>4. CASE ~closed
  <2>1. /\ commands' = Append(commands, Command(c))
        /\ mainFuture' = [mainFuture EXCEPT ![c] = "pending"]
        /\ pc[c] = "submit"
    BY <1>4 DEF Submit
  <2>2. Command(c) \in Items
    BY DEF Items
  <2>3. /\ \A x : InQueue(x)' <=> InQueue(x) \/ x = Command(c)
        /\ \A x : x # Command(c) /\ Unique(commands, x) => Unique(commands, x)'
        /\ ~InQueue(Command(c)) => Unique(commands, Command(c))'
        /\ NothingBehindStop'
    BY <1>1, <1>4, <2>1, <2>2, Put, ItemsDiffer DEF QueueInv
  <2>4. mainFuture[c] = "none" /\ loopFuture[c] = "none" /\ ~InQueue(Command(c))
    BY <2>1 DEF QueueInv, ItemsTracked
  <2>5. OwnerItemMatches'
    BY <1>1, <2>1, <2>4 DEF QueueInv, OwnerItemMatches, InHook
  <2>6. FuturesTracked'
    BY <1>1, <2>1, <2>3 DEF QueueInv, FuturesTracked, InHook
  <2>7. ItemsTracked'
    <3> SUFFICES ASSUME NEW d \in Clients
                 PROVE  /\ pc'[d] \in {"idle", "check", "submit"} =>
                             mainFuture'[d] = "none" /\ loopFuture'[d] = "none"
                        /\ InQueue(Command(d))' =>
                             /\ mainFuture'[d] \in {"pending", "cancelled"}
                             /\ loopFuture'[d] = "none"
                        /\ InQueue(Continuation(d))' =>
                             loopFuture'[d] \in {"value", "error"}
                        /\ loopFuture'[d] = "pending" => mainFuture'[d] = "running"
                        /\ Unique(commands, Command(d))'
      BY DEF ItemsTracked
    <3>0. PICK x, y : x = Command(d) /\ y = Continuation(d)
      OBVIOUS
    <3>1. /\ x = Command(c) => d = c
          /\ InQueue(x)' => InQueue(x) \/ x = Command(c)
          /\ InQueue(y)' => InQueue(y)
          /\ x # Command(c) /\ Unique(commands, x) => Unique(commands, x)'
      <4>1. x = Command(c) => d = c
        BY <3>0, ItemsDiffer
      <4>2. InQueue(x)' => InQueue(x) \/ x = Command(c)
        BY <2>3
      <4>3. y # Command(c)
        BY <3>0, ItemsDiffer
      <4>4. InQueue(y)' => InQueue(y)
        BY <2>3, <4>3
      <4>5. x # Command(c) /\ Unique(commands, x) => Unique(commands, x)'
        BY <2>3
      <4> QED BY <4>1, <4>2, <4>4, <4>5
    <3>2. CASE d = c
      <4>1. mainFuture'[d] = "pending" /\ loopFuture'[d] = "none"
        BY <1>1, <2>1, <2>4, <3>2
      <4>2. ~InQueue(Continuation(d))'
        BY <2>4, <3>0, <3>1, <3>2 DEF QueueInv, ItemsTracked
      <4>3. Unique(commands, Command(d))'
        BY <2>3, <2>4, <3>2
      <4>4. pc'[d] \notin {"idle", "check", "submit"}
        BY <1>2, <3>2
      <4> QED BY <4>1, <4>2, <4>3, <4>4
    <3>3. CASE d # c
      <4>1. mainFuture'[d] = mainFuture[d] /\ loopFuture'[d] = loopFuture[d]
        BY <1>1, <2>1, <3>3
      <4> QED BY <1>2, <3>0, <3>1, <3>3, <4>1 DEF QueueInv, ItemsTracked
    <3> QED BY <3>2, <3>3
  <2>8. ExitIsFinal'
    BY <1>1, <1>4 DEF QueueInv, ExitIsFinal
  <2> QED BY <2>3, <2>5, <2>6, <2>7, <2>8 DEF QueueInv
<1> QED BY <1>3, <1>4

\* Only a future still pending can be cancelled.
LEMMA CancelFutureKeeps ==
  ASSUME TypeOK, QueueInv, NEW c \in Clients, CancelFuture(c)
  PROVE  QueueInv'
<1> USE DEF TypeOK
<1>1. /\ UNCHANGED <<closed, commands, ownerAt, ownerItem, pc, loopFuture, completion>>
      /\ mainFuture[c] = "pending"
      /\ pc[c] = "wait"
      /\ mainFuture' = [mainFuture EXCEPT ![c] = "cancelled"]
  BY DEF CancelFuture
<1>2. /\ \A x : InQueue(x)' <=> InQueue(x)
      /\ \A x : Unique(commands, x)' <=> Unique(commands, x)
  BY <1>1, QueueKept
<1>3. NothingBehindStop' /\ OwnerItemMatches'
  BY <1>1 DEF QueueInv, NothingBehindStop, OwnerItemMatches, InHook
<1>4. FuturesTracked' /\ ExitIsFinal'
  BY <1>1, <1>2 DEF QueueInv, FuturesTracked, ExitIsFinal, InHook
<1>5. ItemsTracked'
  BY <1>1, <1>2 DEF QueueInv, ItemsTracked
<1> QED BY <1>3, <1>4, <1>5 DEF QueueInv

\* Both ways to close: the finally block of close(), reached by a thread that
\* closes or by a hook on the owner thread.
LEMMA StopKeeps ==
  ASSUME TypeOK, QueueInv,
         commands' = Append(commands, Stop), closed' = TRUE,
         UNCHANGED <<ownerItem, mainFuture, loopFuture, completion>>,
         ownerAt' = ownerAt \/ (ownerAt = "hookClose" /\ ownerAt' = "hook"),
         \A d \in Clients : pc'[d] \in {"idle", "check", "submit"} =>
                            pc[d] \in {"idle", "check", "submit"}
  PROVE  QueueInv'
<1>1. Stop \in Items
  BY DEF Items
<1>2. /\ \A x : InQueue(x)' <=> InQueue(x) \/ x = Stop
      /\ \A x : x # Stop /\ Unique(commands, x) => Unique(commands, x)'
      /\ NothingBehindStop'
  BY <1>1, Put DEF QueueInv
<1>3. OwnerItemMatches'
  BY DEF QueueInv, OwnerItemMatches, InHook
<1>4. FuturesTracked' /\ ExitIsFinal'
  BY <1>2 DEF QueueInv, FuturesTracked, ExitIsFinal, InHook
<1>5. ItemsTracked'
  BY <1>2, ItemsDiffer DEF QueueInv, ItemsTracked
<1> QED BY <1>2, <1>3, <1>4, <1>5 DEF QueueInv

-----------------------------------------------------------------------------
(* The steps of the owner thread.                                          *)

\* A queue that lost its head to a get: what every Take step starts from.
LEMMA TakeFacts ==
  ASSUME TypeOK, QueueInv, NEW kind, Takes(kind), closed' = closed
  PROVE  /\ Head(commands) \in Items
         /\ Head(commands).kind = kind
         /\ \A x : InQueue(x) <=> x = Head(commands) \/ InQueue(x)'
         /\ \A x : Unique(commands, x) => Unique(commands, x)'
         /\ \A x : x = Head(commands) /\ Unique(commands, x) => ~InQueue(x)'
         /\ Head(commands) = Stop =>
              closed /\ \A x : InQueue(x)' => x = Stop
         /\ NothingBehindStop'
BY Get DEF Takes, QueueInv

\* The owner thread takes _STOP: everything else was taken before.
LEMMA TakeStopKeeps == TypeOK /\ QueueInv /\ TakeStop => QueueInv'
<1> SUFFICES ASSUME TypeOK, QueueInv, TakeStop PROVE QueueInv'
  OBVIOUS
<1>1. /\ Takes("stop")
      /\ ownerAt = "idle" /\ ownerAt' = "exited"
      /\ UNCHANGED <<closed, ownerItem, pc, mainFuture, loopFuture, completion>>
  BY DEF TakeStop, Takes
<1> DEFINE x0 == Head(commands)
<1>2. /\ x0 \in Items
      /\ x0.kind = "stop"
      /\ \A x : InQueue(x) <=> x = x0 \/ InQueue(x)'
      /\ \A x : Unique(commands, x) => Unique(commands, x)'
      /\ x0 = Stop => closed /\ \A x : InQueue(x)' => x = Stop
      /\ NothingBehindStop'
  BY <1>1, TakeFacts
<1>3. x0 = Stop
  BY <1>2, ItemKinds
<1> HIDE DEF x0
<1>4. OwnerItemMatches'
  BY <1>1 DEF OwnerItemMatches, InHook
<1>5. FuturesTracked'
  BY <1>1, <1>2, <1>3, ItemsDiffer DEF QueueInv, FuturesTracked, InHook
<1>6. ItemsTracked'
  BY <1>1, <1>2 DEF QueueInv, ItemsTracked
<1>7. ExitIsFinal'
  BY <1>1, <1>2, <1>3 DEF ExitIsFinal
<1> QED BY <1>2, <1>4, <1>5, <1>6, <1>7 DEF QueueInv

\* The owner thread takes a call: it skips a cancelled one, and the call it
\* runs is the only one it holds.
LEMMA TakeCommandKeeps == TypeOK /\ QueueInv /\ TakeCommand => QueueInv'
<1> SUFFICES ASSUME TypeOK, QueueInv, TakeCommand PROVE QueueInv'
  OBVIOUS
<1> USE DEF TypeOK
<1>1. /\ Takes("command")
      /\ ownerAt = "idle"
      /\ UNCHANGED <<closed, pc, loopFuture, completion>>
  BY DEF TakeCommand, Takes
<1>2. PICK x0 \in Items : x0 = Head(commands)
  BY <1>1, TakeFacts
<1>3. /\ x0.kind = "command"
      /\ \A x : InQueue(x) <=> x = x0 \/ InQueue(x)'
      /\ \A x : Unique(commands, x) => Unique(commands, x)'
      /\ \A x : x = x0 /\ Unique(commands, x) => ~InQueue(x)'
      /\ NothingBehindStop'
  BY <1>1, <1>2, TakeFacts
<1>4. PICK c \in Clients : c = x0.of /\ x0 = Command(c)
  BY <1>3, ItemKinds
<1>5. /\ mainFuture[c] \in {"pending", "cancelled"}
      /\ loopFuture[c] = "none"
      /\ ~InQueue(Command(c))'
  BY <1>3, <1>4 DEF QueueInv, ItemsTracked
<1>6. CASE mainFuture[c] = "cancelled"
  <2>1. UNCHANGED <<ownerAt, ownerItem, mainFuture>>
    BY <1>2, <1>4, <1>6 DEF TakeCommand
  <2>2. OwnerItemMatches'
    BY <1>1, <2>1 DEF OwnerItemMatches, InHook
  <2>3. FuturesTracked'
    <3>1. ASSUME NEW d \in Clients, mainFuture'[d] = "pending"
          PROVE  InQueue(Command(d))'
      <4>1. InQueue(Command(d)) /\ d # c
        BY <1>6, <2>1, <3>1 DEF QueueInv, FuturesTracked
      <4>2. Command(d) # x0
        BY <1>4, <4>1, ItemsDiffer
      <4> QED BY <1>3, <4>1, <4>2
    <3>2. ASSUME NEW d \in Clients, mainFuture'[d] = "running"
          PROVE  loopFuture'[d] = "pending" \/ InQueue(Continuation(d))'
      <4>1. loopFuture[d] = "pending" \/ InQueue(Continuation(d))
        BY <1>1, <2>1, <3>2 DEF QueueInv, FuturesTracked
      <4>2. Continuation(d) # x0
        BY <1>4, ItemsDiffer
      <4> QED BY <1>1, <1>3, <4>1, <4>2
    <3>3. ASSUME NEW h \in Hooks, completion'[h] = "pending"
          PROVE  InQueue(HookCall(h))'
      <4>1. InQueue(HookCall(h))
        BY <1>1, <3>3 DEF QueueInv, FuturesTracked, InHook
      <4>2. HookCall(h) # x0
        BY <1>4, ItemsDiffer
      <4> QED BY <1>3, <4>1, <4>2
    <3> QED BY <3>1, <3>2, <3>3 DEF FuturesTracked
  <2>4. ItemsTracked'
    BY <1>1, <1>3, <2>1 DEF QueueInv, ItemsTracked
  <2>5. ExitIsFinal'
    BY <1>1, <2>1 DEF ExitIsFinal
  <2> QED BY <1>3, <2>2, <2>3, <2>4, <2>5 DEF QueueInv
<1>7. CASE mainFuture[c] # "cancelled"
  <2>1. /\ mainFuture' = [mainFuture EXCEPT ![c] = "running"]
        /\ ownerAt' = "operation"
        /\ ownerItem' = Command(c)
    BY <1>2, <1>4, <1>7 DEF TakeCommand
  <2>2. OwnerItemMatches'
    BY <1>1, <1>5, <2>1 DEF OwnerItemMatches, InHook
  <2>3. FuturesTracked'
    <3>1. ASSUME NEW d \in Clients, mainFuture'[d] = "pending"
          PROVE  InQueue(Command(d))'
      <4>1. InQueue(Command(d)) /\ d # c
        BY <2>1, <3>1 DEF QueueInv, FuturesTracked
      <4>2. Command(d) # x0
        BY <1>4, <4>1, ItemsDiffer
      <4> QED BY <1>3, <4>1, <4>2
    <3>2. ASSUME NEW d \in Clients, mainFuture'[d] = "running", d # c
          PROVE  loopFuture'[d] = "pending" \/ InQueue(Continuation(d))'
      <4>1. loopFuture[d] = "pending" \/ InQueue(Continuation(d))
        BY <1>1, <2>1, <3>2 DEF QueueInv, FuturesTracked
      <4>2. Continuation(d) # x0
        BY <1>4, ItemsDiffer
      <4> QED BY <1>1, <1>3, <4>1, <4>2
    <3>3. ASSUME NEW h \in Hooks, completion'[h] = "pending"
          PROVE  InQueue(HookCall(h))'
      <4>1. InQueue(HookCall(h))
        BY <1>1, <3>3 DEF QueueInv, FuturesTracked, InHook
      <4>2. HookCall(h) # x0
        BY <1>4, ItemsDiffer
      <4> QED BY <1>3, <4>1, <4>2
    <3> QED BY <2>1, <3>1, <3>2, <3>3 DEF FuturesTracked
  <2>4. ItemsTracked'
    <3> SUFFICES ASSUME NEW d \in Clients
                 PROVE  /\ pc'[d] \in {"idle", "check", "submit"} =>
                             mainFuture'[d] = "none" /\ loopFuture'[d] = "none"
                        /\ InQueue(Command(d))' =>
                             /\ mainFuture'[d] \in {"pending", "cancelled"}
                             /\ loopFuture'[d] = "none"
                        /\ InQueue(Continuation(d))' =>
                             loopFuture'[d] \in {"value", "error"}
                        /\ loopFuture'[d] = "pending" => mainFuture'[d] = "running"
                        /\ Unique(commands, Command(d))'
      BY DEF ItemsTracked
    <3>1. CASE d = c
      BY <1>1, <1>3, <1>5, <2>1, <3>1 DEF QueueInv, ItemsTracked
    <3>2. CASE d # c
      BY <1>1, <1>3, <2>1, <3>2 DEF QueueInv, ItemsTracked
    <3> QED BY <3>1, <3>2
  <2>5. ExitIsFinal'
    BY <2>1 DEF ExitIsFinal
  <2> QED BY <1>3, <2>2, <2>3, <2>4, <2>5 DEF QueueInv
<1> QED BY <1>6, <1>7

\* An operation ends: its call is settled, or its loop future is pending.
LEMMA FinishOperationKeeps == TypeOK /\ QueueInv /\ FinishOperation => QueueInv'
<1> SUFFICES ASSUME TypeOK, QueueInv, FinishOperation PROVE QueueInv'
  OBVIOUS
<1> USE DEF TypeOK
<1>1. /\ ownerAt = "operation" /\ ownerAt' = "idle"
      /\ UNCHANGED <<closed, commands, ownerItem, pc, completion>>
  BY DEF FinishOperation
<1>2. PICK c \in Clients : /\ ownerItem = Command(c)
                           /\ mainFuture[c] = "running"
                           /\ loopFuture[c] = "none"
  BY <1>1 DEF QueueInv, OwnerItemMatches
<1>3. ownerItem.of = c
  BY <1>2 DEF Command
<1>4. /\ \A x : InQueue(x)' <=> InQueue(x)
      /\ \A x : Unique(commands, x)' <=> Unique(commands, x)
  BY <1>1, QueueKept
<1>5. /\ \A d \in Clients : d # c => mainFuture'[d] = mainFuture[d]
                                     /\ loopFuture'[d] = loopFuture[d]
      /\ \/ mainFuture'[c] \in {"value", "error"} /\ loopFuture'[c] = "none"
         \/ mainFuture'[c] = "running" /\ loopFuture'[c] = "pending"
  BY <1>2, <1>3 DEF FinishOperation
<1>6. NothingBehindStop' /\ OwnerItemMatches'
  BY <1>1 DEF QueueInv, NothingBehindStop, OwnerItemMatches, InHook
<1>7. FuturesTracked'
  <2>1. ASSUME NEW d \in Clients, mainFuture'[d] = "pending"
        PROVE  InQueue(Command(d))'
    BY <1>4, <1>5, <2>1 DEF QueueInv, FuturesTracked
  <2>2. ASSUME NEW d \in Clients, mainFuture'[d] = "running", d # c
        PROVE  loopFuture'[d] = "pending" \/ InQueue(Continuation(d))'
    <3>1. ownerItem # Command(d)
      BY <1>2, <2>2, ItemsDiffer
    <3> QED BY <1>4, <1>5, <2>2, <3>1 DEF QueueInv, FuturesTracked
  <2>3. ASSUME NEW h \in Hooks, completion'[h] = "pending"
        PROVE  InQueue(HookCall(h))'
    BY <1>1, <1>4, <2>3 DEF QueueInv, FuturesTracked, InHook
  <2> QED BY <1>5, <2>1, <2>2, <2>3 DEF FuturesTracked
<1>8. ItemsTracked'
  BY <1>1, <1>2, <1>4, <1>5 DEF QueueInv, ItemsTracked
<1>9. ExitIsFinal'
  BY <1>1 DEF ExitIsFinal
<1> QED BY <1>6, <1>7, <1>8, <1>9 DEF QueueInv

\* The owner thread takes a continuation: a future that is not done gets the
\* loop future's result, and the call is settled.
LEMMA TakeContinuationKeeps == TypeOK /\ QueueInv /\ TakeContinuation => QueueInv'
<1> SUFFICES ASSUME TypeOK, QueueInv, TakeContinuation PROVE QueueInv'
  OBVIOUS
<1> USE DEF TypeOK
<1>1. /\ Takes("continuation")
      /\ ownerAt = "idle"
      /\ UNCHANGED <<closed, ownerAt, ownerItem, pc, loopFuture, completion>>
  BY DEF TakeContinuation, Takes
<1>2. PICK x0 \in Items : x0 = Head(commands)
  BY <1>1, TakeFacts
<1>3. /\ x0.kind = "continuation"
      /\ \A x : InQueue(x) <=> x = x0 \/ InQueue(x)'
      /\ \A x : Unique(commands, x) => Unique(commands, x)'
      /\ NothingBehindStop'
  BY <1>1, <1>2, TakeFacts
<1>4. PICK c \in Clients : c = x0.of /\ x0 = Continuation(c)
  BY <1>3, ItemKinds
<1>5. loopFuture[c] \in {"value", "error"}
  BY <1>3, <1>4 DEF QueueInv, ItemsTracked
<1>6. /\ \A d \in Clients : d # c => mainFuture'[d] = mainFuture[d]
      /\ mainFuture'[c] \in Done
      /\ mainFuture[c] \in Done => mainFuture'[c] = mainFuture[c]
  BY <1>2, <1>4, <1>5 DEF TakeContinuation, Done
<1>7. OwnerItemMatches'
  BY <1>1 DEF OwnerItemMatches, InHook
<1>8. FuturesTracked'
  <2>1. ASSUME NEW d \in Clients, mainFuture'[d] = "pending"
        PROVE  InQueue(Command(d))'
    <3>1. InQueue(Command(d))
      BY <1>6, <2>1 DEF QueueInv, FuturesTracked, Done
    <3>2. Command(d) # x0
      BY <1>4, ItemsDiffer
    <3> QED BY <1>3, <3>1, <3>2
  <2>2. ASSUME NEW d \in Clients, mainFuture'[d] = "running"
        PROVE  loopFuture'[d] = "pending" \/ InQueue(Continuation(d))'
    <3>1. d # c
      BY <1>6, <2>2 DEF Done
    <3>2. loopFuture[d] = "pending" \/ InQueue(Continuation(d))
      BY <1>1, <1>6, <2>2, <3>1 DEF QueueInv, FuturesTracked
    <3>3. Continuation(d) # x0
      BY <1>4, <3>1, ItemsDiffer
    <3> QED BY <1>1, <1>3, <3>2, <3>3
  <2>3. ASSUME NEW h \in Hooks, completion'[h] = "pending"
        PROVE  InQueue(HookCall(h))'
    <3>1. InQueue(HookCall(h))
      BY <1>1, <2>3 DEF QueueInv, FuturesTracked, InHook
    <3>2. HookCall(h) # x0
      BY <1>4, ItemsDiffer
    <3> QED BY <1>3, <3>1, <3>2
  <2> QED BY <2>1, <2>2, <2>3 DEF FuturesTracked
<1>9. ItemsTracked'
  <2> SUFFICES ASSUME NEW d \in Clients
               PROVE  /\ pc'[d] \in {"idle", "check", "submit"} =>
                           mainFuture'[d] = "none" /\ loopFuture'[d] = "none"
                      /\ InQueue(Command(d))' =>
                           /\ mainFuture'[d] \in {"pending", "cancelled"}
                           /\ loopFuture'[d] = "none"
                      /\ InQueue(Continuation(d))' =>
                           loopFuture'[d] \in {"value", "error"}
                      /\ loopFuture'[d] = "pending" => mainFuture'[d] = "running"
                      /\ Unique(commands, Command(d))'
    BY DEF ItemsTracked
  <2>1. CASE d = c
    <3>1. pc'[d] \notin {"idle", "check", "submit"} /\ ~InQueue(Command(d))'
      BY <1>1, <1>3, <1>5, <2>1 DEF QueueInv, ItemsTracked
    <3> QED BY <1>1, <1>3, <1>5, <2>1, <3>1 DEF QueueInv, ItemsTracked
  <2>2. CASE d # c
    BY <1>1, <1>3, <1>6, <2>2 DEF QueueInv, ItemsTracked
  <2> QED BY <2>1, <2>2
<1>10. ExitIsFinal'
  BY <1>1 DEF ExitIsFinal
<1> QED BY <1>3, <1>7, <1>8, <1>9, <1>10 DEF QueueInv

\* The owner thread takes a hook call and holds it until it is completed.
LEMMA TakeHookCallKeeps == TypeOK /\ QueueInv /\ TakeHookCall => QueueInv'
<1> SUFFICES ASSUME TypeOK, QueueInv, TakeHookCall PROVE QueueInv'
  OBVIOUS
<1> USE DEF TypeOK
<1>1. /\ Takes("hookCall")
      /\ ownerAt = "idle" /\ ownerAt' = "hook"
      /\ ownerItem' = Head(commands)
      /\ UNCHANGED <<closed, pc, mainFuture, loopFuture, completion>>
  BY DEF TakeHookCall, Takes
<1>2. PICK x0 \in Items : x0 = Head(commands)
  BY <1>1, TakeFacts
<1>3. /\ x0.kind = "hookCall"
      /\ \A x : InQueue(x) <=> x = x0 \/ InQueue(x)'
      /\ \A x : Unique(commands, x) => Unique(commands, x)'
      /\ NothingBehindStop'
  BY <1>1, <1>2, TakeFacts
<1>4. PICK g \in Hooks : x0 = HookCall(g)
  BY <1>3, ItemKinds
<1>5. OwnerItemMatches'
  BY <1>1, <1>2, <1>4 DEF OwnerItemMatches, InHook
<1>6. FuturesTracked'
  <2>1. ASSUME NEW d \in Clients, mainFuture'[d] = "pending"
        PROVE  InQueue(Command(d))'
    <3>1. Command(d) # x0
      BY <1>4, ItemsDiffer
    <3> QED BY <1>1, <1>3, <2>1, <3>1 DEF QueueInv, FuturesTracked
  <2>2. ASSUME NEW d \in Clients, mainFuture'[d] = "running"
        PROVE  loopFuture'[d] = "pending" \/ InQueue(Continuation(d))'
    <3>1. Continuation(d) # x0
      BY <1>4, ItemsDiffer
    <3> QED BY <1>1, <1>3, <2>2, <3>1 DEF QueueInv, FuturesTracked
  <2>3. ASSUME NEW h \in Hooks, completion'[h] = "pending"
        PROVE  InQueue(HookCall(h))' \/ (InHook' /\ ownerItem' = HookCall(h))
    <3>1. InQueue(HookCall(h))
      BY <1>1, <2>3 DEF QueueInv, FuturesTracked, InHook
    <3>2. InHook'
      BY <1>1 DEF InHook
    <3> QED BY <1>1, <1>2, <1>3, <3>1, <3>2
  <2> QED BY <2>1, <2>2, <2>3 DEF FuturesTracked
<1>7. ItemsTracked'
  BY <1>1, <1>3 DEF QueueInv, ItemsTracked
<1>8. ExitIsFinal'
  BY <1>1 DEF ExitIsFinal
<1> QED BY <1>3, <1>5, <1>6, <1>7, <1>8 DEF QueueInv

\* Steps inside a hook call: only the last completes the hook, and with it
\* the owner thread lets the hook go.
LEMMA InHookKeeps ==
  ASSUME TypeOK, QueueInv,
         HookBeginsClose \/ ReturnFromHook \/ SettleHook
  PROVE  QueueInv'
<1> USE DEF TypeOK
<1>1. /\ InHook
      /\ UNCHANGED <<closed, commands, ownerItem, pc, mainFuture, loopFuture>>
      /\ ownerAt # "exited" /\ ownerAt' # "exited"
      /\ ownerAt' # "operation"
  BY DEF HookBeginsClose, ReturnFromHook, SettleHook, InHook
<1>2. PICK g \in Hooks : ownerItem = HookCall(g)
  BY <1>1 DEF QueueInv, OwnerItemMatches
<1>3. ownerItem.of = g
  BY <1>2 DEF HookCall
<1>4. /\ \A h \in Hooks : h # g => completion'[h] = completion[h]
      /\ completion'[g] = "pending" => InHook'
  BY <1>1, <1>3 DEF HookBeginsClose, ReturnFromHook, SettleHook, InHook, Done
<1>5. /\ \A x : InQueue(x)' <=> InQueue(x)
      /\ \A x : Unique(commands, x)' <=> Unique(commands, x)
  BY <1>1, QueueKept
<1>6. NothingBehindStop' /\ OwnerItemMatches'
  BY <1>1, <1>2 DEF QueueInv, NothingBehindStop, OwnerItemMatches
<1>7. FuturesTracked'
  <2>1. ASSUME NEW d \in Clients, mainFuture'[d] = "pending"
        PROVE  InQueue(Command(d))'
    BY <1>1, <1>5, <2>1 DEF QueueInv, FuturesTracked
  <2>2. ASSUME NEW d \in Clients, mainFuture'[d] = "running"
        PROVE  loopFuture'[d] = "pending" \/ InQueue(Continuation(d))'
    BY <1>1, <1>5, <2>2 DEF QueueInv, FuturesTracked, InHook
  <2>3. ASSUME NEW h \in Hooks, completion'[h] = "pending"
        PROVE  InQueue(HookCall(h))' \/ (InHook' /\ ownerItem' = HookCall(h))
    <3>1. CASE h = g
      BY <1>1, <1>2, <1>4, <2>3, <3>1
    <3>2. CASE h # g
      <4>1. ownerItem # HookCall(h)
        BY <1>2, <3>2, ItemsDiffer
      <4> QED BY <1>4, <1>5, <2>3, <3>2, <4>1 DEF QueueInv, FuturesTracked
    <3> QED BY <3>1, <3>2
  <2> QED BY <2>1, <2>2, <2>3 DEF FuturesTracked
<1>8. ItemsTracked'
  BY <1>1, <1>5 DEF QueueInv, ItemsTracked
<1>9. ExitIsFinal'
  BY <1>1 DEF ExitIsFinal
<1> QED BY <1>6, <1>7, <1>8, <1>9 DEF QueueInv

-----------------------------------------------------------------------------
(* The steps of the loop thread.                                           *)

\* A loop future completes: on an open harness its continuation is queued, on
\* a closed one the call is failed at once.
LEMMA CompleteLoopFutureKeeps ==
  ASSUME TypeOK, QueueInv, NEW c \in Clients, CompleteLoopFuture(c)
  PROVE  QueueInv'
<1> USE DEF TypeOK
<1>1. /\ UNCHANGED <<closed, ownerAt, ownerItem, pc, completion>>
      /\ loopFuture[c] = "pending"
      /\ loopFuture'[c] \in {"value", "error"}
      /\ \A d \in Clients : d # c => loopFuture'[d] = loopFuture[d]
  BY DEF CompleteLoopFuture
<1>2. mainFuture[c] = "running"
  BY <1>1 DEF QueueInv, ItemsTracked
<1>3. pc[c] \notin {"idle", "check", "submit"} /\ ~InQueue(Command(c))
  BY <1>1 DEF QueueInv, ItemsTracked
<1>4. OwnerItemMatches'
  <2>1. ASSUME ownerAt' = "operation"
        PROVE  \E d \in Clients : /\ ownerItem' = Command(d)
                                  /\ mainFuture'[d] = "running"
                                  /\ loopFuture'[d] = "none"
    <3>1. PICK d \in Clients : /\ ownerItem = Command(d)
                               /\ mainFuture[d] = "running"
                               /\ loopFuture[d] = "none"
      BY <1>1, <2>1 DEF QueueInv, OwnerItemMatches
    <3>2. d # c
      BY <1>1, <3>1
    <3>3. mainFuture'[d] = mainFuture[d]
      BY <3>2 DEF CompleteLoopFuture
    <3> QED BY <1>1, <3>1, <3>2, <3>3
  <2>2. InHook' => \E h \in Hooks : ownerItem' = HookCall(h)
    BY <1>1 DEF QueueInv, OwnerItemMatches, InHook
  <2> QED BY <2>1, <2>2 DEF OwnerItemMatches
<1>5. CASE closed
  <2>1. /\ UNCHANGED commands
        /\ mainFuture' = [mainFuture EXCEPT ![c] = "undelivered"]
    BY <1>2, <1>5 DEF CompleteLoopFuture, Done
  <2>2. /\ \A x : InQueue(x)' <=> InQueue(x)
        /\ \A x : Unique(commands, x)' <=> Unique(commands, x)
    BY <2>1, QueueKept
  <2>3. NothingBehindStop'
    BY <1>1, <2>1 DEF QueueInv, NothingBehindStop
  <2>4. FuturesTracked'
    BY <1>1, <2>1, <2>2 DEF QueueInv, FuturesTracked, InHook
  <2>5. ItemsTracked'
    BY <1>1, <1>3, <2>1, <2>2 DEF QueueInv, ItemsTracked
  <2>6. ExitIsFinal'
    BY <1>1, <2>2 DEF QueueInv, ExitIsFinal
  <2> QED BY <1>4, <2>3, <2>4, <2>5, <2>6 DEF QueueInv
<1>6. CASE ~closed
  <2>1. /\ commands' = Append(commands, Continuation(c))
        /\ UNCHANGED mainFuture
    BY <1>6 DEF CompleteLoopFuture
  <2>2. Continuation(c) \in Items /\ Continuation(c) # Stop
    BY ItemsDiffer DEF Items
  <2>3. /\ \A x : InQueue(x)' <=> InQueue(x) \/ x = Continuation(c)
        /\ \A x : x # Continuation(c) /\ Unique(commands, x) => Unique(commands, x)'
        /\ NothingBehindStop'
    BY <1>1, <1>6, <2>1, <2>2, Put DEF QueueInv
  <2>4. FuturesTracked'
    BY <1>1, <2>1, <2>3 DEF QueueInv, FuturesTracked, InHook
  <2>5. ItemsTracked'
    <3> SUFFICES ASSUME NEW d \in Clients
                 PROVE  /\ pc'[d] \in {"idle", "check", "submit"} =>
                             mainFuture'[d] = "none" /\ loopFuture'[d] = "none"
                        /\ InQueue(Command(d))' =>
                             /\ mainFuture'[d] \in {"pending", "cancelled"}
                             /\ loopFuture'[d] = "none"
                        /\ InQueue(Continuation(d))' =>
                             loopFuture'[d] \in {"value", "error"}
                        /\ loopFuture'[d] = "pending" => mainFuture'[d] = "running"
                        /\ Unique(commands, Command(d))'
      BY DEF ItemsTracked
    <3>1. Command(d) # Continuation(c)
      BY ItemsDiffer
    <3>2. (InQueue(Command(d))' => InQueue(Command(d))) /\ Unique(commands, Command(d))'
      BY <2>3, <3>1 DEF QueueInv, ItemsTracked
    <3>3. CASE d = c
      BY <1>1, <1>3, <3>2, <3>3
    <3>4. CASE d # c
      <4>1. Continuation(d) # Continuation(c)
        BY <3>4, ItemsDiffer
      <4>2. InQueue(Continuation(d))' => InQueue(Continuation(d))
        BY <2>3, <4>1
      <4> QED BY <1>1, <2>1, <3>2, <3>4, <4>2 DEF QueueInv, ItemsTracked
    <3> QED BY <3>3, <3>4
  <2>6. ExitIsFinal'
    BY <1>1, <1>6 DEF QueueInv, ExitIsFinal
  <2> QED BY <1>4, <2>3, <2>4, <2>5, <2>6 DEF QueueInv
<1> QED BY <1>5, <1>6

\* A hook is dispatched: on an open harness it is queued, and on a closed one
\* its completion is refused and never pending.
LEMMA DispatchSyncHookKeeps ==
  ASSUME TypeOK, QueueInv, NEW g \in Hooks, DispatchSyncHook(g)
  PROVE  QueueInv'
<1> USE DEF TypeOK
<1>1. /\ UNCHANGED <<closed, ownerAt, ownerItem, pc, mainFuture, loopFuture>>
      /\ \A h \in Hooks : h # g => completion'[h] = completion[h]
  BY DEF DispatchSyncHook
<1>2. OwnerItemMatches'
  BY <1>1 DEF QueueInv, OwnerItemMatches, InHook
<1>3. CASE closed
  <2>1. UNCHANGED commands /\ completion'[g] = "refused"
    BY <1>3 DEF DispatchSyncHook
  <2>2. /\ \A x : InQueue(x)' <=> InQueue(x)
        /\ \A x : Unique(commands, x)' <=> Unique(commands, x)
    BY <2>1, QueueKept
  <2>3. NothingBehindStop'
    BY <1>1, <2>1 DEF QueueInv, NothingBehindStop
  <2>4. FuturesTracked'
    BY <1>1, <2>1, <2>2 DEF QueueInv, FuturesTracked, InHook
  <2>5. ItemsTracked' /\ ExitIsFinal'
    BY <1>1, <2>2 DEF QueueInv, ItemsTracked, ExitIsFinal
  <2> QED BY <1>2, <2>3, <2>4, <2>5 DEF QueueInv
<1>4. CASE ~closed
  <2>1. commands' = Append(commands, HookCall(g))
    BY <1>4 DEF DispatchSyncHook
  <2>2. HookCall(g) \in Items /\ HookCall(g) # Stop
    BY ItemsDiffer DEF Items
  <2>3. /\ \A x : InQueue(x)' <=> InQueue(x) \/ x = HookCall(g)
        /\ \A x : x # HookCall(g) /\ Unique(commands, x) => Unique(commands, x)'
        /\ NothingBehindStop'
    BY <1>1, <1>4, <2>1, <2>2, Put DEF QueueInv
  <2>4. FuturesTracked'
    <3>1. ASSUME NEW h \in Hooks, completion'[h] = "pending"
          PROVE  InQueue(HookCall(h))' \/ (InHook' /\ ownerItem' = HookCall(h))
      BY <1>1, <2>3, <3>1 DEF QueueInv, FuturesTracked, InHook
    <3> QED BY <1>1, <2>3, <3>1 DEF QueueInv, FuturesTracked
  <2>5. ItemsTracked'
    <3>1. ASSUME NEW d \in Clients
          PROVE  Command(d) # HookCall(g) /\ Continuation(d) # HookCall(g)
      BY ItemsDiffer
    <3> QED BY <1>1, <2>3, <3>1 DEF QueueInv, ItemsTracked
  <2>6. ExitIsFinal'
    BY <1>1, <1>4 DEF QueueInv, ExitIsFinal
  <2> QED BY <1>2, <2>3, <2>4, <2>5, <2>6 DEF QueueInv
<1> QED BY <1>3, <1>4

\* A cancelled hook needs nobody any more.
LEMMA CancelHookKeeps ==
  ASSUME TypeOK, QueueInv, NEW g \in Hooks, CancelHook(g)
  PROVE  QueueInv'
<1> USE DEF TypeOK
<1>1. /\ UNCHANGED <<closed, commands, ownerAt, ownerItem, pc, mainFuture, loopFuture>>
      /\ \A h \in Hooks : h # g => completion'[h] = completion[h]
      /\ completion'[g] = "cancelled"
  BY DEF CancelHook
<1>2. /\ \A x : InQueue(x)' <=> InQueue(x)
      /\ \A x : Unique(commands, x)' <=> Unique(commands, x)
  BY <1>1, QueueKept
<1>3. NothingBehindStop' /\ OwnerItemMatches'
  BY <1>1 DEF QueueInv, NothingBehindStop, OwnerItemMatches, InHook
<1>4. FuturesTracked'
  <2>1. ASSUME NEW h \in Hooks, completion'[h] = "pending"
        PROVE  InQueue(HookCall(h))' \/ (InHook' /\ ownerItem' = HookCall(h))
    BY <1>1, <1>2, <2>1 DEF QueueInv, FuturesTracked, InHook
  <2> QED BY <1>1, <1>2, <2>1 DEF QueueInv, FuturesTracked
<1>5. ItemsTracked' /\ ExitIsFinal'
  BY <1>1, <1>2 DEF QueueInv, ItemsTracked, ExitIsFinal
<1> QED BY <1>3, <1>4, <1>5 DEF QueueInv

-----------------------------------------------------------------------------
(* The theorems.                                                           *)

\* Every step of every thread keeps the inductive invariant.
LEMMA QueueStep == TypeOK /\ QueueInv /\ [Next]_vars => QueueInv'
<1> SUFFICES ASSUME TypeOK, QueueInv, [Next]_vars PROVE QueueInv'
  OBVIOUS
<1>1. ASSUME NEW c \in Clients, ClientStep(c) PROVE QueueInv'
  <2>1. CASE SetClosedAndStop(c)
    <3>1. \A d \in Clients : pc'[d] \in {"idle", "check", "submit"} =>
                             pc[d] \in {"idle", "check", "submit"}
      BY <2>1 DEF SetClosedAndStop, TypeOK
    <3> QED BY <2>1, <3>1, StopKeeps DEF SetClosedAndStop
  <2> QED BY <1>1, <2>1, ClientWalks, SubmitKeeps DEF ClientStep
<1>2. ASSUME NEW c \in Clients, CancelFuture(c) PROVE QueueInv'
  BY <1>2, CancelFutureKeeps
<1>3. ASSUME OwnerStep PROVE QueueInv'
  <2>1. CASE HookEndsClose
    BY <2>1, StopKeeps DEF HookEndsClose
  <2> QED BY <1>3, <2>1, TakeStopKeeps, TakeCommandKeeps, FinishOperationKeeps,
             TakeContinuationKeeps, TakeHookCallKeeps, InHookKeeps DEF OwnerStep
<1>4. ASSUME LoopStep PROVE QueueInv'
  BY <1>4, CompleteLoopFutureKeeps, DispatchSyncHookKeeps, CancelHookKeeps
     DEF LoopStep
<1>5. CASE UNCHANGED vars
  <2>1. /\ \A x : InQueue(x)' <=> InQueue(x)
        /\ \A x : Unique(commands, x)' <=> Unique(commands, x)
    BY <1>5, QueueKept DEF vars
  <2>2. NothingBehindStop' /\ OwnerItemMatches'
    BY <1>5 DEF vars, QueueInv, NothingBehindStop, OwnerItemMatches, InHook
  <2>3. FuturesTracked' /\ ItemsTracked' /\ ExitIsFinal'
    BY <1>5, <2>1 DEF vars, QueueInv, FuturesTracked, ItemsTracked, ExitIsFinal,
                      InHook
  <2> QED BY <2>2, <2>3 DEF QueueInv
<1> QED BY <1>1, <1>2, <1>3, <1>4, <1>5 DEF Next

\* Where every unsettled future is kept: the promise the queue is built on.
THEOREM QueueCorrect == Spec => []QueueInv
<1>1. Init => QueueInv
  BY DEF Init, QueueInv, NothingBehindStop, OwnerItemMatches, FuturesTracked,
         ItemsTracked, ExitIsFinal, InHook, InQueue, Unique
<1> QED BY <1>1, TypeCorrect, QueueStep, PTL DEF Spec

\* Nothing is ever queued behind _STOP, and _STOP means closed.
THEOREM StopIsLast == Spec => []NothingBehindStop
<1>1. QueueInv => NothingBehindStop
  BY DEF QueueInv
<1> QED BY <1>1, QueueCorrect, PTL

\* An owner thread that exited leaves no future depending on the queue.
THEOREM ExitStrandsNothing == Spec => []NothingStranded
<1>1. QueueInv => NothingStranded
  <2> SUFFICES ASSUME QueueInv, ownerAt = "exited"
               PROVE  /\ \A c \in Clients :
                           /\ mainFuture[c] # "pending"
                           /\ mainFuture[c] = "running" => loopFuture[c] = "pending"
                      /\ \A h \in Hooks : completion[h] # "pending"
    BY DEF NothingStranded
  <2>1. ASSUME NEW c \in Clients
        PROVE  ~InQueue(Command(c)) /\ ~InQueue(Continuation(c))
    <3>1. Command(c) \in Items /\ Continuation(c) \in Items
      BY DEF Items
    <3> QED BY <3>1, ItemsDiffer DEF QueueInv, ExitIsFinal
  <2>2. ASSUME NEW h \in Hooks PROVE ~InQueue(HookCall(h))
    <3>1. HookCall(h) \in Items
      BY DEF Items
    <3> QED BY <3>1, ItemsDiffer DEF QueueInv, ExitIsFinal
  <2> QED BY <2>1, <2>2 DEF QueueInv, FuturesTracked, InHook
<1> QED BY <1>1, QueueCorrect, PTL

\* Without hooks that close the harness, every step keeps what ties the end
\* of close() to core.close().
LEMMA CoreCloseStep ==
  ASSUME ClosingHooks = {}, TypeOK, QueueInv, CoreCloseInv, [Next]_vars
  PROVE  CoreCloseInv'
<1> USE DEF TypeOK
<1> DEFINE Reached(k) == \/ loopFuture[k] # "none"
                         \/ mainFuture[k] \in Done
                         \/ pc[k] \in {"finally", "join"}
<1>1. /\ closed => coreClosed
      /\ ownerAt # "hookClose"
      /\ \A c \in Clients : pc[c] \in {"finally", "join"} => c \in Closers
      /\ \A k \in Closers : Reached(k) => coreClosed
  BY DEF CoreCloseInv, ClosedAfterCoreClose
<1> DEFINE Goal == /\ closed' => coreClosed'
                   /\ ownerAt' # "hookClose"
                   /\ \A c \in Clients :
                        pc'[c] \in {"finally", "join"} => c \in Closers
                   /\ \A k \in Closers :
                        (\/ loopFuture'[k] # "none"
                         \/ mainFuture'[k] \in Done
                         \/ pc'[k] \in {"finally", "join"}) => coreClosed'
<1> SUFFICES Goal
  BY DEF CoreCloseInv, ClosedAfterCoreClose
<1> Closers \subseteq Clients
  BY DEF Clients
<1>2. ASSUME NEW c \in Clients,
             \/ BeginCall(c) \/ BeginClose(c) \/ CheckClosed(c)
             \/ StartOwnerThread(c) \/ Submit(c) \/ CancelFuture(c)
             \/ AwaitResult(c) \/ SetClosedAndStop(c) \/ JoinOwner(c)
      PROVE  Goal
  <2>1. /\ UNCHANGED <<loopFuture, coreClosed>>
        /\ ownerAt' # "hookClose"
        /\ \A d \in Clients : d # c => pc'[d] = pc[d] /\ mainFuture'[d] = mainFuture[d]
    BY <1>1, <1>2 DEF BeginCall, BeginClose, CheckClosed, StartOwnerThread, Submit,
       CancelFuture, AwaitResult, SetClosedAndStop, JoinOwner, Raise
  <2>2. closed' => coreClosed'
    BY <1>1, <1>2, <2>1 DEF BeginCall, BeginClose, CheckClosed, StartOwnerThread,
       Submit, CancelFuture, AwaitResult, SetClosedAndStop, JoinOwner
  <2>3. pc'[c] \in {"finally", "join"} => c \in Closers /\ coreClosed
    <3>1. CASE CheckClosed(c)
      BY <1>1, <3>1 DEF CheckClosed, Raise
    <3>2. CASE Submit(c)
      BY <1>1, <3>2 DEF Submit, Raise
    <3>3. CASE AwaitResult(c)
      BY <1>1, <3>3 DEF AwaitResult, Raise
    <3>4. CASE SetClosedAndStop(c)
      BY <1>1, <3>4 DEF SetClosedAndStop
    <3>5. CASE BeginCall(c) \/ BeginClose(c) \/ JoinOwner(c)
      BY <3>5 DEF BeginCall, BeginClose, JoinOwner
    <3>6. CASE StartOwnerThread(c) \/ CancelFuture(c)
      BY <1>1, <3>6 DEF StartOwnerThread, CancelFuture
    <3> QED BY <1>2, <3>1, <3>2, <3>3, <3>4, <3>5, <3>6
  <2>4. c \in Closers /\ mainFuture'[c] \in Done => coreClosed
    <3>1. CASE Submit(c)
      BY <1>1, <3>1 DEF Submit, Done
    <3>2. CASE CancelFuture(c)
      BY <3>2, ClientsAssumption DEF CancelFuture
    <3>3. CASE ~Submit(c) /\ ~CancelFuture(c)
      <4>1. UNCHANGED mainFuture
        BY <1>2, <3>3 DEF BeginCall, BeginClose, CheckClosed, StartOwnerThread,
           AwaitResult, SetClosedAndStop, JoinOwner
      <4> QED BY <1>1, <4>1
    <3> QED BY <3>1, <3>2, <3>3
  <2> QED BY <1>1, <2>1, <2>2, <2>3, <2>4
<1>3. ASSUME OwnerStep PROVE Goal
  <2>1. UNCHANGED pc
    BY <1>3 DEF OwnerStep, TakeStop, TakeCommand, FinishOperation, TakeContinuation,
       TakeHookCall, HookBeginsClose, HookEndsClose, ReturnFromHook, SettleHook
  <2>2. UNCHANGED closed /\ ownerAt' # "hookClose"
    BY <1>1, <1>3 DEF OwnerStep, TakeStop, TakeCommand, FinishOperation,
       TakeContinuation, TakeHookCall, HookBeginsClose, HookEndsClose,
       ReturnFromHook, SettleHook
  <2>3. CASE FinishOperation
    <3>1. PICK c \in Clients : ownerItem = Command(c)
      BY <2>3 DEF FinishOperation, QueueInv, OwnerItemMatches
    <3>2. ownerItem.of = c
      BY <3>1 DEF Command
    <3>3. /\ coreClosed' = (coreClosed \/ c \in Closers)
          /\ \A d \in Clients : d # c => mainFuture'[d] = mainFuture[d]
                                       /\ loopFuture'[d] = loopFuture[d]
      BY <2>3, <3>2 DEF FinishOperation
    <3> QED BY <1>1, <2>1, <2>2, <3>3
  <2>4. CASE TakeCommand
    <3>1. /\ UNCHANGED <<loopFuture, coreClosed>>
          /\ \A d \in Clients : mainFuture'[d] = mainFuture[d]
                                \/ mainFuture'[d] = "running"
      BY <2>4 DEF TakeCommand
    <3> QED BY <1>1, <2>1, <2>2, <3>1 DEF Done
  <2>5. CASE TakeContinuation
    <3>1. Takes("continuation") /\ UNCHANGED <<closed, loopFuture, coreClosed>>
      BY <2>5 DEF TakeContinuation
    <3>2. PICK x0 \in Items : x0 = Head(commands)
      BY <3>1, TakeFacts
    <3>3. x0.kind = "continuation" /\ InQueue(x0)
      BY <3>1, <3>2, TakeFacts
    <3>4. PICK c \in Clients : c = x0.of /\ x0 = Continuation(c)
      BY <3>3, ItemKinds
    <3>5. loopFuture[c] # "none"
      BY <3>3, <3>4 DEF QueueInv, ItemsTracked
    <3>6. \A d \in Clients : d # c => mainFuture'[d] = mainFuture[d]
      BY <2>5, <3>2, <3>4 DEF TakeContinuation
    <3> QED BY <1>1, <2>1, <2>2, <3>1, <3>5, <3>6
  <2>6. CASE TakeStop \/ TakeHookCall \/ HookBeginsClose \/ HookEndsClose
             \/ ReturnFromHook \/ SettleHook
    <3>1. UNCHANGED <<mainFuture, loopFuture, coreClosed>>
      BY <2>6 DEF TakeStop, TakeHookCall, HookBeginsClose, HookEndsClose,
         ReturnFromHook, SettleHook
    <3> QED BY <1>1, <2>1, <2>2, <3>1
  <2> HIDE DEF Goal
  <2> QED BY <1>3, <2>3, <2>4, <2>5, <2>6 DEF OwnerStep
<1>4. ASSUME LoopStep PROVE Goal
  <2>1. UNCHANGED <<closed, ownerAt, pc, coreClosed>>
    BY <1>4 DEF LoopStep, CompleteLoopFuture, DispatchSyncHook, CancelHook
  <2>2. ASSUME NEW c \in Clients, CompleteLoopFuture(c) PROVE Goal
    <3>1. /\ loopFuture[c] = "pending"
          /\ \A d \in Clients : d # c => mainFuture'[d] = mainFuture[d]
                                         /\ loopFuture'[d] = loopFuture[d]
      BY <2>2 DEF CompleteLoopFuture
    <3> QED BY <1>1, <2>1, <3>1
  <2>3. ASSUME NEW h \in Hooks, DispatchSyncHook(h) \/ CancelHook(h) PROVE Goal
    <3>1. UNCHANGED <<mainFuture, loopFuture>>
      BY <2>3 DEF DispatchSyncHook, CancelHook
    <3> QED BY <1>1, <2>1, <3>1
  <2> HIDE DEF Goal
  <2> QED BY <1>4, <2>2, <2>3 DEF LoopStep
<1>5. CASE UNCHANGED vars
  BY <1>1, <1>5 DEF vars
<1> HIDE DEF TypeOK, Goal
<1>6. ASSUME NEW c \in Clients, ClientStep(c) PROVE Goal
  BY <1>2, <1>6 DEF ClientStep
<1>7. ASSUME NEW c \in Clients, CancelFuture(c) PROVE Goal
  BY <1>2, <1>7
<1> QED BY <1>3, <1>4, <1>5, <1>6, <1>7 DEF Next

\* When no hook closes the harness, it is marked closed only after core.close()
\* has run, whatever threads call close() and in whatever order.
THEOREM CloseRunsCoreClose ==
  ASSUME ClosingHooks = {}
  PROVE  Spec => []ClosedAfterCoreClose
<1>1. Init => CoreCloseInv
  BY DEF Init, CoreCloseInv, ClosedAfterCoreClose, Done, Clients
<1>2. TypeOK /\ QueueInv /\ CoreCloseInv /\ [Next]_vars => CoreCloseInv'
  BY CoreCloseStep
<1>3. CoreCloseInv => ClosedAfterCoreClose
  BY DEF CoreCloseInv
<1> QED BY <1>1, <1>2, <1>3, TypeCorrect, QueueCorrect, PTL DEF Spec

-----------------------------------------------------------------------------
(* The queue implements the service.                                       *)

\* A put adds its item and no other.
LEMMA PutMembers ==
  ASSUME TypeOK, NEW e \in Items, commands' = Append(commands, e), NEW x
  PROVE  InQueue(x)' <=> InQueue(x) \/ x = e
<1>1. commands \in Seq(Items)
  BY DEF TypeOK
<1> QED BY <1>1, HasAppend DEF InQueue, Has

\* A call has its outcome, and work is handed on, only after it was accepted.
LEMMA AcceptedFirstStep ==
  TypeOK /\ QueueInv /\ AcceptedFirst /\ [Next]_vars => AcceptedFirst'
<1> SUFFICES ASSUME TypeOK, QueueInv, AcceptedFirst, [Next]_vars
             PROVE  AcceptedFirst'
  OBVIOUS
<1> DEFINE Early == {"idle", "check", "submit"}
           Held(h) == InQueue(HookCall(h)) \/ (InHook /\ ownerItem = HookCall(h))
           CallsKept == \A c \in Clients :
             /\ pc'[c] \in Early => pc[c] \in Early /\ outcome'[c] = outcome[c]
             /\ loopFuture'[c] # "none" =>
                  loopFuture[c] # "none" \/ mainFuture[c] # "none"
             /\ mainFuture'[c] = "none" => mainFuture[c] = "none"
           HooksKept == \A h \in Hooks :
             /\ Held(h)' => Held(h) \/ completion'[h] # "none"
             /\ completion'[h] = "none" => completion[h] = "none"
<1>1. CallsKept /\ HooksKept => AcceptedFirst'
  BY DEF AcceptedFirst
<1> SUFFICES CallsKept /\ HooksKept
  BY <1>1
<1>2. ASSUME UNCHANGED <<commands, ownerItem, completion>>, InHook' => InHook
      PROVE  HooksKept
  BY <1>2, QueueKept
<1>3. ASSUME NEW c \in Clients, ClientStep(c) \/ CancelFuture(c)
      PROVE  CallsKept /\ HooksKept
  <2> USE DEF TypeOK
  <2>1. CASE BeginCall(c) \/ BeginClose(c) \/ CheckClosed(c)
             \/ StartOwnerThread(c) \/ AwaitResult(c) \/ JoinOwner(c)
             \/ CancelFuture(c)
    <3>1. CallsKept
      BY <2>1 DEF BeginCall, BeginClose, CanBegin, CheckClosed, StartOwnerThread,
         AwaitResult, JoinOwner, CancelFuture, Raise
    <3>2. /\ UNCHANGED <<commands, ownerItem, completion>>
          /\ InHook' => InHook
      BY <2>1 DEF BeginCall, BeginClose, CheckClosed, StartOwnerThread,
         AwaitResult, JoinOwner, CancelFuture, InHook
    <3> QED BY <1>2, <3>1, <3>2
  <2>2. CASE Submit(c)
    <3>1. CallsKept
      BY <2>2 DEF Submit, Raise
    <3>2. UNCHANGED <<ownerAt, ownerItem, completion>>
      BY <2>2 DEF Submit
    <3>3. ASSUME NEW h \in Hooks, InQueue(HookCall(h))' PROVE InQueue(HookCall(h))
      <4>1. CASE closed
        BY <2>2, <3>3, <4>1, QueueKept DEF Submit
      <4>2. CASE ~closed
        <5>1. /\ commands' = Append(commands, Command(c)) /\ Command(c) \in Items
          BY <2>2, <4>2 DEF Submit, Items
        <5> QED BY <3>3, <5>1, PutMembers, ItemsDiffer
      <4> QED BY <4>1, <4>2
    <3> QED BY <3>1, <3>2, <3>3 DEF InHook
  <2>3. CASE SetClosedAndStop(c)
    <3>1. CallsKept
      BY <2>3 DEF SetClosedAndStop
    <3>2. /\ commands' = Append(commands, Stop) /\ Stop \in Items
          /\ UNCHANGED <<ownerAt, ownerItem, completion>>
      BY <2>3 DEF SetClosedAndStop, Items
    <3>3. ASSUME NEW h \in Hooks, InQueue(HookCall(h))' PROVE InQueue(HookCall(h))
      BY <3>2, <3>3, PutMembers, ItemsDiffer
    <3> QED BY <3>1, <3>2, <3>3 DEF InHook
  <2> QED BY <1>3, <2>1, <2>2, <2>3 DEF ClientStep
<1>4. ASSUME OwnerStep PROVE CallsKept /\ HooksKept
  <2>1. UNCHANGED <<pc, outcome>>
    BY <1>4 DEF OwnerStep, TakeStop, TakeCommand, FinishOperation, TakeContinuation,
       TakeHookCall, HookBeginsClose, HookEndsClose, ReturnFromHook, SettleHook
  <2>2. CASE TakeStop \/ TakeHookCall
    <3>1. UNCHANGED <<closed, mainFuture, loopFuture, completion>>
      BY <2>2 DEF TakeStop, TakeHookCall
    <3>2. PICK kind : Takes(kind)
      BY <2>2 DEF TakeStop, TakeHookCall
    <3>3. \A x : InQueue(x) <=> x = Head(commands) \/ InQueue(x)'
      BY <3>1, <3>2, TakeFacts
    <3>4. ~InHook /\ (InHook' => ownerItem' = Head(commands))
      BY <2>2 DEF TakeStop, TakeHookCall, Takes, InHook
    <3> QED BY <2>1, <3>1, <3>3, <3>4
  <2>3. CASE TakeCommand
    <3>1. /\ Takes("command")
          /\ UNCHANGED <<closed, loopFuture, completion>>
          /\ \A d \in Clients : mainFuture'[d] = "none" => mainFuture[d] = "none"
      BY <2>3 DEF TakeCommand, TypeOK
    <3>2. \A x : InQueue(x) <=> x = Head(commands) \/ InQueue(x)'
      BY <3>1, TakeFacts
    <3>3. ~InHook'
      BY <2>3 DEF TakeCommand, Takes, InHook
    <3> QED BY <2>1, <3>1, <3>2, <3>3
  <2>4. CASE FinishOperation
    <3>1. PICK c \in Clients : ownerItem = Command(c) /\ mainFuture[c] = "running"
      BY <2>4 DEF FinishOperation, QueueInv, OwnerItemMatches
    <3>2. ownerItem.of = c
      BY <3>1 DEF Command
    <3>3. /\ \A d \in Clients : /\ mainFuture'[d] = "none" => mainFuture[d] = "none"
                                /\ d # c => loopFuture'[d] = loopFuture[d]
      BY <2>4, <3>2 DEF FinishOperation, TypeOK
    <3>4. UNCHANGED <<commands, ownerItem, completion>> /\ ~InHook'
      BY <2>4 DEF FinishOperation, InHook
    <3>5. HooksKept
      BY <1>2, <3>4
    <3>6. ASSUME NEW d \in Clients
          PROVE  loopFuture'[d] = loopFuture[d] \/ mainFuture[d] # "none"
      BY <3>1, <3>3
    <3>7. CallsKept
      BY <2>1, <3>3, <3>6
    <3> QED BY <3>5, <3>7
  <2>5. CASE TakeContinuation
    <3>1. /\ Takes("continuation") /\ ~InHook'
          /\ UNCHANGED <<closed, loopFuture, completion>>
      BY <2>5 DEF TakeContinuation, Takes, InHook
    <3>2. /\ Head(commands) \in Items /\ Head(commands).kind = "continuation"
          /\ \A x : InQueue(x) <=> x = Head(commands) \/ InQueue(x)'
      BY <3>1, TakeFacts
    <3>3. PICK c \in Clients : c = Head(commands).of /\ Head(commands) = Continuation(c)
      BY <3>2, ItemKinds
    <3>4. loopFuture[c] # "none"
      BY <3>2, <3>3 DEF QueueInv, ItemsTracked
    <3>5. \A d \in Clients : mainFuture'[d] = "none" => mainFuture[d] = "none"
      BY <2>5, <3>3, <3>4 DEF TakeContinuation, TypeOK
    <3> QED BY <2>1, <3>1, <3>2, <3>5
  <2>6. CASE HookEndsClose
    <3>1. /\ UNCHANGED <<ownerItem, mainFuture, loopFuture, completion>> /\ InHook
          /\ commands' = Append(commands, Stop) /\ Stop \in Items
      BY <2>6 DEF HookEndsClose, Items, InHook
    <3>2. ASSUME NEW h \in Hooks, InQueue(HookCall(h))' PROVE InQueue(HookCall(h))
      BY <3>1, <3>2, PutMembers, ItemsDiffer
    <3> QED BY <2>1, <3>1, <3>2
  <2>7. CASE HookBeginsClose \/ ReturnFromHook
    <3>1. UNCHANGED <<commands, ownerItem, mainFuture, loopFuture, completion>> /\ InHook
      BY <2>7 DEF HookBeginsClose, ReturnFromHook, InHook
    <3> QED BY <1>2, <2>1, <3>1
  <2>8. CASE SettleHook
    <3>1. UNCHANGED <<commands, ownerItem, mainFuture, loopFuture>> /\ InHook
      BY <2>8 DEF SettleHook, InHook
    <3>2. \A h \in Hooks : completion'[h] = "none" => completion[h] = "none"
      BY <2>8 DEF SettleHook, TypeOK
    <3> QED BY <2>1, <3>1, <3>2, QueueKept
  <2> HIDE DEF CallsKept, HooksKept
  <2> QED BY <1>4, <2>2, <2>3, <2>4, <2>5, <2>6, <2>7, <2>8 DEF OwnerStep
<1>5. ASSUME LoopStep PROVE CallsKept /\ HooksKept
  <2>1. UNCHANGED <<ownerAt, ownerItem, pc, outcome>>
    BY <1>5 DEF LoopStep, CompleteLoopFuture, DispatchSyncHook, CancelHook
  <2>2. ASSUME NEW c \in Clients, CompleteLoopFuture(c)
        PROVE  CallsKept /\ HooksKept
    <3>1. CallsKept
      BY <2>1, <2>2 DEF CompleteLoopFuture, TypeOK
    <3>2. UNCHANGED completion
      BY <2>2 DEF CompleteLoopFuture
    <3>3. ASSUME NEW h \in Hooks, InQueue(HookCall(h))' PROVE InQueue(HookCall(h))
      <4>1. CASE closed
        BY <2>2, <3>3, <4>1, QueueKept DEF CompleteLoopFuture
      <4>2. CASE ~closed
        <5>1. commands' = Append(commands, Continuation(c)) /\ Continuation(c) \in Items
          BY <2>2, <4>2 DEF CompleteLoopFuture, Items
        <5> QED BY <3>3, <5>1, PutMembers, ItemsDiffer
      <4> QED BY <4>1, <4>2
    <3> QED BY <2>1, <3>1, <3>2, <3>3 DEF InHook
  <2>3. ASSUME NEW h \in Hooks, DispatchSyncHook(h)
        PROVE  CallsKept /\ HooksKept
    <3>1. UNCHANGED <<mainFuture, loopFuture>>
      BY <2>3 DEF DispatchSyncHook
    <3>2. \A g \in Hooks : completion'[g] = "none" => completion[g] = "none"
      BY <2>3 DEF DispatchSyncHook, TypeOK
    <3>3. ASSUME NEW g \in Hooks, InQueue(HookCall(g))'
          PROVE  InQueue(HookCall(g)) \/ completion'[g] # "none"
      <4>1. CASE closed
        BY <2>3, <3>3, <4>1, QueueKept DEF DispatchSyncHook
      <4>2. CASE ~closed
        <5>1. /\ commands' = Append(commands, HookCall(h)) /\ HookCall(h) \in Items
              /\ completion'[h] # "none"
          BY <2>3, <4>2 DEF DispatchSyncHook, Items, TypeOK
        <5> QED BY <3>3, <5>1, PutMembers, ItemsDiffer
      <4> QED BY <4>1, <4>2
    <3> QED BY <2>1, <3>1, <3>2, <3>3 DEF InHook
  <2>4. ASSUME NEW h \in Hooks, CancelHook(h) PROVE CallsKept /\ HooksKept
    <3>1. UNCHANGED <<commands, mainFuture, loopFuture>>
      BY <2>4 DEF CancelHook
    <3>2. \A g \in Hooks : completion'[g] = "none" => completion[g] = "none"
      BY <2>4 DEF CancelHook, TypeOK
    <3> QED BY <2>1, <3>1, <3>2, QueueKept DEF InHook
  <2> HIDE DEF CallsKept, HooksKept
  <2> QED BY <1>5, <2>2, <2>3, <2>4 DEF LoopStep
<1>6. CASE UNCHANGED vars
  <2>1. CallsKept
    BY <1>6 DEF vars
  <2> QED BY <1>2, <1>6, <2>1 DEF vars, InHook
<1> HIDE DEF CallsKept, HooksKept
<1> QED BY <1>3, <1>4, <1>5, <1>6 DEF Next

\* The inductive invariant as the runs check it.
THEOREM InvariantHolds == Spec => []SafetyInv
<1>1. Init => AcceptedFirst
  BY DEF Init, AcceptedFirst, InQueue, InHook
<1>2. TypeOK /\ QueueInv /\ AcceptedFirst => SafetyInv
  BY DEF SafetyInv
<1> QED BY <1>1, <1>2, AcceptedFirstStep, TypeCorrect, QueueCorrect, PTL DEF Spec

\* What a step looks like to the service when it concerns one call ...
LEMMA CallMoves ==
  ASSUME NEW c \in Clients, UNCHANGED completion,
         \A d \in Clients \ {c} : /\ mainFuture'[d] = mainFuture[d]
                                  /\ outcome'[d] = outcome[d]
  PROVE  RequestState' = [RequestState EXCEPT ![c] = CallState(c)']
<1>1. ASSUME NEW d \in Clients, d # c PROVE CallState(d)' = CallState(d)
  BY <1>1 DEF CallState
<1>2. ASSUME NEW h \in Hooks PROVE HookState(h)' = HookState(h)
  BY DEF HookState
<1> QED BY <1>1, <1>2 DEF RequestState

\* ... or one hook: where a hook has the name of a client, the client shows.
LEMMA HookMoves ==
  ASSUME NEW h \in Hooks, UNCHANGED <<mainFuture, outcome>>,
         \A g \in Hooks \ {h} : completion'[g] = completion[g]
  PROVE  /\ h \notin Clients =>
               RequestState' = [RequestState EXCEPT ![h] = HookState(h)']
         /\ h \in Clients => RequestState' = RequestState
<1>1. ASSUME NEW d \in Clients PROVE CallState(d)' = CallState(d)
  BY DEF CallState
<1>2. ASSUME NEW g \in Hooks, g # h PROVE HookState(g)' = HookState(g)
  BY <1>2 DEF HookState
<1> QED BY <1>1, <1>2 DEF RequestState

\* Every step of the queue is one of the service, or one it does not see.
LEMMA ServiceStep ==
  TypeOK /\ QueueInv /\ AcceptedFirst /\ [Next]_vars =>
    [Service!SNext]_(Service!svars)
<1> SUFFICES ASSUME TypeOK, QueueInv, AcceptedFirst, [Next]_vars
             PROVE  Service!SNext \/ UNCHANGED Service!svars
  OBVIOUS
<1> DEFINE Goal == Service!SNext \/ UNCHANGED Service!svars
<1> SUFFICES Goal
  OBVIOUS
<1>1. ASSUME UNCHANGED <<mainFuture, completion, outcome, closed>> PROVE Goal
  BY <1>1 DEF Service!svars, RequestState, CallState, HookState
<1>2. ASSUME UNCHANGED <<mainFuture, completion, outcome>>, closed' = TRUE
      PROVE  Goal
  <2>1. RequestState' = RequestState
    BY <1>2 DEF RequestState, CallState, HookState
  <2> QED BY <1>2, <2>1 DEF Service!SNext, Service!Shut, Service!svars, TypeOK
<1>3. ASSUME NEW c \in Clients, UNCHANGED <<completion, closed>>,
             \A d \in Clients \ {c} : /\ mainFuture'[d] = mainFuture[d]
                                      /\ outcome'[d] = outcome[d],
             \/ CallState(c)' = CallState(c)
             \/ ~closed /\ CallState(c) = "new" /\ CallState(c)' = "accepted"
             \/ closed /\ CallState(c) = "new" /\ CallState(c)' = "refused"
             \/ /\ CallState(c) = "accepted"
                /\ CallState(c)' \in {"value", "error", "cancelled"}
             \/ closed /\ CallState(c) = "accepted" /\ CallState(c)' = "undelivered"
      PROVE  Goal
  <2>1. RequestState' = [RequestState EXCEPT ![c] = CallState(c)']
    BY <1>3, CallMoves
  <2>2. RequestState[c] = CallState(c) /\ c \in Clients \cup Hooks
    BY DEF RequestState
  <2>3. CASE CallState(c)' = CallState(c)
    BY <1>3, <2>1, <2>2, <2>3 DEF Service!svars, RequestState
  <2>4. CASE CallState(c)' # CallState(c)
    <3>1. Service!Accept(c) \/ Service!Refuse(c) \/ Service!Answer(c)
          \/ Service!Abandon(c)
      BY <1>3, <2>1, <2>2, <2>4 DEF Service!Accept, Service!Refuse, Service!Answer,
         Service!Abandon, Service!Becomes
    <3> QED BY <2>2, <3>1 DEF Service!SNext
  <2> QED BY <2>3, <2>4
<1>4. ASSUME NEW h \in Hooks, UNCHANGED <<mainFuture, outcome, closed>>,
             \A g \in Hooks \ {h} : completion'[g] = completion[g],
             \/ ~closed /\ HookState(h) = "new" /\ HookState(h)' = "accepted"
             \/ closed /\ HookState(h) = "new" /\ HookState(h)' = "refused"
             \/ /\ HookState(h) = "accepted"
                /\ HookState(h)' \in {"value", "error", "cancelled"}
      PROVE  Goal
  <2>1. CASE h \in Clients
    BY <1>4, <2>1, HookMoves DEF Service!svars
  <2>2. CASE h \notin Clients
    <3>1. RequestState' = [RequestState EXCEPT ![h] = HookState(h)']
      BY <1>4, <2>2, HookMoves
    <3>2. RequestState[h] = HookState(h) /\ h \in Clients \cup Hooks
      BY <2>2 DEF RequestState
    <3>3. Service!Accept(h) \/ Service!Refuse(h) \/ Service!Answer(h)
      BY <1>4, <3>1, <3>2 DEF Service!Accept, Service!Refuse, Service!Answer,
         Service!Becomes
    <3> QED BY <3>2, <3>3 DEF Service!SNext
  <2> QED BY <2>1, <2>2
<1> HIDE DEF Goal
<1>5. ASSUME NEW c \in Clients, ClientStep(c) \/ CancelFuture(c) PROVE Goal
  <2> USE DEF TypeOK
  <2>1. CASE BeginCall(c) \/ StartOwnerThread(c) \/ JoinOwner(c)
    BY <1>1, <2>1 DEF BeginCall, StartOwnerThread, JoinOwner
  <2>2. CASE BeginClose(c)
    <3>1. mainFuture[c] = "none" /\ outcome[c] = "none"
      BY <2>2 DEF BeginClose, CanBegin, QueueInv, ItemsTracked, AcceptedFirst
    <3>2. CallState(c)' = CallState(c)
      BY <2>2, <3>1 DEF BeginClose, CallState, Done
    <3>3. /\ UNCHANGED <<completion, closed>>
          /\ \A d \in Clients \ {c} : /\ mainFuture'[d] = mainFuture[d]
                                      /\ outcome'[d] = outcome[d]
      BY <2>2 DEF BeginClose
    <3> QED BY <1>3, <3>2, <3>3
  <2>3. CASE CheckClosed(c)
    <3>1. mainFuture[c] = "none" /\ outcome[c] = "none"
      BY <2>3 DEF CheckClosed, QueueInv, ItemsTracked, AcceptedFirst
    <3>2. /\ CallState(c) = "new"
          /\ CallState(c)' = IF closed THEN "refused" ELSE "new"
      BY <2>3, <3>1 DEF CheckClosed, Raise, CallState, Done
    <3>3. /\ UNCHANGED <<completion, closed>>
          /\ \A d \in Clients \ {c} : /\ mainFuture'[d] = mainFuture[d]
                                      /\ outcome'[d] = outcome[d]
      BY <2>3 DEF CheckClosed, Raise
    <3> QED BY <1>3, <3>2, <3>3
  <2>4. CASE Submit(c)
    <3>1. mainFuture[c] = "none" /\ outcome[c] = "none"
      BY <2>4 DEF Submit, QueueInv, ItemsTracked, AcceptedFirst
    <3>2. /\ CallState(c) = "new"
          /\ CallState(c)' = IF closed THEN "refused" ELSE "accepted"
      BY <2>4, <3>1 DEF Submit, Raise, CallState, Done
    <3>3. /\ UNCHANGED <<completion, closed>>
          /\ \A d \in Clients \ {c} : /\ mainFuture'[d] = mainFuture[d]
                                      /\ outcome'[d] = outcome[d]
      BY <2>4 DEF Submit, Raise
    <3> QED BY <1>3, <3>2, <3>3
  <2>5. CASE CancelFuture(c)
    <3>1. CallState(c) = "accepted" /\ CallState(c)' = "cancelled"
      BY <2>5 DEF CancelFuture, CallState, Done
    <3>2. /\ UNCHANGED <<completion, closed>>
          /\ \A d \in Clients \ {c} : /\ mainFuture'[d] = mainFuture[d]
                                      /\ outcome'[d] = outcome[d]
      BY <2>5 DEF CancelFuture
    <3> QED BY <1>3, <3>1, <3>2
  <2>6. CASE AwaitResult(c)
    <3>1. CallState(c)' = CallState(c)
      BY <2>6 DEF AwaitResult, CallState, Done
    <3>2. /\ UNCHANGED <<completion, closed>>
          /\ \A d \in Clients \ {c} : /\ mainFuture'[d] = mainFuture[d]
                                      /\ outcome'[d] = outcome[d]
      BY <2>6 DEF AwaitResult, Raise
    <3> QED BY <1>3, <3>1, <3>2
  <2>7. CASE SetClosedAndStop(c)
    BY <1>2, <2>7 DEF SetClosedAndStop
  <2> QED BY <1>5, <2>1, <2>2, <2>3, <2>4, <2>5, <2>6, <2>7 DEF ClientStep
<1>6. ASSUME OwnerStep PROVE Goal
  <2>1. CASE TakeStop \/ TakeHookCall \/ HookBeginsClose \/ ReturnFromHook
    BY <1>1, <2>1 DEF TakeStop, TakeHookCall, HookBeginsClose, ReturnFromHook
  <2>2. CASE HookEndsClose
    BY <1>2, <2>2 DEF HookEndsClose
  <2>3. CASE TakeCommand
    <3>1. Takes("command") /\ UNCHANGED <<closed, completion, outcome>>
      BY <2>3 DEF TakeCommand
    <3>2. /\ Head(commands) \in Items /\ Head(commands).kind = "command"
          /\ InQueue(Head(commands))
      BY <3>1, TakeFacts
    <3>3. PICK c \in Clients : c = Head(commands).of /\ Head(commands) = Command(c)
      BY <3>2, ItemKinds
    <3>4. mainFuture[c] \in {"pending", "cancelled"}
      BY <3>2, <3>3 DEF QueueInv, ItemsTracked
    <3>5. /\ CallState(c)' = CallState(c)
          /\ \A d \in Clients \ {c} : mainFuture'[d] = mainFuture[d]
      BY <2>3, <3>3, <3>4 DEF TakeCommand, CallState, Done, TypeOK
    <3> QED BY <1>3, <3>1, <3>5
  <2>4. CASE FinishOperation
    <3>1. PICK c \in Clients : ownerItem = Command(c) /\ mainFuture[c] = "running"
      BY <2>4 DEF FinishOperation, QueueInv, OwnerItemMatches
    <3>2. ownerItem.of = c
      BY <3>1 DEF Command
    <3>3. \/ UNCHANGED mainFuture
          \/ mainFuture' = [mainFuture EXCEPT ![c] = "error"]
          \/ mainFuture' = [mainFuture EXCEPT ![c] = "value"]
      BY <2>4, <3>2 DEF FinishOperation
    <3>4. UNCHANGED <<closed, completion, outcome>>
      BY <2>4 DEF FinishOperation
    <3>5. /\ CallState(c) = "accepted"
          /\ CallState(c)' \in {"accepted", "error", "value"}
          /\ \A d \in Clients \ {c} : mainFuture'[d] = mainFuture[d]
      BY <3>1, <3>3 DEF CallState, Done, TypeOK
    <3> QED BY <1>3, <3>4, <3>5
  <2>5. CASE TakeContinuation
    <3>1. Takes("continuation") /\ UNCHANGED <<closed, completion, outcome>>
      BY <2>5 DEF TakeContinuation
    <3>2. /\ Head(commands) \in Items /\ Head(commands).kind = "continuation"
          /\ InQueue(Head(commands))
      BY <3>1, TakeFacts
    <3>3. PICK c \in Clients : c = Head(commands).of /\ Head(commands) = Continuation(c)
      BY <3>2, ItemKinds
    <3>4. loopFuture[c] \in {"value", "error"}
      BY <3>2, <3>3 DEF QueueInv, ItemsTracked
    <3>5. mainFuture[c] # "none"
      BY <3>4 DEF AcceptedFirst
    <3>6. mainFuture' = IF mainFuture[c] \in Done THEN mainFuture
                        ELSE [mainFuture EXCEPT ![c] = loopFuture[c]]
      BY <2>5, <3>3 DEF TakeContinuation
    <3>7. /\ \/ CallState(c)' = CallState(c)
             \/ CallState(c) = "accepted" /\ CallState(c)' \in {"value", "error"}
          /\ \A d \in Clients \ {c} : mainFuture'[d] = mainFuture[d]
      BY <3>1, <3>4, <3>5, <3>6 DEF CallState, Done, TypeOK
    <3> QED BY <1>3, <3>1, <3>7
  <2>6. CASE SettleHook
    <3>1. PICK h \in Hooks : ownerItem = HookCall(h)
      BY <2>6 DEF SettleHook, QueueInv, OwnerItemMatches, InHook
    <3>2. ownerItem.of = h
      BY <3>1 DEF HookCall
    <3>3. completion[h] # "none"
      BY <2>6, <3>1 DEF SettleHook, AcceptedFirst, InHook
    <3>4. UNCHANGED <<closed, mainFuture, outcome>>
      BY <2>6 DEF SettleHook
    <3>5. CASE completion[h] \in Done
      BY <1>1, <2>6, <3>2, <3>4, <3>5 DEF SettleHook
    <3>6. CASE completion[h] \notin Done
      <4>1. /\ HookState(h) = "accepted"
            /\ HookState(h)' \in {"value", "error"}
            /\ \A g \in Hooks \ {h} : completion'[g] = completion[g]
        BY <2>6, <3>2, <3>3, <3>6 DEF SettleHook, HookState, Done, TypeOK
      <4> QED BY <1>4, <3>4, <4>1
    <3> QED BY <3>5, <3>6
  <2> QED BY <1>6, <2>1, <2>2, <2>3, <2>4, <2>5, <2>6 DEF OwnerStep
<1>7. ASSUME LoopStep PROVE Goal
  <2>1. ASSUME NEW c \in Clients, CompleteLoopFuture(c) PROVE Goal
    <3>1. UNCHANGED <<closed, completion, outcome>> /\ loopFuture[c] = "pending"
      BY <2>1 DEF CompleteLoopFuture
    <3>2. mainFuture[c] = "running"
      BY <3>1 DEF QueueInv, ItemsTracked
    <3>3. /\ CallState(c) = "accepted"
          /\ CallState(c)' = IF closed THEN "undelivered" ELSE "accepted"
          /\ \A d \in Clients \ {c} : mainFuture'[d] = mainFuture[d]
      BY <2>1, <3>2 DEF CompleteLoopFuture, CallState, Done, TypeOK
    <3> QED BY <1>3, <3>1, <3>3
  <2>2. ASSUME NEW h \in Hooks, DispatchSyncHook(h) PROVE Goal
    <3>1. UNCHANGED <<closed, mainFuture, outcome>>
      BY <2>2 DEF DispatchSyncHook
    <3>2. /\ HookState(h) = "new"
          /\ HookState(h)' = IF closed THEN "refused" ELSE "accepted"
          /\ \A g \in Hooks \ {h} : completion'[g] = completion[g]
      BY <2>2 DEF DispatchSyncHook, HookState, TypeOK
    <3> QED BY <1>4, <3>1, <3>2
  <2>3. ASSUME NEW h \in Hooks, CancelHook(h) PROVE Goal
    <3>1. UNCHANGED <<closed, mainFuture, outcome>>
      BY <2>3 DEF CancelHook
    <3>2. /\ HookState(h) = "accepted" /\ HookState(h)' = "cancelled"
          /\ \A g \in Hooks \ {h} : completion'[g] = completion[g]
      BY <2>3 DEF CancelHook, HookState, TypeOK
    <3> QED BY <1>4, <3>1, <3>2
  <2> QED BY <1>7, <2>1, <2>2, <2>3 DEF LoopStep
<1>8. CASE UNCHANGED vars
  BY <1>1, <1>8 DEF vars
<1> QED BY <1>5, <1>6, <1>7, <1>8 DEF Next

\* The queue implements the safety part of HarnessService, for every set of
\* callers, closers and hooks: nothing is accepted once _closed is set, no
\* result is dropped before that, and an answer is given once.
THEOREM QueueImplementsService == Spec => ImplementsServiceSafely
<1>1. Init => Service!SInit
  BY DEF Init, Service!SInit, RequestState, CallState, HookState, Done
<1>2. Spec => [](TypeOK /\ QueueInv /\ AcceptedFirst)
  BY InvariantHolds, PTL DEF SafetyInv
<1> QED BY <1>1, <1>2, ServiceStep, PTL DEF Spec, ImplementsServiceSafely, Service!SSafety
=============================================================================
