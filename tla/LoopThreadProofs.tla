-------------------------- MODULE LoopThreadProofs --------------------------
(***************************************************************************)
(* Proofs about LoopThread, for any number of threads that submit and that *)
(* close.                                                                  *)
(***************************************************************************)
EXTENDS LoopThread, TLAPS

-----------------------------------------------------------------------------
(* Types.                                                                  *)

\* start() makes a loop thread that was not there.
LEMMA FreshIsNew ==
  ASSUME CanMakeLoop
  PROVE  Fresh \in Loops /\ loopState[Fresh] = "none"
BY DEF CanMakeLoop, Fresh

\* Every step keeps the types.
LEMMA TypeStep ==
  ASSUME TypeOK, LockHeld, [Next]_vars
  PROVE  TypeOK'
<1> USE DEF TypeOK, Goto, Threads
<1>1. ASSUME NEW u \in Users, UserStep(u) PROVE TypeOK'
  <2>1. CASE BeginSubmit(u)
    BY <2>1 DEF BeginSubmit, Refuse
  <2>2. CASE StartFindsRunning(u)
    BY <2>2 DEF StartFindsRunning, StartReturns
  <2>3. CASE StartRefused(u)
    BY <2>3 DEF StartRefused, Refuse
  <2>4. CASE StartMakesThread(u)
    BY <2>4, FreshIsNew DEF StartMakesThread
  <2>5. CASE ReadyWaited(u)
    BY <2>5 DEF ReadyWaited, StartReturns
  <2>6. CASE ReadLoop(u)
    BY <2>6 DEF ReadLoop
  <2>7. CASE Schedule(u)
    BY <2>7 DEF Schedule, Refuse
  <2> QED BY <1>1, <2>1, <2>2, <2>3, <2>4, <2>5, <2>6, <2>7 DEF UserStep
<1>2. ASSUME NEW s \in Stoppers, StopperStep(s) PROVE TypeOK'
  <2>1. CASE BeginClose(s)
    BY <2>1 DEF BeginClose
  <2>2. CASE StopNeverStarted(s)
    BY <2>2 DEF StopNeverStarted
  <2>3. CASE CheckLoop(s)
    BY <2>3 DEF CheckLoop
  <2>4. CASE TellLoop(s)
    BY <2>4 DEF TellLoop, LockHeld
  <2>5. CASE JoinLoop(s)
    BY <2>5 DEF JoinLoop
  <2>6. CASE MarkClosed(s)
    BY <2>6 DEF MarkClosed
  <2> QED BY <1>2, <2>1, <2>2, <2>3, <2>4, <2>5, <2>6 DEF StopperStep, StopStep
<1>3. ASSUME NEW g \in Loops, LoopStep(g) PROVE TypeOK'
  <2>1. CASE SetReady(g)
    BY <2>1 DEF SetReady
  <2>2. CASE RunForever(g)
    BY <2>2 DEF RunForever
  <2>3. CASE Drain(g)
    BY <2>3 DEF Drain
  <2>4. CASE AbortDrain(g)
    BY <2>4 DEF AbortDrain
  <2>5. CASE CloseLoop(g)
    BY <2>5 DEF CloseLoop
  <2>6. ASSUME NEW u \in Users, CreateTask(u) \/ FinishTask(u) PROVE TypeOK'
    BY <2>6 DEF CreateTask, FinishTask
  <2> QED BY <1>3, <2>1, <2>2, <2>3, <2>4, <2>5, <2>6 DEF LoopStep
<1>4. CASE UNCHANGED vars
  BY <1>4 DEF vars
<1> HIDE DEF TypeOK
<1> QED BY <1>1, <1>2, <1>3, <1>4 DEF Next

-----------------------------------------------------------------------------
(* The parts of the invariant.                                             *)

\* _start_lock is held across the wait for _ready and across stop().
LEMMA LockHeldStep ==
  ASSUME TypeOK, LockHeld, [Next]_vars
  PROVE  LockHeld'
<1> USE RuntimeAssumption DEF TypeOK, Goto, Threads, LockHeld
<1>1. ASSUME NEW u \in Users, UserStep(u) PROVE LockHeld'
  <2>1. CASE BeginSubmit(u)
    BY <2>1 DEF BeginSubmit, Refuse
  <2>2. CASE StartFindsRunning(u)
    BY <2>2 DEF StartFindsRunning, StartReturns
  <2>3. CASE StartRefused(u)
    BY <2>3 DEF StartRefused, Refuse
  <2>4. CASE StartMakesThread(u)
    BY <2>4, FreshIsNew DEF StartMakesThread
  <2>5. CASE ReadyWaited(u)
    BY <2>5 DEF ReadyWaited, StartReturns
  <2>6. CASE ReadLoop(u)
    BY <2>6 DEF ReadLoop
  <2>7. CASE Schedule(u)
    BY <2>7 DEF Schedule, Refuse
  <2> QED BY <1>1, <2>1, <2>2, <2>3, <2>4, <2>5, <2>6, <2>7 DEF UserStep
<1>2. ASSUME NEW s \in Stoppers, StopperStep(s) PROVE LockHeld'
  <2>1. CASE BeginClose(s)
    BY <2>1 DEF BeginClose
  <2>2. CASE StopNeverStarted(s)
    BY <2>2 DEF StopNeverStarted
  <2>3. CASE CheckLoop(s)
    BY <2>3 DEF CheckLoop
  <2>4. CASE TellLoop(s)
    BY <2>4 DEF TellLoop
  <2>5. CASE JoinLoop(s)
    BY <2>5 DEF JoinLoop
  <2>6. CASE MarkClosed(s)
    BY <2>6 DEF MarkClosed
  <2> QED BY <1>2, <2>1, <2>2, <2>3, <2>4, <2>5, <2>6 DEF StopperStep, StopStep
<1>3. ASSUME NEW g \in Loops, LoopStep(g) PROVE LockHeld'
  <2>1. CASE SetReady(g)
    BY <2>1 DEF SetReady
  <2>2. CASE RunForever(g) \/ Drain(g) \/ AbortDrain(g) \/ CloseLoop(g)
    BY <2>2 DEF RunForever, Drain, AbortDrain, CloseLoop
  <2>3. ASSUME NEW u \in Users, CreateTask(u) \/ FinishTask(u) PROVE LockHeld'
    BY <2>3 DEF CreateTask, FinishTask
  <2> QED BY <1>3, <2>1, <2>2, <2>3 DEF LoopStep
<1>4. CASE UNCHANGED vars
  BY <1>4 DEF vars
<1> HIDE DEF TypeOK, LockHeld
<1> QED BY <1>1, <1>2, <1>3, <1>4 DEF Next

\* Only submit_async hands a coroutine over, as its last step.
LEMMA HandedOverStep ==
  ASSUME TypeOK, HandedOver, [Next]_vars
  PROVE  HandedOver'
<1> USE RuntimeAssumption DEF TypeOK, Goto, Threads, HandedOver
<1>1. ASSUME NEW u \in Users, UserStep(u) PROVE HandedOver'
  <2>1. CASE BeginSubmit(u)
    BY <2>1 DEF BeginSubmit, Refuse
  <2>2. CASE StartFindsRunning(u)
    BY <2>2 DEF StartFindsRunning, StartReturns
  <2>3. CASE StartRefused(u)
    BY <2>3 DEF StartRefused, Refuse
  <2>4. CASE StartMakesThread(u)
    BY <2>4 DEF StartMakesThread
  <2>5. CASE ReadyWaited(u)
    BY <2>5 DEF ReadyWaited, StartReturns
  <2>6. CASE ReadLoop(u)
    BY <2>6 DEF ReadLoop
  <2>7. CASE Schedule(u)
    BY <2>7 DEF Schedule, Refuse
  <2> QED BY <1>1, <2>1, <2>2, <2>3, <2>4, <2>5, <2>6, <2>7 DEF UserStep
<1>2. ASSUME NEW s \in Stoppers, StopperStep(s) PROVE HandedOver'
  BY <1>2 DEF StopperStep, StopStep, BeginClose, StopNeverStarted, CheckLoop,
     TellLoop, JoinLoop, MarkClosed
<1>3. ASSUME NEW g \in Loops, LoopStep(g) PROVE HandedOver'
  <2>1. CASE SetReady(g) \/ RunForever(g) \/ AbortDrain(g) \/ CloseLoop(g)
    BY <2>1 DEF SetReady, RunForever, AbortDrain, CloseLoop
  <2>2. CASE Drain(g)
    BY <2>2 DEF Drain, On
  <2>3. ASSUME NEW u \in Users, CreateTask(u) \/ FinishTask(u) PROVE HandedOver'
    BY <2>3 DEF CreateTask, FinishTask
  <2> QED BY <1>3, <2>1, <2>2, <2>3 DEF LoopStep
<1>4. CASE UNCHANGED vars
  BY <1>4 DEF vars
<1> HIDE DEF TypeOK, HandedOver
<1> QED BY <1>1, <1>2, <1>3, <1>4 DEF Next

\* A close() that has told the loop to stop stays one that did.
LEMMA StoppedForGood ==
  ASSUME TypeOK, LockHeld, [Next]_vars, NEW s \in Stoppers, Stopped(s)
  PROVE  Stopped(s)'
<1> USE RuntimeAssumption DEF TypeOK, Goto, Threads, Stopped
<1>1. ASSUME NEW u \in Users, UserStep(u) PROVE pc'[s] = pc[s]
  BY <1>1 DEF UserStep, BeginSubmit, StartFindsRunning, StartReturns, Refuse,
     StartRefused, StartMakesThread, ReadyWaited, ReadLoop, Schedule
<1>2. ASSUME NEW r \in Stoppers, StopperStep(r) PROVE Stopped(s)'
  BY <1>2 DEF StopperStep, StopStep, BeginClose, StopNeverStarted, CheckLoop,
     TellLoop, JoinLoop, MarkClosed
<1>3. ASSUME NEW g \in Loops, LoopStep(g) PROVE pc' = pc
  BY <1>3 DEF LoopStep, SetReady, RunForever, Drain, AbortDrain, CloseLoop,
     CreateTask, FinishTask
<1>4. CASE UNCHANGED vars
  BY <1>4 DEF vars
<1> QED BY <1>1, <1>2, <1>3, <1>4 DEF Next

\* Every loop.stop is that of a close(), and a second one of a second close().
LEMMA StopsCountedStep ==
  ASSUME TypeOK, LockHeld, HandedOver, StopsCounted, [Next]_vars
  PROVE  StopsCounted'
<1> DEFINE Ended(g) == loopState[g] \in {"draining", "aborted", "closed"}
<1>a. /\ (\E s \in Stoppers : Stopped(s)) => (\E s \in Stoppers : Stopped(s))'
      /\ StoppedTwice => StoppedTwice'
  BY StoppedForGood DEF StoppedTwice
<1> USE RuntimeAssumption DEF TypeOK, Threads
<1>1. ASSUME NEW u \in Users, UserStep(u) PROVE StopsCounted'
  <2>1. CASE BeginSubmit(u) \/ StartFindsRunning(u) \/ StartRefused(u)
             \/ ReadyWaited(u)
    BY <1>a, <2>1 DEF BeginSubmit, StartFindsRunning, StartRefused, ReadyWaited,
       Refuse, StopsCounted, On
  <2>2. CASE StartMakesThread(u)
    BY <1>a, <2>2, FreshIsNew DEF StartMakesThread, StopsCounted, On
  <2>3. CASE ReadLoop(u)
    BY <1>a, <2>3 DEF ReadLoop, StopsCounted, On, HandedOver
  <2>4. CASE Schedule(u)
    BY <1>a, <2>4 DEF Schedule, Refuse, StopsCounted, On
  <2> QED BY <1>1, <2>1, <2>2, <2>3, <2>4 DEF UserStep
<1>2. ASSUME NEW s \in Stoppers, StopperStep(s) PROVE StopsCounted'
  <2>1. CASE BeginClose(s) \/ StopNeverStarted(s) \/ CheckLoop(s)
             \/ JoinLoop(s) \/ MarkClosed(s)
    BY <1>a, <2>1 DEF BeginClose, StopNeverStarted, CheckLoop, JoinLoop,
       MarkClosed, StopsCounted, On
  <2>2. CASE TellLoop(s)
    <3>1. Stopped(s)' /\ ~Stopped(s)
      BY <2>2 DEF TellLoop, Goto, Stopped
    <3>2. (\E r \in Stoppers : Stopped(r)) => StoppedTwice'
      BY <3>1, StoppedForGood DEF StoppedTwice
    <3> QED BY <1>a, <2>2, <3>1, <3>2 DEF TellLoop, StopsCounted, On
  <2> QED BY <1>2, <2>1, <2>2 DEF StopperStep, StopStep
<1>3. ASSUME NEW g \in Loops, LoopStep(g) PROVE StopsCounted'
  <2>1. CASE SetReady(g) \/ RunForever(g)
    BY <1>a, <2>1 DEF SetReady, RunForever, StopsCounted, On
  <2>2. CASE Drain(g)
    BY <1>a, <2>2 DEF Drain, StopsCounted, On
  <2>3. CASE AbortDrain(g)
    BY <1>a, <2>3 DEF AbortDrain, StopsCounted, On
  <2>4. CASE CloseLoop(g)
    BY <1>a, <2>4 DEF CloseLoop, StopsCounted, On
  <2>5. ASSUME NEW u \in Users, CreateTask(u) \/ FinishTask(u)
        PROVE  StopsCounted'
    BY <1>a, <2>5 DEF CreateTask, FinishTask, StopsCounted, On
  <2> QED BY <1>3, <2>1, <2>2, <2>3, <2>4, <2>5 DEF LoopStep
<1>4. CASE UNCHANGED vars
  BY <1>4 DEF vars, StopsCounted, StoppedTwice, Stopped, On
<1> QED BY <1>1, <1>2, <1>3, <1>4 DEF Next

-----------------------------------------------------------------------------
(* The invariant.                                                          *)

\* stop() tells the loop to stop whose thread it joins: whoever changes _thread
\* holds the lock until _loop has followed.
LEMMA LoopFollowsThread ==
  ASSUME LockHeld
  PROVE  LoopMatchesThread
BY RuntimeAssumption DEF LockHeld, LoopMatchesThread, Threads

\* A loop that ended with tasks being cancelled was broken off.
LEMMA EndsSettled ==
  ASSUME StopsCounted
  PROVE  TasksSettledAtClose
BY DEF StopsCounted, TasksSettledAtClose

\* In every state a free lock means that _loop is the loop of _thread, and a loop
\* that has ended settled the tasks it cancelled, unless stopped twice
\* (runtime.py:60-118).
THEOREM LoopCorrect == Spec => []LoopInv
<1>1. Init => TypeOK /\ LockHeld /\ HandedOver /\ StopsCounted
  <2>1. ASSUME Init PROVE TypeOK
    <3>1. round \in [Users -> 1..2] /\ target \in [Users -> Loops \cup {None}]
      BY <2>1 DEF Init
    <3> QED BY <2>1, <3>1 DEF Init, TypeOK
  <2>2. Init => LockHeld /\ HandedOver /\ StopsCounted
    BY DEF Init, LockHeld, HandedOver, StopsCounted, Threads
  <2> QED BY <2>1, <2>2
<1>2. TypeOK /\ LockHeld /\ HandedOver /\ StopsCounted /\ [Next]_vars =>
        (TypeOK /\ LockHeld /\ HandedOver /\ StopsCounted)'
  BY TypeStep, LockHeldStep, HandedOverStep, StopsCountedStep
<1>3. TypeOK /\ LockHeld /\ HandedOver /\ StopsCounted => LoopInv
  BY LoopFollowsThread, EndsSettled DEF LoopInv
<1> QED BY <1>1, <1>2, <1>3, PTL DEF Spec

\* Once stop() has marked the loop thread closed, start() makes no other: the
\* flag and the making of a thread are under the same lock (runtime.py:39-45).
THEOREM NoLoopAfterStop == Spec => NoThreadAfterStop
<1>1. ASSUME [Next]_vars, closed, NEW g \in Loops, loopState[g] = "none", TypeOK
      PROVE  loopState'[g] = "none"
  <2> USE DEF TypeOK
  <2>1. ASSUME NEW u \in Users, UserStep(u) PROVE loopState' = loopState
    BY <1>1, <2>1 DEF UserStep, BeginSubmit, StartFindsRunning, StartRefused,
       StartMakesThread, ReadyWaited, ReadLoop, Schedule
  <2>2. ASSUME NEW s \in Stoppers, StopperStep(s) PROVE loopState' = loopState
    BY <2>2 DEF StopperStep, StopStep, BeginClose, StopNeverStarted, CheckLoop,
       TellLoop, JoinLoop, MarkClosed
  <2>3. ASSUME NEW h \in Loops, LoopStep(h) PROVE loopState'[g] = "none"
    BY <1>1, <2>3 DEF LoopStep, SetReady, RunForever, Drain, AbortDrain,
       CloseLoop, CreateTask, FinishTask
  <2>4. CASE UNCHANGED vars
    BY <1>1, <2>4 DEF vars
  <2> QED BY <1>1, <2>1, <2>2, <2>3, <2>4 DEF Next
<1>2. TypeOK /\ [Next]_vars =>
        [closed => \A g \in Loops : loopState[g] = "none" =>
                                      loopState'[g] = "none"]_vars
  BY <1>1
<1>3. LoopInv => TypeOK
  BY DEF LoopInv
<1> QED BY <1>2, <1>3, LoopCorrect, PTL DEF Spec, NoThreadAfterStop
=============================================================================
