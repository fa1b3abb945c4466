------------------------- MODULE HarnessPumpProofs -------------------------
(***************************************************************************)
(* Proofs about HarnessPump, for every set of calls and hooks and however  *)
(* deep the waits nest.                                                    *)
(***************************************************************************)
EXTENDS HarnessPump, SequenceTheorems, TLAPS

-----------------------------------------------------------------------------
(* The queue: what Append and Tail do to its items.                        *)

Has(q, x) == \E i \in 1..Len(q) : q[i] = x

Once(q) == \A i, j \in 1..Len(q) : q[i] = q[j] => i = j \/ q[i] = Wake

\* Putting an item adds that item and nothing else (queue.put).
LEMMA Appending ==
  ASSUME NEW q \in Seq(Items), NEW e \in Items
  PROVE  /\ Append(q, e) \in Seq(Items)
         /\ \A x : Has(Append(q, e), x) <=> Has(q, x) \/ x = e
         /\ Once(q) /\ (e = Wake \/ ~Has(q, e)) => Once(Append(q, e))
<1>1. /\ Append(q, e) \in Seq(Items)
      /\ Len(Append(q, e)) = Len(q) + 1
      /\ \A i \in 1..Len(q) : Append(q, e)[i] = q[i]
      /\ Append(q, e)[Len(q) + 1] = e
      /\ Len(q) \in Nat
  OBVIOUS
<1> QED BY <1>1 DEF Has, Once

\* Taking the head leaves the other items (queue.get).
LEMMA Taking ==
  ASSUME NEW q \in Seq(Items), q # << >>
  PROVE  /\ Tail(q) \in Seq(Items) /\ Head(q) \in Items /\ Has(q, Head(q))
         /\ \A x : Has(q, x) <=> x = Head(q) \/ Has(Tail(q), x)
         /\ Once(q) => Once(Tail(q)) /\ (Head(q) = Wake \/ ~Has(Tail(q), Head(q)))
<1>1. /\ Len(q) \in Nat \ {0}
      /\ Len(Tail(q)) = Len(q) - 1
      /\ \A i \in 1..(Len(q) - 1) : Tail(q)[i] = q[i + 1]
      /\ Head(q) = q[1]
      /\ Tail(q) \in Seq(Items) /\ Head(q) \in Items
  OBVIOUS
<1>2. Has(q, Head(q))
  BY <1>1 DEF Has
<1>3. ASSUME NEW x, Has(q, x), x # Head(q) PROVE Has(Tail(q), x)
  <2>1. PICK i \in 1..Len(q) : q[i] = x
    BY <1>3 DEF Has
  <2>2. i - 1 \in 1..Len(Tail(q)) /\ Tail(q)[i - 1] = x
    BY <1>1, <1>3, <2>1
  <2> QED BY <2>2 DEF Has
<1>4. ASSUME NEW x, Has(Tail(q), x) PROVE Has(q, x)
  <2>1. PICK i \in 1..Len(Tail(q)) : Tail(q)[i] = x
    BY <1>4 DEF Has
  <2>2. i + 1 \in 1..Len(q) /\ q[i + 1] = x
    BY <1>1, <2>1
  <2> QED BY <2>2 DEF Has
<1>5. ASSUME Once(q) PROVE Once(Tail(q))
  <2>1. ASSUME NEW i \in 1..Len(Tail(q)), NEW j \in 1..Len(Tail(q)),
               Tail(q)[i] = Tail(q)[j]
        PROVE  i = j \/ Tail(q)[i] = Wake
    <3>1. /\ i + 1 \in 1..Len(q) /\ j + 1 \in 1..Len(q)
          /\ q[i + 1] = Tail(q)[i] /\ q[j + 1] = Tail(q)[j]
      BY <1>1
    <3> QED BY <1>5, <2>1, <3>1 DEF Once
  <2> QED BY <2>1 DEF Once
<1>6. ASSUME Once(q), Has(Tail(q), Head(q)) PROVE Head(q) = Wake
  <2>1. PICK i \in 1..Len(Tail(q)) : Tail(q)[i] = Head(q)
    BY <1>6 DEF Has
  <2>2. i + 1 \in 1..Len(q) /\ 1 \in 1..Len(q) /\ q[i + 1] = q[1] /\ i + 1 # 1
    BY <1>1, <2>1
  <2> QED BY <1>1, <1>6, <2>2 DEF Once
<1> QED BY <1>1, <1>2, <1>3, <1>4, <1>5, <1>6

\* Seen from the model.
LEMMA QueueIs ==
  ASSUME commands \in Seq(Items)
  PROVE  /\ \A x : InQueue(x) <=> Has(commands, x)
         /\ QueuedOnce <=> Once(commands)
BY DEF InQueue, QueuedOnce, Has, Once

\* An item is what its kind says, and the kinds differ.
LEMMA ItemKinds ==
  /\ \A x \in Items :
       /\ x.kind = "command" => x.of \in Ops \cup Closers /\ x = Command(x.of)
       /\ x.kind = "continuation" => x.of \in Ops \cup Closers /\ x = Continuation(x.of)
       /\ x.kind = "hookCall" => x.of \in Hooks /\ x = HookCall(x.of)
       /\ x.kind = "wake" => x = Wake
  /\ \A c \in Ops \cup Closers : Command(c) \in Items /\ Continuation(c) \in Items
  /\ \A h \in Hooks : HookCall(h) \in Items
  /\ Wake \in Items
<1>1. ASSUME NEW x \in Items
      PROVE  /\ x.kind = "command" => x.of \in Ops \cup Closers /\ x = Command(x.of)
             /\ x.kind = "continuation" =>
                  x.of \in Ops \cup Closers /\ x = Continuation(x.of)
             /\ x.kind = "hookCall" => x.of \in Hooks /\ x = HookCall(x.of)
             /\ x.kind = "wake" => x = Wake
  BY DEF Items, Command, Continuation, HookCall, Wake
<1>2. /\ \A c \in Ops \cup Closers : Command(c) \in Items /\ Continuation(c) \in Items
      /\ \A h \in Hooks : HookCall(h) \in Items
      /\ Wake \in Items
  BY DEF Items
<1> QED BY <1>1, <1>2

LEMMA ItemsDiffer ==
  /\ \A c, d : /\ Command(c) = Command(d) <=> c = d
               /\ Continuation(c) = Continuation(d) <=> c = d
               /\ HookCall(c) = HookCall(d) <=> c = d
               /\ Command(c) # Continuation(d) /\ Command(c) # HookCall(d)
               /\ Continuation(c) # HookCall(d)
  /\ \A c : Command(c) # Wake /\ Continuation(c) # Wake /\ HookCall(c) # Wake
BY DEF Command, Continuation, HookCall, Wake

-----------------------------------------------------------------------------
(* The stack of frames.                                                    *)

\* A frame is a wait or an operation of a call, or the inside of a hook.
LEMMA FrameKinds ==
  /\ \A f \in Frames :
       /\ f = [at |-> f.at, of |-> f.of]
       /\ f.at \in Waiting \cup InHook \cup {"operation"}
       /\ f.at \in Waiting \cup {"operation"} <=> f.at \notin InHook
       /\ f.at \in Waiting => f.of \in Calls
       /\ f.at = "operation" => f.of \in Ops \cup Closers
       /\ f.at \in InHook => f.of \in Hooks
  /\ \A c \in Calls, p \in Waiting : [at |-> p, of |-> c] \in Frames
  /\ \A c \in Ops \cup Closers : [at |-> "operation", of |-> c] \in Frames
  /\ \A h \in Hooks, p \in InHook : [at |-> p, of |-> h] \in Frames
BY DEF Frames, Waiting, InHook

\* Entering a frame.
LEMMA Entering ==
  ASSUME NEW s \in Seq(Frames), NEW f \in Frames
  PROVE  /\ Append(s, f) \in Seq(Frames) /\ Append(s, f) # << >>
         /\ Len(s) \in Nat /\ Len(Append(s, f)) = Len(s) + 1
         /\ \A i \in 1..Len(s) : Append(s, f)[i] = s[i]
         /\ Append(s, f)[Len(s) + 1] = f
OBVIOUS

\* Leaving the innermost frame.
LEMMA Leaving ==
  ASSUME NEW s \in Seq(Frames), s # << >>
  PROVE  /\ Len(s) \in Nat \ {0} /\ Last(s) = s[Len(s)] /\ Last(s) \in Frames
         /\ Front(s) \in Seq(Frames) /\ Len(Front(s)) = Len(s) - 1
         /\ \A i \in 1..(Len(s) - 1) : Front(s)[i] = s[i]
<1>1. Len(s) \in Nat \ {0} /\ s[Len(s)] \in Frames
  OBVIOUS
<1>2. Front(s) = [i \in 1..(Len(s) - 1) |-> s[i]]
  BY <1>1 DEF Front
<1>3. Front(s) \in Seq(Frames) /\ Len(Front(s)) = Len(s) - 1
  BY <1>1, <1>2
<1> QED BY <1>1, <1>2, <1>3 DEF Last

\* Going on in the innermost frame.
LEMMA Moving ==
  ASSUME stack \in Seq(Frames), stack # << >>, NEW place,
         [at |-> place, of |-> Last(stack).of] \in Frames
  PROVE  /\ Move(place) \in Seq(Frames) /\ Move(place) # << >>
         /\ Len(Move(place)) = Len(stack)
         /\ \A i \in 1..(Len(stack) - 1) : Move(place)[i] = stack[i]
         /\ Move(place)[Len(stack)] = [at |-> place, of |-> Last(stack).of]
<1> DEFINE n == Len(stack)
           f == [at |-> place, of |-> Last(stack).of]
<1>1. n \in Nat \ {0} /\ stack[n] \in Frames /\ Last(stack) = stack[n]
  BY Leaving
<1>2. Move(place) = [stack EXCEPT ![n] = f]
  <2>1. [stack[n] EXCEPT !.at = place] = f
    BY <1>1 DEF Frames
  <2> QED BY <2>1 DEF Move
<1>3. f \in Frames /\ n \in 1..Len(stack)
  BY <1>1
<1> HIDE DEF f
<1>4. /\ Move(place) \in Seq(Frames) /\ Len(Move(place)) = n
      /\ \A i \in 1..n : Move(place)[i] = IF i = n THEN f ELSE stack[i]
  BY <1>2, <1>3, ExceptSeq
<1>5. Move(place) # << >>
  BY <1>1, <1>4
<1>6. \A i \in 1..(n - 1) : i \in 1..n /\ i # n
  BY <1>1
<1> QED BY <1>3, <1>4, <1>5, <1>6 DEF f

\* The frames of a stack, as a set.
LEMMA StackMembers ==
  ASSUME stack \in Seq(Frames)
  PROVE  /\ \A f \in Frames, s \in Seq(Frames) : \A x :
              Has(Append(s, f), x) <=> Has(s, x) \/ x = f
         /\ \A s \in Seq(Frames) : s # << >> =>
              /\ Has(s, Last(s))
              /\ \A x : Has(s, x) <=> Has(Front(s), x) \/ x = Last(s)
         /\ stack # << >> =>
              \A place : \A x : [at |-> place, of |-> Last(stack).of] \in Frames =>
                (Has(Move(place), x) <=>
                   Has(Front(stack), x) \/ x = [at |-> place, of |-> Last(stack).of])
<1>1. ASSUME NEW f \in Frames, NEW s \in Seq(Frames), NEW x
      PROVE  Has(Append(s, f), x) <=> Has(s, x) \/ x = f
  BY Entering DEF Has
<1>2. ASSUME NEW s \in Seq(Frames), s # << >>
      PROVE  /\ Has(s, Last(s))
             /\ \A x : Has(s, x) <=> Has(Front(s), x) \/ x = Last(s)
  <2>1. /\ Len(s) \in Nat \ {0} /\ Last(s) = s[Len(s)]
        /\ Len(Front(s)) = Len(s) - 1
        /\ \A i \in 1..(Len(s) - 1) : Front(s)[i] = s[i]
    BY <1>2, Leaving
  <2>2. 1..Len(s) = 1..(Len(s) - 1) \cup {Len(s)}
    BY <2>1
  <2> QED BY <2>1, <2>2 DEF Has
<1>3. ASSUME stack # << >>, NEW place, NEW x,
             [at |-> place, of |-> Last(stack).of] \in Frames
      PROVE  Has(Move(place), x) <=>
               Has(Front(stack), x) \/ x = [at |-> place, of |-> Last(stack).of]
  <2> DEFINE f == [at |-> place, of |-> Last(stack).of]
  <2>1. /\ Len(stack) \in Nat \ {0}
        /\ Len(Front(stack)) = Len(stack) - 1
        /\ \A i \in 1..(Len(stack) - 1) : Front(stack)[i] = stack[i]
    BY <1>3, Leaving
  <2>2. /\ Len(Move(place)) = Len(stack)
        /\ \A i \in 1..(Len(stack) - 1) : Move(place)[i] = stack[i]
        /\ Move(place)[Len(stack)] = f
    BY <1>3, Moving
  <2>3. 1..Len(stack) = 1..(Len(stack) - 1) \cup {Len(stack)}
    BY <2>1
  <2> HIDE DEF f
  <2>4. Has(Move(place), x) <=> Has(Front(stack), x) \/ x = f
    BY <2>1, <2>2, <2>3 DEF Has
  <2> QED BY <2>4 DEF f
<1> QED BY <1>1, <1>2, <1>3

\* StackShape of any stack.
Shape(s) ==
    \A i \in 1..Len(s) :
      /\ s[i].at \in InHook \cup {"operation"} => i > 1 /\ s[i-1].at = "check"
      /\ s[i].at \in Waiting => i = 1 \/ s[i-1].at = "hook"
      /\ s[i].at \in {"register", "get", "finally", "set_result",
                      "set_exception", "operation"} => i = Len(s)

\* What is below the innermost frame.
LEMMA ShapeFront ==
  ASSUME NEW s \in Seq(Frames), s # << >>, Shape(s)
  PROVE  /\ Shape(Front(s))
         /\ Last(s).at \in Waiting => Front(s) = << >> \/ Last(Front(s)).at = "hook"
         /\ Last(s).at \in InHook \cup {"operation"} =>
              Front(s) # << >> /\ Last(Front(s)).at = "check"
<1>0. /\ Len(s) \in Nat \ {0} /\ Last(s) = s[Len(s)]
      /\ Front(s) \in Seq(Frames) /\ Len(Front(s)) = Len(s) - 1
      /\ \A i \in 1..(Len(s) - 1) : Front(s)[i] = s[i]
  BY Leaving
<1>1. Shape(Front(s))
  <2>1. ASSUME NEW i \in 1..Len(Front(s))
        PROVE  /\ i \in 1..Len(s) /\ i # Len(s) /\ Front(s)[i] = s[i]
               /\ i > 1 => Front(s)[i - 1] = s[i - 1]
    BY <1>0
  <2> QED BY <2>1 DEF Shape
<1>2. Front(s) # << >> => Last(Front(s)) = s[Len(s) - 1]
  BY <1>0, Leaving
<1>3. Front(s) = << >> <=> Len(s) = 1
  BY <1>0
<1> QED BY <1>0, <1>1, <1>2, <1>3 DEF Shape

\* Waits begin at the bottom or in a hook, the rest in a wait.
LEMMA ShapeAppend ==
  ASSUME NEW s \in Seq(Frames), NEW f \in Frames, Shape(s),
         \/ f.at \in Waiting /\ (s = << >> \/ Last(s).at = "hook")
         \/ f.at \notin Waiting /\ s # << >> /\ Last(s).at = "check"
  PROVE  Shape(Append(s, f))
<1>1. s # << >> => Last(s) = s[Len(s)] /\ Len(s) \in Nat \ {0}
  BY Leaving
<1>2. s = << >> => Len(s) = 0
  OBVIOUS
<1>3. ASSUME NEW i \in 1..Len(s)
      PROVE  s[i].at \notin {"register", "get", "finally", "set_result",
                             "set_exception", "operation"}
  BY <1>1, <1>2, <1>3 DEF Shape, Waiting
<1> QED BY <1>1, <1>2, <1>3, Entering DEF Shape, Waiting, InHook

\* A wait goes on as a wait and a hook as a hook.
LEMMA ShapeMove ==
  ASSUME stack \in Seq(Frames), stack # << >>, Shape(stack), NEW place,
         {Last(stack).at, place} \subseteq Waiting \/ {Last(stack).at, place} \subseteq InHook
  PROVE  /\ [at |-> place, of |-> Last(stack).of] \in Frames
         /\ Move(place) \in Seq(Frames) /\ Shape(Move(place))
         /\ Last(Move(place)) = [at |-> place, of |-> Last(stack).of]
<1>1. [at |-> place, of |-> Last(stack).of] \in Frames
  BY Leaving, FrameKinds
<1>2. /\ Len(stack) \in Nat \ {0} /\ Last(stack) = stack[Len(stack)]
      /\ Move(place) \in Seq(Frames) /\ Move(place) # << >>
      /\ Len(Move(place)) = Len(stack)
      /\ \A i \in 1..(Len(stack) - 1) : Move(place)[i] = stack[i]
      /\ Move(place)[Len(stack)].at = place
  BY <1>1, Leaving, Moving
<1>3. ASSUME NEW i \in 1..Len(stack)
      PROVE  /\ i # Len(stack) => i \in 1..(Len(stack) - 1)
             /\ i > 1 => i - 1 \in 1..(Len(stack) - 1)
  BY <1>2
<1>4. Shape(Move(place))
  BY <1>2, <1>3 DEF Shape, Waiting, InHook
<1> QED BY <1>1, <1>2, <1>4, Moving, Leaving

-----------------------------------------------------------------------------
(* Types, and the shape of the stack.                                      *)

LEMMA StackIs == stack \in Seq(Frames) => (StackShape <=> Shape(stack))
BY DEF StackShape, Shape

\* The wait of a call ends (the finally block of close() comes in its place).
LEMMA Ending ==
  ASSUME NEW s \in Seq(Frames), s # << >>, Shape(s), Last(s).at = "check",
         NEW result \in {"returned", "raised"}, TypeOK,
         EndWait(Last(s).of, Front(s), result)
  PROVE  /\ stack' \in Seq(Frames) /\ Shape(stack')
         /\ outcome' \in [Calls -> {"none", "returned", "raised"}]
         /\ Last(s).of \in Calls
<1>1. Last(s).of \in Calls /\ Front(s) \in Seq(Frames) /\ Shape(Front(s))
      /\ (Front(s) = << >> \/ Last(Front(s)).at = "hook")
  BY Leaving, FrameKinds, ShapeFront DEF Waiting
<1>2. [at |-> "finally", of |-> Last(s).of] \in Frames /\ "finally" \in Waiting
  BY <1>1, FrameKinds DEF Waiting
<1>3. Append(Front(s), [at |-> "finally", of |-> Last(s).of]) \in Seq(Frames)
      /\ Shape(Append(Front(s), [at |-> "finally", of |-> Last(s).of]))
  BY <1>1, <1>2, ShapeAppend, Entering
<1> QED BY <1>1, <1>3 DEF EndWait, TypeOK

\* Every step keeps the types and the shape of the stack.
LEMMA TypeStep == TypeOK /\ StackShape /\ [Next]_vars => (TypeOK /\ StackShape)'
<1> SUFFICES ASSUME TypeOK, StackShape, [Next]_vars PROVE TypeOK' /\ StackShape'
  OBVIOUS
<1> DEFINE StackOK == stack' \in Seq(Frames) /\ Shape(stack')
<1>0. /\ stack \in Seq(Frames) /\ Shape(stack)
      /\ StackOK => StackShape'
      /\ UNCHANGED stack => StackOK
  BY StackIs DEF TypeOK, StackShape, Shape
<1>1. ASSUME stack # << >>
      PROVE  /\ Front(stack) \in Seq(Frames) /\ Shape(Front(stack))
             /\ Last(stack) \in Frames
  BY <1>0, <1>1, Leaving, ShapeFront
<1>2. ASSUME AppRuns, NEW c \in Calls, NEW p \in {"check", "register"},
             stack' = Push(p, c)
      PROVE  StackOK
  <2>1. [at |-> p, of |-> c] \in Frames /\ p \in Waiting
    BY FrameKinds DEF Waiting
  <2> QED BY <1>0, <1>2, <2>1, ShapeAppend, Entering DEF AppRuns, At, Push
<1>3. ASSUME NEW places, At(places), NEW p, stack' = Move(p),
             \A q \in places : {q, p} \subseteq Waiting \/ {q, p} \subseteq InHook
      PROVE  StackOK
  BY <1>0, <1>3, ShapeMove DEF At
<1>4. ASSUME At({"get"}), NEW f \in Frames, f.at \in {"operation", "hook"},
             stack' = Append(Move("check"), f)
      PROVE  StackOK
  <2>1. stack # << >> /\ {Last(stack).at, "check"} \subseteq Waiting
    BY <1>4 DEF At, Waiting
  <2>2. /\ [at |-> "check", of |-> Last(stack).of] \in Frames
        /\ Move("check") \in Seq(Frames) /\ Shape(Move("check"))
        /\ Last(Move("check")) = [at |-> "check", of |-> Last(stack).of]
    BY <1>0, <2>1, ShapeMove
  <2>3. Last(Move("check")).at = "check" /\ Move("check") # << >>
    BY <1>0, <2>1, <2>2, Moving
  <2> QED BY <1>4, <2>2, <2>3, ShapeAppend, Entering DEF Waiting
<1> HIDE DEF StackOK
<1>5. ASSUME stack # << >>, stack' = Front(stack) PROVE StackOK
  BY <1>1, <1>5 DEF StackOK
<1>6. ASSUME TypeOK', StackOK PROVE TypeOK' /\ StackShape'
  BY <1>0, <1>6
<1>7. ASSUME NEW x \in Items PROVE Append(commands, x) \in Seq(Items)
  BY DEF TypeOK
<1>8. ASSUME commands # << >>
      PROVE  /\ Tail(commands) \in Seq(Items) /\ Head(commands) \in Items
             /\ Append(Tail(commands), Wake) \in Seq(Items)
  BY <1>8, Taking, Appending, ItemKinds DEF TypeOK
<1>a. ASSUME NEW c \in Calls, BeginCall(c) \/ BeginClose(c) \/ BeginWait(c)
      PROVE  TypeOK' /\ StackShape'
  <2>1. StackOK
    BY <1>0, <1>2, <1>a DEF BeginCall, BeginClose, BeginWait
  <2>2. TypeOK'
    BY <1>a, <1>7, <2>1, ItemKinds DEF BeginCall, BeginClose, BeginWait, TypeOK, StackOK
  <2> QED BY <1>6, <2>1, <2>2
<1>b. ASSUME WaitStep PROVE TypeOK' /\ StackShape'
  <2> USE DEF TypeOK
  <2>1. CASE RegisterWake
    <3>1. StackOK
      BY <1>3, <2>1 DEF RegisterWake, Waiting
    <3> QED BY <1>6, <1>7, <2>1, <3>1, ItemKinds DEF RegisterWake, StackOK
  <2>2. CASE CheckDone
    <3>1. CASE stack' = Move("get") /\ UNCHANGED outcome
      <4>1. StackOK
        BY <1>3, <2>2, <3>1 DEF CheckDone, Waiting
      <4> QED BY <1>6, <2>2, <3>1, <4>1 DEF CheckDone, StackOK
    <3>2. ASSUME NEW result \in {"returned", "raised"},
                 EndWait(Last(stack).of, Front(stack), result)
          PROVE  TypeOK' /\ StackShape'
      <4>1. StackOK /\ outcome' \in [Calls -> {"none", "returned", "raised"}]
        BY <1>0, <2>2, <3>2, Ending DEF CheckDone, At, StackOK
      <4> QED BY <1>6, <2>2, <4>1 DEF CheckDone, StackOK
    <3> QED BY <2>2, <3>1, <3>2 DEF CheckDone
  <2>3. CASE PollAgain \/ TakeWake
    <3>1. StackOK
      BY <1>3, <2>3 DEF PollAgain, TakeWake, Takes, Waiting
    <3> QED BY <1>6, <1>8, <2>3, <3>1 DEF PollAgain, TakeWake, Takes, StackOK
  <2>4. CASE SetClosed
    <3>1. StackOK
      BY <1>5, <2>4 DEF SetClosed, At
    <3> QED BY <1>6, <2>4, <3>1 DEF SetClosed, StackOK
  <2>5. CASE TakeCommand
    <3>1. commands # << >> /\ Head(commands).of \in Ops \cup Closers
      BY <1>8, <2>5, ItemKinds DEF TakeCommand, Takes
    <3>2. StackOK
      BY <1>4, <2>5, <3>1, FrameKinds DEF TakeCommand, Takes
    <3> QED BY <1>6, <1>8, <2>5, <3>1, <3>2 DEF TakeCommand, StackOK
  <2>6. CASE FinishOperation
    <3>1. StackOK
      BY <1>5, <2>6 DEF FinishOperation, At
    <3>2. Last(stack).of \in Ops \cup Closers
      BY <1>1, <2>6, FrameKinds DEF FinishOperation, At
    <3>3. /\ commands' \in Seq(Items)
          /\ future' \in [Calls -> {"none", "pending", "running"} \cup Done]
          /\ loopFuture' \in [Ops \cup Closers -> {"none", "pending", "value", "error"}]
      BY <1>7, <2>6, <3>2, ItemKinds DEF FinishOperation, SetFuture, Done
    <3> QED BY <1>6, <2>6, <3>1, <3>2, <3>3 DEF FinishOperation, StackOK
  <2>7. CASE TakeContinuation
    <3>1. commands # << >> /\ Head(commands).of \in Ops \cup Closers
      BY <1>8, <2>7, ItemKinds DEF TakeContinuation, Takes
    <3>2. StackOK
      BY <1>3, <2>7 DEF TakeContinuation, Takes, Waiting
    <3>3. commands' \in Seq(Items)
      BY <1>8, <2>7, <3>1 DEF TakeContinuation, SetFuture
    <3>4. loopFuture[Head(commands).of] \in {"none", "pending"} \cup Done
      BY <3>1 DEF Done
    <3>5. future' \in [Calls -> {"none", "pending", "running"} \cup Done]
      BY <2>7, <3>4 DEF TakeContinuation, SetFuture
    <3> QED BY <1>6, <2>7, <3>2, <3>3, <3>5 DEF TakeContinuation, StackOK
  <2>8. CASE TakeHookCall
    <3>1. commands # << >> /\ Head(commands).of \in Hooks
      BY <1>8, <2>8, ItemKinds DEF TakeHookCall, Takes
    <3>2. StackOK
      BY <1>4, <2>8, <3>1, FrameKinds DEF TakeHookCall, Takes, InHook
    <3> QED BY <1>6, <1>8, <2>8, <3>1, <3>2 DEF TakeHookCall, StackOK
  <2>9. CASE ReturnFromHook
    <3>1. StackOK
      BY <1>3, <1>5, <2>9 DEF ReturnFromHook, At, InHook
    <3> QED BY <1>6, <2>9, <3>1 DEF ReturnFromHook, StackOK
  <2>10. CASE SettleHook
    <3>1. StackOK
      BY <1>5, <2>10 DEF SettleHook, At
    <3>2. completion' \in [Hooks -> {"none", "pending"} \cup Done]
      BY <2>10 DEF SettleHook, Done
    <3> QED BY <1>6, <2>10, <3>1, <3>2 DEF SettleHook, StackOK
  <2>11. CASE InterruptWait
    <3>1. /\ stack # << >> /\ Last(stack).at \in InHook
          /\ Front(stack) # << >> /\ Last(Front(stack)).at = "check"
      BY <1>0, <2>11, ShapeFront DEF InterruptWait, At, InHook
    <3>2. EndWait(Last(Front(stack)).of, Front(Front(stack)), "raised")
      BY <2>11 DEF InterruptWait
    <3>3. StackOK /\ outcome' \in [Calls -> {"none", "returned", "raised"}]
      BY <1>1, <3>1, <3>2, Ending DEF StackOK
    <3> QED BY <1>6, <2>11, <3>3 DEF InterruptWait, StackOK
  <2> QED BY <1>b, <2>1, <2>2, <2>3, <2>4, <2>5, <2>6, <2>7, <2>8, <2>9, <2>10,
             <2>11 DEF WaitStep
<1>c. ASSUME LoopStep PROVE TypeOK' /\ StackShape'
  <2>0. UNCHANGED stack /\ StackOK
    BY <1>0, <1>c DEF LoopStep, CompleteLoopFuture, CompleteTarget,
       DispatchSyncHook, CancelHook
  <2> USE DEF TypeOK
  <2>1. ASSUME NEW c \in Ops \cup Closers, CompleteLoopFuture(c) PROVE TypeOK'
    <3>1. Append(commands, Continuation(c)) \in Seq(Items)
          /\ Append(commands, Wake) \in Seq(Items)
      BY <1>7, ItemKinds
    <3>2. commands' \in Seq(Items)
      BY <2>1, <3>1 DEF CompleteLoopFuture, SetFuture
    <3>3. /\ future' \in [Calls -> {"none", "pending", "running"} \cup Done]
          /\ loopFuture' \in [Ops \cup Closers -> {"none", "pending", "value", "error"}]
      BY <2>1 DEF CompleteLoopFuture, SetFuture, Done
    <3> QED BY <2>0, <2>1, <3>2, <3>3 DEF CompleteLoopFuture
  <2>2. ASSUME NEW c \in FutureWaits \cup EventWaits, CompleteTarget(c) PROVE TypeOK'
    <3>1. commands' \in Seq(Items)
      BY <1>7, <2>2, ItemKinds DEF CompleteTarget
    <3>2. future' \in [Calls -> {"none", "pending", "running"} \cup Done]
      BY <2>2 DEF CompleteTarget, Done
    <3> QED BY <2>0, <2>2, <3>1, <3>2 DEF CompleteTarget
  <2>3. ASSUME NEW h \in Hooks, DispatchSyncHook(h) \/ CancelHook(h) PROVE TypeOK'
    BY <1>7, <2>0, <2>3, ItemKinds DEF DispatchSyncHook, CancelHook, Done
  <2> QED BY <1>6, <1>c, <2>0, <2>1, <2>2, <2>3 DEF LoopStep
<1>d. CASE UNCHANGED vars
  BY <1>d DEF vars, TypeOK, StackShape
<1> QED BY <1>a, <1>b, <1>c, <1>d DEF Next, AppStep

-----------------------------------------------------------------------------
(* Where the promises are kept.                                            *)

LEMMA QueueIsNext ==
  ASSUME commands' \in Seq(Items)
  PROVE  /\ \A x : InQueue(x)' <=> Has(commands', x)
         /\ QueuedOnce' <=> Once(commands')
BY DEF InQueue, QueuedOnce, Has, Once

\* The queue after a put, a get, and a get with the wake-up it causes.
LEMMA Put ==
  ASSUME commands \in Seq(Items), NEW e \in Items, commands' = Append(commands, e)
  PROVE  /\ \A x : InQueue(x)' <=> InQueue(x) \/ x = e
         /\ QueuedOnce /\ (e = Wake \/ ~InQueue(e)) => QueuedOnce'
<1>1. commands' \in Seq(Items)
  BY Appending
<1>2. /\ \A x : InQueue(x)' <=> Has(commands', x)
      /\ QueuedOnce' <=> Once(commands')
  BY <1>1, QueueIsNext
<1> QED BY <1>2, QueueIs, Appending

LEMMA Get ==
  ASSUME commands \in Seq(Items), commands # << >>, commands' = Tail(commands)
  PROVE  /\ \A x : InQueue(x) <=> x = Head(commands) \/ InQueue(x)'
         /\ QueuedOnce => /\ QueuedOnce'
                          /\ \A x : x = Head(commands) => x = Wake \/ ~InQueue(x)'
<1>1. commands' \in Seq(Items)
  BY Taking
<1>2. /\ \A x : InQueue(x)' <=> Has(commands', x)
      /\ QueuedOnce' <=> Once(commands')
  BY <1>1, QueueIsNext
<1> QED BY <1>2, QueueIs, Taking

LEMMA GetAndWake ==
  ASSUME commands \in Seq(Items), commands # << >>,
         commands' = Append(Tail(commands), Wake)
  PROVE  /\ \A x : x # Wake => (InQueue(x) <=> x = Head(commands) \/ InQueue(x)')
         /\ QueuedOnce => /\ QueuedOnce'
                          /\ \A x : x = Head(commands) => x = Wake \/ ~InQueue(x)'
<1>1. Tail(commands) \in Seq(Items) /\ Wake \in Items
  BY Taking, ItemKinds
<1>2. commands' \in Seq(Items)
  BY <1>1, Appending
<1>3. /\ \A x : InQueue(x)' <=> Has(commands', x)
      /\ QueuedOnce' <=> Once(commands')
  BY <1>2, QueueIsNext
<1>4. /\ \A x : Has(commands', x) <=> Has(Tail(commands), x) \/ x = Wake
      /\ Once(Tail(commands)) => Once(commands')
  BY <1>1, Appending
<1> QED BY <1>3, <1>4, QueueIs, Taking

\* The head of the queue that a wait takes.
LEMMA TakeFacts ==
  ASSUME TypeOK, NEW kind, Takes(kind)
  PROVE  /\ commands \in Seq(Items) /\ commands # << >>
         /\ Head(commands) \in Items /\ Head(commands).kind = kind
         /\ InQueue(Head(commands))
         /\ stack \in Seq(Frames) /\ stack # << >> /\ Last(stack).at = "get"
BY Taking, QueueIs DEF TypeOK, Takes, At

\* What a step of the application or of a wait that queues nothing but
\* wake-ups, and settles no call, does to the items: nothing.
LEMMA ItemsKept ==
  ASSUME ItemsMatch, QueuedOnce',
         \A x : InQueue(x)' => InQueue(x) \/ x = Wake,
         \A c \in Ops \cup Closers : future'[c] = future[c] /\ loopFuture'[c] = loopFuture[c],
         \A h \in Hooks : completion'[h] = "none" => completion[h] = "none"
  PROVE  ItemsMatch'
BY ItemsDiffer DEF ItemsMatch

\* An item is queued when its call or hook is, once, and taken when it goes on.
LEMMA ItemsStep ==
  ASSUME TypeOK, StackShape, ItemsMatch, FramesMatch, CallsOnce, [Next]_vars
  PROVE  ItemsMatch'
<1> commands \in Seq(Items) /\ QueuedOnce /\ Wake \in Items
  BY ItemKinds DEF TypeOK, ItemsMatch
<1>0. UNCHANGED commands => QueuedOnce' /\ \A x : InQueue(x)' <=> InQueue(x)
  BY DEF QueuedOnce, InQueue
<1>1. ASSUME NEW c \in Calls, BeginCall(c) \/ BeginClose(c) PROVE ItemsMatch'
  <2>1. CASE closed
    BY <1>0, <1>1, <2>1, ItemsKept DEF BeginCall, BeginClose
  <2>2. CASE ~closed
    <3>1. /\ c \in Ops \cup Closers
          /\ commands' = Append(commands, Command(c))
          /\ future' = [future EXCEPT ![c] = "pending"]
          /\ UNCHANGED <<loopFuture, completion>>
      BY <1>1, <2>2 DEF BeginCall, BeginClose
    <3>2. future[c] = "none"
      BY <1>1 DEF BeginCall, BeginClose, CallsOnce
    <3>3. /\ \A x : InQueue(x)' <=> InQueue(x) \/ x = Command(c)
          /\ QueuedOnce'
      BY <3>1, <3>2, Put, ItemKinds DEF ItemsMatch
    <3> QED BY <3>1, <3>2, <3>3, ItemsDiffer DEF ItemsMatch, TypeOK
  <2> QED BY <2>1, <2>2
<1>2. ASSUME NEW w \in Calls, BeginWait(w) PROVE ItemsMatch'
  <2>1. w \notin Ops \cup Closers
    BY <1>2, CallsAssumption DEF BeginWait
  <2> QED BY <1>0, <1>2, <2>1, ItemsKept DEF BeginWait, TypeOK
<1>3. ASSUME WaitStep PROVE ItemsMatch'
  <2>1. CASE RegisterWake
    <3>1. QueuedOnce' /\ \A x : InQueue(x)' => InQueue(x) \/ x = Wake
      BY <1>0, <2>1, Put DEF RegisterWake
    <3> QED BY <2>1, <3>1, ItemsKept DEF RegisterWake
  <2>2. CASE PollAgain
    <3>1. UNCHANGED <<future, loopFuture, completion>>
      BY <2>2 DEF PollAgain
    <3>2. QueuedOnce' /\ \A x : ~InQueue(x)'
      BY <2>2 DEF PollAgain, QueuedOnce, InQueue
    <3> QED BY <3>1, <3>2, ItemsKept
  <2>3. CASE CheckDone \/ SetClosed \/ ReturnFromHook \/ InterruptWait
    BY <1>0, <2>3, ItemsKept DEF CheckDone, SetClosed, ReturnFromHook, InterruptWait
  <2>4. CASE SettleHook
    BY <1>0, <2>4, ItemsKept DEF SettleHook, TypeOK
  <2>5. CASE TakeWake \/ TakeHookCall
    <3>1. /\ commands # << >> /\ commands' = Tail(commands)
          /\ UNCHANGED <<future, loopFuture, completion>>
      BY <2>5 DEF TakeWake, TakeHookCall, Takes
    <3> QED BY <3>1, Get, ItemsKept
  <2>6. CASE TakeCommand
    <3>1. /\ Takes("command") /\ commands' = Tail(commands)
          /\ future' = [future EXCEPT ![Head(commands).of] = "running"]
          /\ UNCHANGED <<loopFuture, completion>>
      BY <2>6 DEF TakeCommand
    <3>2. PICK c \in Ops \cup Closers : c = Head(commands).of /\ Head(commands) = Command(c)
      BY <3>1, TakeFacts, ItemKinds
    <3>3. /\ \A x : InQueue(x) <=> x = Command(c) \/ InQueue(x)'
          /\ QueuedOnce' /\ ~InQueue(Command(c))'
      BY <3>1, <3>2, TakeFacts, Get, ItemsDiffer
    <3>4. future[c] = "pending" /\ loopFuture[c] = "none"
      BY <3>3 DEF ItemsMatch
    <3>5. future'[c] = "running" /\ \A d \in Calls \ {c} : future'[d] = future[d]
      BY <3>1, <3>2 DEF TypeOK, Calls
    <3> QED BY <3>1, <3>3, <3>4, <3>5, ItemsDiffer DEF ItemsMatch, Calls
  <2>7. CASE FinishOperation
    <3>1. PICK c \in Ops \cup Closers :
            c = Last(stack).of /\ future[c] = "running" /\ loopFuture[c] = "none"
      <4>1. /\ stack \in Seq(Frames) /\ stack # << >> /\ Last(stack).at = "operation"
            /\ Len(stack) \in DOMAIN stack /\ Last(stack) = stack[Len(stack)]
            /\ Last(stack) \in Frames
        BY <2>7, Leaving DEF TypeOK, FinishOperation, At
      <4> QED BY <4>1, FrameKinds DEF FramesMatch, FrameMatches
    <3>2. CASE UNCHANGED <<future, commands>> /\ loopFuture' = [loopFuture EXCEPT ![c] = "pending"]
      BY <1>0, <2>7, <3>1, <3>2 DEF FinishOperation, ItemsMatch, TypeOK
    <3>3. ASSUME NEW r \in {"error", "value"}, SetFuture(c, r, commands),
                 UNCHANGED loopFuture
          PROVE  ItemsMatch'
      <4>1. QueuedOnce' /\ \A x : InQueue(x)' <=> InQueue(x) \/ x = Wake
        BY <3>3, Put DEF SetFuture
      <4> QED BY <2>7, <3>1, <3>3, <4>1, ItemsDiffer DEF FinishOperation, SetFuture, ItemsMatch, TypeOK
    <3> QED BY <2>7, <3>1, <3>2, <3>3 DEF FinishOperation
  <2>8. CASE TakeContinuation
    <3>1. Takes("continuation") /\ UNCHANGED <<loopFuture, completion>>
      BY <2>8 DEF TakeContinuation
    <3>2. PICK c \in Ops \cup Closers :
            c = Head(commands).of /\ Head(commands) = Continuation(c)
      BY <3>1, TakeFacts, ItemKinds
    <3>3. /\ future[c] = "running" /\ loopFuture[c] \in {"value", "error"}
      BY <3>1, <3>2, TakeFacts DEF ItemsMatch
    <3>4. SetFuture(c, loopFuture[c], Tail(commands))
      BY <2>8, <3>2, <3>3 DEF TakeContinuation, Done
    <3>5. /\ \A x : x # Wake => (InQueue(x) <=> x = Continuation(c) \/ InQueue(x)')
          /\ QueuedOnce' /\ ~InQueue(Continuation(c))'
      BY <3>1, <3>2, <3>4, TakeFacts, GetAndWake, ItemsDiffer DEF SetFuture
    <3> QED BY <3>1, <3>3, <3>4, <3>5, ItemsDiffer DEF SetFuture, ItemsMatch, TypeOK
  <2> QED BY <1>3, <2>1, <2>2, <2>3, <2>4, <2>5, <2>6, <2>7, <2>8 DEF WaitStep
<1>4. ASSUME NEW c \in Ops \cup Closers, CompleteLoopFuture(c) PROVE ItemsMatch'
  <2>1. PICK r \in {"value", "error"} : loopFuture' = [loopFuture EXCEPT ![c] = r]
    BY <1>4 DEF CompleteLoopFuture
  <2>2. loopFuture[c] = "pending" /\ future[c] = "running" /\ UNCHANGED completion
    BY <1>4 DEF CompleteLoopFuture, ItemsMatch
  <2>3. ~InQueue(Command(c)) /\ ~InQueue(Continuation(c))
    BY <2>2 DEF ItemsMatch
  <2>4. CASE ~closed
    <3>1. commands' = Append(commands, Continuation(c)) /\ UNCHANGED future
      BY <1>4, <2>4 DEF CompleteLoopFuture
    <3>2. QueuedOnce' /\ \A x : InQueue(x)' <=> InQueue(x) \/ x = Continuation(c)
      BY <2>3, <3>1, Put, ItemKinds
    <3> QED BY <2>1, <2>2, <3>1, <3>2, ItemsDiffer DEF ItemsMatch, TypeOK
  <2>5. CASE closed
    <3>1. SetFuture(c, "undelivered", commands)
      BY <1>4, <2>2, <2>5 DEF CompleteLoopFuture, Done
    <3>2. QueuedOnce' /\ \A x : InQueue(x)' <=> InQueue(x) \/ x = Wake
      BY <3>1, Put DEF SetFuture
    <3> QED BY <2>1, <2>2, <2>3, <3>1, <3>2, ItemsDiffer DEF SetFuture, ItemsMatch, TypeOK
  <2> QED BY <2>4, <2>5
<1>5. ASSUME NEW w \in FutureWaits \cup EventWaits, CompleteTarget(w) PROVE ItemsMatch'
  <2>1. w \notin Ops \cup Closers
    BY CallsAssumption
  <2>2. \A c \in Ops \cup Closers : future'[c] = future[c]
    BY <1>5, <2>1 DEF CompleteTarget, TypeOK
  <2>3. QueuedOnce' /\ \A x : InQueue(x)' => InQueue(x) \/ x = Wake
    BY <1>0, <1>5, Put DEF CompleteTarget
  <2> QED BY <1>5, <2>2, <2>3, ItemsKept DEF CompleteTarget
<1>6. ASSUME NEW h \in Hooks, DispatchSyncHook(h) PROVE ItemsMatch'
  <2>1. CASE closed
    BY <1>0, <1>6, <2>1, ItemsKept DEF DispatchSyncHook, TypeOK
  <2>2. CASE ~closed
    <3>1. /\ commands' = Append(commands, HookCall(h)) /\ completion[h] = "none"
          /\ completion' = [completion EXCEPT ![h] = "pending"]
          /\ UNCHANGED <<future, loopFuture>>
      BY <1>6, <2>2 DEF DispatchSyncHook
    <3>2. QueuedOnce' /\ \A x : InQueue(x)' <=> InQueue(x) \/ x = HookCall(h)
      BY <3>1, Put, ItemKinds DEF ItemsMatch
    <3> QED BY <3>1, <3>2, ItemsDiffer DEF ItemsMatch, TypeOK
  <2> QED BY <2>1, <2>2
<1>7. ASSUME NEW h \in Hooks, CancelHook(h) PROVE ItemsMatch'
  BY <1>0, <1>7, ItemsKept DEF CancelHook, TypeOK
<1>8. CASE UNCHANGED vars
  BY <1>0, <1>8, ItemsKept DEF vars
<1> QED BY <1>1, <1>2, <1>3, <1>4, <1>5, <1>6, <1>7, <1>8 DEF Next, AppStep, LoopStep

-----------------------------------------------------------------------------
(* Where the calls and hooks are on the stack.                             *)

\* The stack seen as the set of its frames.
LEMMA StackSees ==
  ASSUME stack \in Seq(Frames)
  PROVE  /\ \A c : OnStack(c) <=>
                     \E f \in Frames : Has(stack, f) /\ f.at \in Waiting /\ f.of = c
         /\ \A h : HookOnStack(h) <=>
                     \E f \in Frames : Has(stack, f) /\ f.at \in InHook /\ f.of = h
         /\ FramesMatch <=> \A f \in Frames : Has(stack, f) => FrameMatches(f)
<1>1. DOMAIN stack = 1..Len(stack) /\ \A i \in 1..Len(stack) : stack[i] \in Frames
  OBVIOUS
<1> QED BY <1>1 DEF OnStack, HookOnStack, FramesMatch, Has

LEMMA StackSeesNext ==
  ASSUME stack' \in Seq(Frames)
  PROVE  /\ \A c : OnStack(c)' <=>
                     \E f \in Frames : Has(stack', f) /\ f.at \in Waiting /\ f.of = c
         /\ \A h : HookOnStack(h)' <=>
                     \E f \in Frames : Has(stack', f) /\ f.at \in InHook /\ f.of = h
         /\ FramesMatch' <=> \A f \in Frames : Has(stack', f) => FrameMatches(f)'
<1>1. DOMAIN stack' = 1..Len(stack') /\ \A i \in 1..Len(stack') : stack'[i] \in Frames
  OBVIOUS
<1> QED BY <1>1 DEF OnStack, HookOnStack, FramesMatch, FrameMatches, Has

\* The innermost frame.
LEMMA Top ==
  ASSUME TypeOK, StackShape, stack # << >>
  PROVE  /\ stack \in Seq(Frames) /\ Shape(stack)
         /\ Last(stack) \in Frames /\ Has(stack, Last(stack))
         /\ Front(stack) \in Seq(Frames)
         /\ \A x : Has(stack, x) <=> Has(Front(stack), x) \/ x = Last(stack)
         /\ FramesMatch => FrameMatches(Last(stack))
BY StackIs, Leaving, StackMembers, StackSees DEF TypeOK

\* A call or wait begins.
LEMMA Pushed ==
  ASSUME TypeOK, NEW c \in Calls, NEW p \in Waiting, stack' = Push(p, c),
         stack' \in Seq(Frames)
  PROVE  /\ \A f \in Frames : Has(stack', f) => Has(stack, f) \/ f = [at |-> p, of |-> c]
         /\ \A d : OnStack(d)' <=> OnStack(d) \/ d = c
         /\ \A h : HookOnStack(h) => HookOnStack(h)'
<1>1. stack \in Seq(Frames) /\ [at |-> p, of |-> c] \in Frames
  BY FrameKinds DEF TypeOK
<1>2. \A x : Has(stack', x) <=> Has(stack, x) \/ x = [at |-> p, of |-> c]
  BY <1>1, StackMembers DEF Push
<1>3. [at |-> p, of |-> c].at = p /\ [at |-> p, of |-> c].of = c
  OBVIOUS
<1>4. \A d : OnStack(d)' <=> OnStack(d) \/ d = c
  BY <1>1, <1>2, <1>3, StackSees, StackSeesNext
<1>5. \A h : HookOnStack(h) => HookOnStack(h)'
  BY <1>1, <1>2, StackSees, StackSeesNext
<1> QED BY <1>2, <1>4, <1>5

\* The innermost frame goes on, maybe with an operation or a hook inside it.
LEMMA Moved ==
  ASSUME TypeOK, StackShape, stack # << >>, NEW p,
         {Last(stack).at, p} \subseteq Waiting \/ {Last(stack).at, p} \subseteq InHook,
         NEW N, N \subseteq Frames, stack' \in Seq(Frames),
         \A x : Has(stack', x) <=> Has(Move(p), x) \/ x \in N
  PROVE  /\ \A f \in Frames : Has(stack', f) =>
              Has(stack, f) \/ f = [at |-> p, of |-> Last(stack).of] \/ f \in N
         /\ \A c : OnStack(c) => OnStack(c)'
         /\ \A h : HookOnStack(h) => HookOnStack(h)'
         /\ \A f \in N : Has(stack', f)
<1> DEFINE m == [at |-> p, of |-> Last(stack).of]
<1>1. m \in Frames /\ m.at = p /\ m.of = Last(stack).of
  BY Top, ShapeMove
<1>2. \A x : Has(Move(p), x) <=> Has(Front(stack), x) \/ x = m
  BY <1>1, Top, StackMembers
<1> HIDE DEF m
<1>3. \A x : Has(stack', x) <=> Has(Front(stack), x) \/ x = m \/ x \in N
  BY <1>2
<1>4. \A c : OnStack(c) => OnStack(c)'
  <2>1. ASSUME NEW c, NEW f \in Frames, Has(stack, f), f.at \in Waiting, f.of = c
        PROVE  \E g \in Frames : Has(stack', g) /\ g.at \in Waiting /\ g.of = c
    BY <1>1, <1>3, <2>1, Top DEF Waiting, InHook
  <2> QED BY <2>1, Top, StackSees, StackSeesNext
<1>5. \A h : HookOnStack(h) => HookOnStack(h)'
  <2>1. ASSUME NEW h, NEW f \in Frames, Has(stack, f), f.at \in InHook, f.of = h
        PROVE  \E g \in Frames : Has(stack', g) /\ g.at \in InHook /\ g.of = h
    BY <1>1, <1>3, <2>1, Top DEF Waiting, InHook
  <2> QED BY <2>1, Top, StackSees, StackSeesNext
<1>6. \A f \in Frames : Has(stack', f) => Has(stack, f) \/ f = m \/ f \in N
  BY <1>3, Top
<1> QED BY <1>3, <1>4, <1>5, <1>6 DEF m

\* The innermost frame is left.
LEMMA Left ==
  ASSUME TypeOK, StackShape, stack # << >>, stack' = Front(stack)
  PROVE  /\ stack' \in Seq(Frames)
         /\ \A f \in Frames : Has(stack', f) => Has(stack, f)
         /\ \A c : OnStack(c) => OnStack(c)' \/ (Last(stack).at \in Waiting /\ Last(stack).of = c)
         /\ \A h : HookOnStack(h) =>
                     HookOnStack(h)' \/ (Last(stack).at \in InHook /\ Last(stack).of = h)
<1>1. /\ stack \in Seq(Frames) /\ stack' \in Seq(Frames)
      /\ \A x : Has(stack, x) <=> Has(stack', x) \/ x = Last(stack)
  BY Top
<1>2. ASSUME NEW c, OnStack(c)
      PROVE  OnStack(c)' \/ (Last(stack).at \in Waiting /\ Last(stack).of = c)
  <2>1. PICK f \in Frames : Has(stack, f) /\ f.at \in Waiting /\ f.of = c
    BY <1>1, <1>2, StackSees
  <2>2. Has(stack', f) => OnStack(c)'
    BY <1>1, <2>1, StackSeesNext
  <2> QED BY <1>1, <2>1, <2>2
<1>3. ASSUME NEW h, HookOnStack(h)
      PROVE  HookOnStack(h)' \/ (Last(stack).at \in InHook /\ Last(stack).of = h)
  <2>1. PICK f \in Frames : Has(stack, f) /\ f.at \in InHook /\ f.of = h
    BY <1>1, <1>3, StackSees
  <2>2. Has(stack', f) => HookOnStack(h)'
    BY <1>1, <2>1, StackSeesNext
  <2> QED BY <1>1, <2>1, <2>2
<1> QED BY <1>1, <1>2, <1>3

\* The wait of a call ends, with all that is inside it.
LEMMA Ended ==
  ASSUME TypeOK, StackShape, stack # << >>, NEW result,
         NEW s \in {stack, Front(stack)}, s # << >>, Last(s).at = "check",
         EndWait(Last(s).of, Front(s), result), stack' \in Seq(Frames)
  PROVE  /\ Last(s).of \in Calls /\ Has(stack, Last(s))
         /\ \A f \in Frames : Has(stack', f) =>
              Has(stack, f) \/ f = [at |-> "finally", of |-> Last(s).of]
         /\ \A c : OnStack(c) =>
              \/ OnStack(c)' \/ c = Last(s).of
              \/ s # stack /\ Last(stack).at \in Waiting
         /\ \A h : HookOnStack(h) =>
              \/ HookOnStack(h)'
              \/ s # stack /\ h = Last(stack).of
<1> DEFINE e == [at |-> "finally", of |-> Last(s).of]
<1>1. /\ s \in Seq(Frames) /\ Front(s) \in Seq(Frames) /\ Last(s) \in Frames
      /\ \A x : Has(s, x) <=> Has(Front(s), x) \/ x = Last(s)
      /\ \A x : Has(stack, x) <=> Has(s, x) \/ (s # stack /\ x = Last(stack))
  BY Top, Leaving, StackMembers
<1>2. Last(s).of \in Calls /\ e \in Frames
  BY <1>1, FrameKinds DEF Waiting
<1>3. \A x : Has(stack', x) <=> Has(Front(s), x) \/ (Last(s).of \in Closers /\ x = e)
  BY <1>1, <1>2, Top, StackMembers DEF EndWait
<1> HIDE DEF e
<1>4. \A f \in Frames : Has(stack', f) => Has(stack, f) \/ f = e
  BY <1>1, <1>3
<1>5. \A f \in Frames : Has(stack, f) =>
        Has(stack', f) \/ f = Last(s) \/ (s # stack /\ f = Last(stack))
  BY <1>1, <1>3
<1>6. ASSUME NEW c, OnStack(c)
      PROVE  \/ OnStack(c)' \/ c = Last(s).of
             \/ s # stack /\ Last(stack).at \in Waiting
  BY <1>5, <1>6, Top, StackSees, StackSeesNext
<1>7. ASSUME NEW h, HookOnStack(h)
      PROVE  HookOnStack(h)' \/ (s # stack /\ h = Last(stack).of)
  <2>1. Last(s).at \notin InHook
    BY DEF InHook
  <2> QED BY <1>5, <1>7, <2>1, Top, StackSees, StackSeesNext
<1> QED BY <1>1, <1>2, <1>4, <1>6, <1>7 DEF e

\* A call that has begun, ended or been settled stays so, and so does a hook.
LEMMA NothingUndone ==
  ASSUME TypeOK, StackShape, ItemsMatch, [Next]_vars
  PROVE  /\ \A c \in Calls : /\ future'[c] = "none" => future[c] = "none"
                             /\ outcome'[c] = "none" => outcome[c] = "none"
         /\ \A h \in Hooks : completion'[h] = "none" => completion[h] = "none"
<1> DEFINE Goal == /\ \A c \in Calls : /\ future'[c] = "none" => future[c] = "none"
                                       /\ outcome'[c] = "none" => outcome[c] = "none"
                   /\ \A h \in Hooks : completion'[h] = "none" => completion[h] = "none"
<1> SUFFICES Goal
  OBVIOUS
<1> USE DEF TypeOK
<1>1. ASSUME NEW c \in Calls, BeginCall(c) \/ BeginClose(c) \/ BeginWait(c) PROVE Goal
  BY <1>1 DEF BeginCall, BeginClose, BeginWait
<1>2. ASSUME WaitStep PROVE Goal
  <2>1. CASE RegisterWake \/ PollAgain \/ SetClosed \/ TakeWake \/ TakeHookCall
             \/ ReturnFromHook
    BY <2>1 DEF RegisterWake, PollAgain, SetClosed, TakeWake, TakeHookCall,
       ReturnFromHook
  <2>2. CASE CheckDone \/ InterruptWait
    BY <2>2 DEF CheckDone, InterruptWait, EndWait
  <2>3. CASE TakeCommand \/ FinishOperation \/ SettleHook
    BY <2>3 DEF TakeCommand, FinishOperation, SetFuture, SettleHook
  <2>4. CASE TakeContinuation
    <3>1. PICK c \in Ops \cup Closers :
            c = Head(commands).of /\ Head(commands) = Continuation(c)
      BY <2>4, TakeFacts, ItemKinds DEF TakeContinuation
    <3>2. loopFuture[c] \in {"value", "error"}
      BY <2>4, <3>1, TakeFacts DEF TakeContinuation, ItemsMatch
    <3> QED BY <2>4, <3>1, <3>2 DEF TakeContinuation, SetFuture
  <2> QED BY <1>2, <2>1, <2>2, <2>3, <2>4 DEF WaitStep
<1>3. ASSUME LoopStep PROVE Goal
  BY <1>3 DEF LoopStep, CompleteLoopFuture, CompleteTarget, SetFuture,
     DispatchSyncHook, CancelHook
<1>4. CASE UNCHANGED vars
  BY <1>4 DEF vars
<1> HIDE DEF Goal
<1> QED BY <1>1, <1>2, <1>3, <1>4 DEF Next, AppStep

\* An operation runs as long as it is on the stack.
LEMMA OperationRuns ==
  ASSUME TypeOK, StackShape, ItemsMatch, CallsOnce, [Next]_vars, ~FinishOperation,
         NEW c \in Ops \cup Closers, future[c] = "running", loopFuture[c] = "none"
  PROVE  future'[c] = "running" /\ loopFuture'[c] = "none"
<1> DEFINE Goal == future'[c] = "running" /\ loopFuture'[c] = "none"
<1> SUFFICES Goal
  OBVIOUS
<1> c \in Calls
  BY DEF Calls
<1> USE DEF TypeOK
<1>1. ASSUME NEW d \in Calls, BeginCall(d) \/ BeginClose(d) \/ BeginWait(d) PROVE Goal
  <2>1. c \notin FutureWaits \cup EventWaits
    BY CallsAssumption
  <2>2. OnStack(c) \/ outcome[c] # "none"
    BY DEF CallsOnce, Calls
  <2>3. CASE d = c
    BY <1>1, <2>1, <2>2, <2>3 DEF BeginCall, BeginClose, BeginWait
  <2>4. CASE d # c
    BY <1>1, <2>4 DEF BeginCall, BeginClose, BeginWait
  <2> QED BY <2>3, <2>4
<1>2. ASSUME WaitStep PROVE Goal
  <2>1. CASE RegisterWake \/ PollAgain \/ SetClosed \/ TakeWake \/ TakeHookCall
             \/ ReturnFromHook \/ CheckDone \/ InterruptWait \/ SettleHook
    BY <2>1 DEF RegisterWake, PollAgain, SetClosed, TakeWake, TakeHookCall,
       ReturnFromHook, CheckDone, InterruptWait, SettleHook
  <2>2. CASE TakeCommand
    BY <2>2 DEF TakeCommand
  <2>3. CASE TakeContinuation
    <3>1. PICK d \in Ops \cup Closers :
            d = Head(commands).of /\ Head(commands) = Continuation(d)
      BY <2>3, TakeFacts, ItemKinds DEF TakeContinuation
    <3>2. loopFuture[d] \in {"value", "error"}
      BY <2>3, <3>1, TakeFacts DEF TakeContinuation, ItemsMatch
    <3>3. c # d
      BY <3>2
    <3>4. UNCHANGED loopFuture
      BY <2>3 DEF TakeContinuation
    <3>5. \/ UNCHANGED future
          \/ future' = [future EXCEPT ![d] = loopFuture[d]]
      BY <2>3, <3>1 DEF TakeContinuation, SetFuture
    <3> QED BY <3>3, <3>4, <3>5
  <2> QED BY <1>2, <2>1, <2>2, <2>3 DEF WaitStep
<1>3. ASSUME NEW d \in Ops \cup Closers, CompleteLoopFuture(d) PROVE Goal
  <2>1. d # c
    BY <1>3 DEF CompleteLoopFuture
  <2> QED BY <1>3, <2>1 DEF CompleteLoopFuture, SetFuture
<1>4. ASSUME NEW w \in FutureWaits \cup EventWaits, CompleteTarget(w) PROVE Goal
  BY <1>4, CallsAssumption DEF CompleteTarget
<1>5. ASSUME NEW h \in Hooks, DispatchSyncHook(h) \/ CancelHook(h) PROVE Goal
  BY <1>5 DEF DispatchSyncHook, CancelHook
<1>6. CASE UNCHANGED vars
  BY <1>6 DEF vars
<1> HIDE DEF Goal
<1> QED BY <1>1, <1>2, <1>3, <1>4, <1>5, <1>6 DEF Next, AppStep, LoopStep

\* The frames match when those that are new do.
LEMMA FramesKept ==
  ASSUME TypeOK, StackShape, ItemsMatch, FramesMatch, CallsOnce, [Next]_vars,
         stack' \in Seq(Frames),
         \A f \in Frames : Has(stack', f) =>
           \/ Has(stack, f) /\ (FinishOperation => f.at # "operation")
           \/ FrameMatches(f)'
  PROVE  FramesMatch'
<1>1. ASSUME NEW f \in Frames, FrameMatches(f), FinishOperation => f.at # "operation"
      PROVE  FrameMatches(f)'
  <2>1. f.at \in Waiting => f.of \in Calls
    BY FrameKinds
  <2>2. f.at = "operation" => f.of \in Ops \cup Closers
    BY FrameKinds
  <2>3. f.at \in InHook => f.of \in Hooks
    BY FrameKinds
  <2>4. f.at = "finally" => f.at \in Waiting
    BY DEF Waiting
  <2> QED BY <1>1, <2>1, <2>2, <2>3, <2>4, NothingUndone, OperationRuns DEF FrameMatches
<1>2. \A f \in Frames : Has(stack, f) => FrameMatches(f)
  BY StackSees DEF TypeOK
<1>3. \A f \in Frames : Has(stack', f) => FrameMatches(f)'
  BY <1>1, <1>2
<1> QED BY <1>3, StackSeesNext

\* A call that has begun has ended when its frames are gone.
LEMMA CallsKept ==
  ASSUME TypeOK, StackShape, ItemsMatch, CallsOnce, [Next]_vars,
         \A c \in Calls : future'[c] # "none" => future[c] # "none" \/ OnStack(c)',
         \A c \in Calls : OnStack(c) => OnStack(c)' \/ outcome'[c] # "none"
  PROVE  CallsOnce'
BY NothingUndone DEF CallsOnce

\* The stack tells of every call how far it is.
LEMMA FramesStep ==
  ASSUME TypeOK, StackShape, ItemsMatch, FramesMatch, CallsOnce, [Next]_vars
  PROVE  FramesMatch' /\ CallsOnce'
<1> stack' \in Seq(Frames) /\ stack \in Seq(Frames)
  BY TypeStep DEF TypeOK
<1> DEFINE Rest == /\ \A c \in Calls : future'[c] # "none" =>
                                         future[c] # "none" \/ OnStack(c)'
                   /\ \A c \in Calls : OnStack(c) => OnStack(c)' \/ outcome'[c] # "none"
           Fresh == \A f \in Frames : Has(stack', f) =>
                      \/ Has(stack, f) /\ (FinishOperation => f.at # "operation")
                      \/ FrameMatches(f)'
           Goal == FramesMatch' /\ CallsOnce'
<1> SUFFICES Goal
  OBVIOUS
<1>0. Fresh /\ Rest => Goal
  BY FramesKept, CallsKept
<1>1. ASSUME NEW c \in Calls, BeginCall(c) \/ BeginClose(c) \/ BeginWait(c) PROVE Goal
  <2>0. ~FinishOperation
    BY <1>1 DEF BeginCall, BeginClose, BeginWait, FinishOperation, At, AppRuns
  <2>1. CASE UNCHANGED <<stack, future>>
    <3>1. Fresh /\ Rest
      BY <2>0, <2>1 DEF OnStack
    <3> QED BY <1>0, <3>1
  <2>2. ASSUME NEW p \in Waiting, p # "finally", stack' = Push(p, c),
               future' = [future EXCEPT ![c] = "pending"]
        PROVE  Goal
    <3>1. /\ \A f \in Frames : Has(stack', f) => Has(stack, f) \/ f = [at |-> p, of |-> c]
          /\ \A d : OnStack(d)' <=> OnStack(d) \/ d = c
      BY <2>2, Pushed
    <3>2. FrameMatches([at |-> p, of |-> c])'
      BY <2>2 DEF FrameMatches, TypeOK, Waiting, InHook
    <3>3. Rest
      BY <2>2, <3>1 DEF TypeOK
    <3> QED BY <1>0, <2>0, <3>1, <3>2, <3>3
  <2> QED BY <1>1, <2>1, <2>2 DEF BeginCall, BeginClose, BeginWait, Waiting
<1>2. ASSUME WaitStep PROVE Goal
  <2>0. /\ stack # << >> /\ Last(stack) \in Frames /\ FrameMatches(Last(stack))
        /\ \A c \in Calls : future'[c] # "none" => future[c] # "none"
    <3>1. stack # << >>
      BY <1>2 DEF WaitStep, RegisterWake, CheckDone, PollAgain, SetClosed, TakeWake,
         TakeCommand, FinishOperation, TakeContinuation, TakeHookCall,
         ReturnFromHook, SettleHook, InterruptWait, Takes, At
    <3>2. ASSUME NEW c \in Calls, future[c] = "none" PROVE future'[c] = "none"
      <4>1. CASE TakeCommand \/ TakeContinuation
        <5>1. PICK d \in Ops \cup Closers :
                /\ d = Head(commands).of
                /\ InQueue(Command(d)) \/ InQueue(Continuation(d))
          BY <4>1, TakeFacts, ItemKinds DEF TakeCommand, TakeContinuation
        <5>2. d # c
          BY <3>2, <5>1 DEF ItemsMatch
        <5> QED BY <3>2, <4>1, <5>1, <5>2 DEF TakeCommand, TakeContinuation, SetFuture,
                TypeOK
      <4>2. CASE FinishOperation
        <5>1. /\ Last(stack).at = "operation" /\ FrameMatches(Last(stack))
          BY <3>1, <4>2, Top DEF FinishOperation, At
        <5>2. Last(stack).of # c
          BY <3>2, <5>1 DEF FrameMatches
        <5> QED BY <3>2, <4>2, <5>2 DEF FinishOperation, SetFuture, TypeOK
      <4> QED BY <1>2, <3>2, <4>1, <4>2 DEF WaitStep, RegisterWake, CheckDone, PollAgain,
              SetClosed, TakeWake, TakeHookCall, ReturnFromHook, SettleHook,
              InterruptWait
    <3> QED BY <3>1, <3>2, Top
  <2>a. ASSUME NEW p, stack' = Move(p), ~FinishOperation,
               {Last(stack).at, p} \subseteq Waiting \ {"finally"}
                 \/ {Last(stack).at, p} \subseteq InHook
        PROVE  Goal
    <3>0. PICK x : x = Last(stack).of
      OBVIOUS
    <3>1. /\ \A f \in Frames : Has(stack', f) =>
               Has(stack, f) \/ f = [at |-> p, of |-> x]
          /\ \A c : OnStack(c) => OnStack(c)'
      <4>1. {Last(stack).at, p} \subseteq Waiting \/ {Last(stack).at, p} \subseteq InHook
        BY <2>a
      <4>2. PICK N \in SUBSET Frames : N = {}
        OBVIOUS
      <4>3. \A y : Has(stack', y) <=> Has(Move(p), y) \/ y \in N
        BY <2>a, <4>2
      <4>4. /\ \A f \in Frames : Has(stack', f) =>
                 Has(stack, f) \/ f = [at |-> p, of |-> x] \/ f \in N
            /\ \A c : OnStack(c) => OnStack(c)'
        BY <2>0, <3>0, <4>1, <4>3, Moved
      <4> QED BY <4>2, <4>4
    <3>2. Last(stack).at \in Waiting => x \in Calls
      BY <2>0, <3>0, FrameKinds
    <3>3. Last(stack).at \in InHook => x \in Hooks
      BY <2>0, <3>0, FrameKinds
    <3>4. FrameMatches([at |-> p, of |-> x])'
      BY <3>0, <2>0, <2>a, <3>2, <3>3, NothingUndone DEF FrameMatches, Waiting, InHook
    <3>5. Fresh /\ Rest
      BY <2>0, <2>a, <3>1, <3>4
    <3> QED BY <1>0, <3>5
  <2>b. ASSUME NEW g \in Frames, stack' = Append(Move("check"), g), ~FinishOperation,
               Last(stack).at = "get", FrameMatches(g)'
        PROVE  Goal
    <3>1. {Last(stack).at, "check"} \subseteq Waiting
      BY <2>b DEF Waiting
    <3>2. Move("check") \in Seq(Frames)
      BY <2>0, <3>1, Top, ShapeMove
    <3>3. \A x : Has(stack', x) <=> Has(Move("check"), x) \/ x \in {g}
      BY <2>b, <3>2, StackMembers
    <3>0. PICK x : x = Last(stack).of
      OBVIOUS
    <3>4. /\ \A f \in Frames : Has(stack', f) =>
               Has(stack, f) \/ f = [at |-> "check", of |-> x] \/ f \in {g}
          /\ \A c : OnStack(c) => OnStack(c)'
      BY <2>0, <3>0, <3>1, <3>3, Moved
    <3>5. x \in Calls
      BY <2>0, <3>0, <3>1, FrameKinds
    <3>6. FrameMatches([at |-> "check", of |-> x])'
      BY <3>0, <2>0, <3>1, <3>5, NothingUndone DEF FrameMatches, InHook
    <3>7. Fresh /\ Rest
      BY <2>0, <2>b, <3>4, <3>6
    <3> QED BY <1>0, <3>7
  <2>c. ASSUME stack' = Front(stack),
               FinishOperation => Last(stack).at = "operation",
               Last(stack).at \in Waiting => Last(stack).at = "finally"
        PROVE  Goal
    <3>1. /\ \A f \in Frames : Has(stack', f) => Has(stack, f)
          /\ \A c : OnStack(c) =>
                      OnStack(c)' \/ (Last(stack).at \in Waiting /\ Last(stack).of = c)
      BY <2>0, <2>c, Left
    <3>2. ASSUME NEW f \in Frames, Has(stack', f), f.at = "operation" PROVE FALSE
      <4>1. PICK i \in 1..Len(stack') : stack'[i] = f
        BY <3>2 DEF Has
      <4>2. /\ Len(stack) \in Nat \ {0} /\ Len(stack') = Len(stack) - 1
            /\ stack'[i] = stack[i]
        BY <2>0, <2>c, <4>1, Leaving
      <4>3. i \in 1..Len(stack) /\ i # Len(stack)
        BY <4>1, <4>2
      <4> QED BY <2>0, <3>2, <4>1, <4>2, <4>3, Top DEF Shape
    <3>3. Last(stack).at = "finally" => outcome[Last(stack).of] # "none"
      BY <2>0 DEF FrameMatches
    <3>4. Rest
      BY <2>0, <2>c, <3>1, <3>3, NothingUndone
    <3> QED BY <1>0, <3>1, <3>2, <3>4
  <2>d. ASSUME NEW s \in {stack, Front(stack)}, s # << >>, Last(s).at = "check",
               NEW result \in {"returned", "raised"},
               EndWait(Last(s).of, Front(s), result), ~FinishOperation,
               s # stack => Last(stack).at \in InHook
        PROVE  Goal
    <3>1. /\ Last(s).of \in Calls /\ Has(stack, Last(s))
          /\ \A f \in Frames : Has(stack', f) =>
               Has(stack, f) \/ f = [at |-> "finally", of |-> Last(s).of]
          /\ \A c : OnStack(c) =>
               \/ OnStack(c)' \/ c = Last(s).of
               \/ s # stack /\ Last(stack).at \in Waiting
      BY <2>0, <2>d, Ended
    <3>2. outcome'[Last(s).of] # "none"
      BY <2>d, <3>1 DEF EndWait, TypeOK
    <3>3. Last(s) \in Frames
      BY <2>0, <2>d, Top, Leaving
    <3>4. future[Last(s).of] # "none"
      BY <2>d, <3>1, <3>3, StackSees DEF FrameMatches, Waiting
    <3>5. FrameMatches([at |-> "finally", of |-> Last(s).of])'
      BY <3>1, <3>2, <3>4, NothingUndone DEF FrameMatches, InHook
    <3>6. Last(stack).at \in InHook => Last(stack).at \notin Waiting
      BY DEF InHook, Waiting
    <3>7. Rest
      BY <2>0, <2>d, <3>1, <3>2, <3>6
    <3> QED BY <1>0, <2>d, <3>1, <3>5, <3>7
  <2> HIDE DEF Goal, Rest, Fresh
  <2>1. CASE RegisterWake
    BY <2>1, <2>a DEF RegisterWake, FinishOperation, At, Waiting
  <2>2. CASE CheckDone
    BY <2>0, <2>2, <2>a, <2>d DEF CheckDone, FinishOperation, At, Waiting
  <2>3. CASE PollAgain \/ TakeWake \/ TakeContinuation
    BY <2>3, <2>a DEF PollAgain, TakeWake, TakeContinuation, Takes, FinishOperation,
       At, Waiting
  <2>4. CASE SetClosed \/ SettleHook
    BY <2>4, <2>c DEF SetClosed, SettleHook, FinishOperation, At, Waiting
  <2>5. CASE TakeCommand
    <3>1. PICK c \in Ops \cup Closers :
            /\ c = Head(commands).of
            /\ future[c] = "pending" /\ loopFuture[c] = "none"
      BY <2>5, TakeFacts, ItemKinds DEF TakeCommand, ItemsMatch
    <3>2. [at |-> "operation", of |-> c] \in Frames
      BY FrameKinds
    <3>3. FrameMatches([at |-> "operation", of |-> c])'
      BY <2>5, <3>1 DEF TakeCommand, FrameMatches, Waiting, InHook, TypeOK, Calls
    <3> QED BY <2>5, <2>b, <3>1, <3>2, <3>3 DEF TakeCommand, Takes, FinishOperation, At
  <2>6. CASE FinishOperation
    BY <2>6, <2>c DEF FinishOperation, At, Waiting
  <2>7. CASE TakeHookCall
    <3>1. PICK h \in Hooks : h = Head(commands).of /\ completion[h] # "none"
      BY <2>7, TakeFacts, ItemKinds DEF TakeHookCall, ItemsMatch
    <3>2. [at |-> "hook", of |-> h] \in Frames
      BY FrameKinds DEF InHook
    <3>3. FrameMatches([at |-> "hook", of |-> h])'
      BY <2>7, <3>1 DEF TakeHookCall, FrameMatches, Waiting, InHook
    <3> QED BY <2>7, <2>b, <3>1, <3>2, <3>3 DEF TakeHookCall, Takes, FinishOperation, At
  <2>8. CASE ReturnFromHook
    BY <2>8, <2>a, <2>c DEF ReturnFromHook, FinishOperation, At, Waiting, InHook
  <2>9. CASE InterruptWait
    <3>1. /\ Last(stack).at \in InHook
          /\ Front(stack) # << >> /\ Last(Front(stack)).at = "check"
      BY <2>0, <2>9, Top, ShapeFront DEF InterruptWait, At, InHook
    <3>2. EndWait(Last(Front(stack)).of, Front(Front(stack)), "raised") /\ ~FinishOperation
      BY <2>9 DEF InterruptWait, FinishOperation, At
    <3> QED BY <2>d, <3>1, <3>2
  <2> QED BY <1>2, <2>1, <2>2, <2>3, <2>4, <2>5, <2>6, <2>7, <2>8, <2>9 DEF WaitStep
<1>3. ASSUME LoopStep PROVE Goal
  <2>1. UNCHANGED <<stack, outcome>>
    BY <1>3 DEF LoopStep, CompleteLoopFuture, CompleteTarget, DispatchSyncHook,
       CancelHook
  <2>2. ~FinishOperation
    <3>1. ASSUME FinishOperation PROVE FALSE
      <4>1. stack' = Front(stack) /\ stack # << >>
        BY <3>1 DEF FinishOperation, At
      <4>2. Len(stack') = Len(stack) - 1 /\ Len(stack) \in Nat
        BY <4>1, Leaving
      <4> QED BY <2>1, <4>2
    <3> QED BY <3>1
  <2>3. \A c \in Calls : future'[c] # "none" => future[c] # "none"
    BY <1>3 DEF LoopStep, CompleteLoopFuture, CompleteTarget, SetFuture, DispatchSyncHook,
       CancelHook, ItemsMatch, TypeOK
  <2>4. \A c : OnStack(c)' <=> OnStack(c)
    BY <2>1 DEF OnStack
  <2>5. Fresh /\ Rest
    BY <2>1, <2>2, <2>3, <2>4
  <2> QED BY <1>0, <2>5
<1>4. CASE UNCHANGED vars
  BY <1>4 DEF vars, FramesMatch, FrameMatches, CallsOnce, OnStack
<1> HIDE DEF Goal, Fresh, Rest
<1> QED BY <1>1, <1>2, <1>3, <1>4 DEF Next, AppStep

-----------------------------------------------------------------------------
(* No promise is dropped.                                                  *)

\* A step that moves no call on and takes no call's item drops no call.
LEMMA CallsTrackedKept ==
  ASSUME TypeOK, FuturesTracked, NEW c \in Ops \cup Closers,
         ~At({"operation"}) \/ UNCHANGED stack,
         future'[c] = future[c], loopFuture'[c] = loopFuture[c],
         InQueue(Command(c)) => InQueue(Command(c))',
         InQueue(Continuation(c)) => InQueue(Continuation(c))'
  PROVE  CallTracked(c)'
BY DEF FuturesTracked, CallTracked, At

\* The promise of a call moves on with it.
LEMMA CallsTrackedStep ==
  ASSUME TypeOK, StackShape, FuturesTracked, ItemsMatch, FramesMatch, CallsOnce,
         [Next]_vars, NEW c \in Ops \cup Closers
  PROVE  CallTracked(c)'
<1> c \in Calls /\ commands \in Seq(Items) /\ Wake \in Items
  BY ItemKinds DEF Calls, TypeOK
<1>0. UNCHANGED commands => \A x : InQueue(x)' <=> InQueue(x)
  BY DEF InQueue
<1>1. ASSUME NEW d \in Calls, BeginCall(d) \/ BeginClose(d) PROVE CallTracked(c)'
  <2>0. ~At({"operation"})
    BY <1>1 DEF BeginCall, BeginClose, At, AppRuns
  <2>1. CASE closed
    BY <1>0, <1>1, <2>0, <2>1, CallsTrackedKept DEF BeginCall, BeginClose
  <2>2. CASE ~closed
    <3>1. /\ d \in Ops \cup Closers
          /\ commands' = Append(commands, Command(d))
          /\ future' = [future EXCEPT ![d] = "pending"]
          /\ UNCHANGED loopFuture
      BY <1>1, <2>2 DEF BeginCall, BeginClose
    <3>2. \A x : InQueue(x)' <=> InQueue(x) \/ x = Command(d)
      BY <3>1, Put, ItemKinds
    <3>3. CASE c = d
      BY <3>1, <3>2, <3>3 DEF CallTracked, TypeOK
    <3>4. CASE c # d
      BY <2>0, <3>1, <3>2, <3>4, CallsTrackedKept
    <3> QED BY <3>3, <3>4
  <2> QED BY <2>1, <2>2
<1>2. ASSUME NEW w \in Calls, BeginWait(w) PROVE CallTracked(c)'
  <2>1. ~At({"operation"}) /\ w # c
    BY <1>2, CallsAssumption DEF BeginWait, At, AppRuns
  <2> QED BY <1>0, <1>2, <2>1, CallsTrackedKept DEF BeginWait
<1>3. ASSUME WaitStep PROVE CallTracked(c)'
  <2>1. CASE RegisterWake
    <3>1. ~At({"operation"}) /\ UNCHANGED <<future, loopFuture>>
      BY <2>1 DEF RegisterWake, At
    <3>2. \A x : InQueue(x) => InQueue(x)'
      BY <1>0, <2>1, Put DEF RegisterWake
    <3> QED BY <3>1, <3>2, CallsTrackedKept
  <2>2. CASE CheckDone \/ SetClosed \/ ReturnFromHook \/ SettleHook \/ InterruptWait
    <3>1. ~At({"operation"}) /\ UNCHANGED <<commands, future, loopFuture>>
      BY <2>2 DEF CheckDone, SetClosed, ReturnFromHook, SettleHook, InterruptWait, At
    <3> QED BY <1>0, <3>1, CallsTrackedKept
  <2>3. CASE PollAgain
    <3>1. ~At({"operation"}) /\ UNCHANGED <<commands, future, loopFuture>>
      BY <2>3 DEF PollAgain, At
    <3> QED BY <1>0, <3>1, CallsTrackedKept
  <2>4. CASE TakeWake \/ TakeHookCall
    <3>1. PICK kind \in {"wake", "hookCall"} : Takes(kind)
      BY <2>4 DEF TakeWake, TakeHookCall
    <3>2. ~At({"operation"}) /\ UNCHANGED <<future, loopFuture>> /\ commands' = Tail(commands)
      BY <2>4, <3>1, TakeFacts DEF TakeWake, TakeHookCall, At
    <3>3. Head(commands) # Command(c) /\ Head(commands) # Continuation(c)
      BY <3>1, TakeFacts DEF Command, Continuation
    <3>4. \A x : InQueue(x) <=> x = Head(commands) \/ InQueue(x)'
      BY <3>1, <3>2, TakeFacts, Get
    <3>5. /\ InQueue(Command(c)) => InQueue(Command(c))'
          /\ InQueue(Continuation(c)) => InQueue(Continuation(c))'
      BY <3>3, <3>4
    <3> QED BY <3>2, <3>5, CallsTrackedKept
  <2>5. CASE TakeCommand
    <3>1. /\ Takes("command") /\ commands' = Tail(commands)
          /\ future' = [future EXCEPT ![Head(commands).of] = "running"]
          /\ UNCHANGED loopFuture
          /\ ~At({"operation"})
      BY <2>5, TakeFacts DEF TakeCommand, At
    <3>2. PICK d \in Ops \cup Closers : d = Head(commands).of /\ Head(commands) = Command(d)
      BY <3>1, TakeFacts, ItemKinds
    <3>3. \A x : InQueue(x) <=> x = Command(d) \/ InQueue(x)'
      BY <3>1, <3>2, TakeFacts, Get
    <3>4. CASE d = c
      <4>1. Move("check") \in Seq(Frames) /\ [at |-> "operation", of |-> c] \in Frames
        BY <3>1, TakeFacts, Top, ShapeMove, FrameKinds DEF Waiting
      <4>2. stack' = Append(Move("check"), [at |-> "operation", of |-> c])
        BY <2>5, <3>2, <3>4 DEF TakeCommand
      <4>3. stack' # << >> /\ Last(stack') = [at |-> "operation", of |-> c]
        <5> DEFINE f == [at |-> "operation", of |-> c]
        <5>1. Append(Move("check"), f) \in Seq(Frames) /\ Append(Move("check"), f) # << >>
              /\ Append(Move("check"), f)[Len(Append(Move("check"), f))] = f
          BY <4>1, Entering
        <5> QED BY <4>2, <5>1 DEF Last
      <4>4. future'[c] = "running"
        BY <3>1, <3>2, <3>4 DEF TypeOK
      <4> QED BY <4>3, <4>4 DEF CallTracked, At
    <3>5. CASE d # c
      <4>1. future'[c] = future[c]
        BY <3>1, <3>2, <3>5
      <4>2. /\ InQueue(Command(c)) => InQueue(Command(c))'
            /\ InQueue(Continuation(c)) => InQueue(Continuation(c))'
        BY <3>3, <3>5, ItemsDiffer
      <4> QED BY <3>1, <4>1, <4>2, CallsTrackedKept
    <3> QED BY <3>4, <3>5
  <2>6. CASE FinishOperation
    <3>1. PICK d \in Ops \cup Closers : d = Last(stack).of
      BY <2>6, Top, FrameKinds DEF FinishOperation, At
    <3>2. \A x : InQueue(x) => InQueue(x)'
      BY <1>0, <2>6, Put DEF FinishOperation, SetFuture
    <3>3. CASE d = c
      <4>1. ASSUME NEW r \in {"error", "value"}, SetFuture(c, r, commands)
            PROVE  CallTracked(c)'
        BY <4>1 DEF SetFuture, CallTracked, TypeOK
      <4>2. ASSUME loopFuture' = [loopFuture EXCEPT ![c] = "pending"], UNCHANGED future
            PROVE  CallTracked(c)'
        <5>1. Last(stack).at = "operation" /\ FrameMatches(Last(stack))
          BY <2>6, Top DEF FinishOperation, At
        <5>2. future[c] = "running"
          BY <3>1, <3>3, <5>1 DEF FrameMatches
        <5> QED BY <4>2, <5>2 DEF CallTracked, TypeOK
      <4> QED BY <2>6, <3>1, <3>3, <4>1, <4>2 DEF FinishOperation
    <3>4. CASE d # c
      <4>1. future'[c] = future[c] /\ loopFuture'[c] = loopFuture[c]
        BY <2>6, <3>1, <3>4 DEF FinishOperation, SetFuture, TypeOK
      <4> QED BY <3>1, <3>2, <3>4, <4>1 DEF FuturesTracked, CallTracked
    <3> QED BY <3>3, <3>4
  <2>7. CASE TakeContinuation
    <3>1. Takes("continuation") /\ UNCHANGED loopFuture /\ ~At({"operation"})
      BY <2>7, TakeFacts DEF TakeContinuation, At
    <3>2. PICK d \in Ops \cup Closers :
            d = Head(commands).of /\ Head(commands) = Continuation(d)
      BY <3>1, TakeFacts, ItemKinds
    <3>3. future[d] = "running" /\ loopFuture[d] \in {"value", "error"}
      BY <3>1, <3>2, TakeFacts DEF ItemsMatch
    <3>4. SetFuture(d, loopFuture[d], Tail(commands))
      BY <2>7, <3>2, <3>3 DEF TakeContinuation, Done
    <3>5. \A x : x # Wake => (InQueue(x) <=> x = Continuation(d) \/ InQueue(x)')
      BY <3>1, <3>2, <3>4, TakeFacts, GetAndWake DEF SetFuture
    <3>6. CASE d = c
      BY <3>3, <3>4, <3>6 DEF SetFuture, CallTracked, TypeOK
    <3>7. CASE d # c
      <4>1. future'[c] = future[c]
        BY <3>4, <3>7 DEF SetFuture
      <4>2. /\ InQueue(Command(c)) => InQueue(Command(c))'
            /\ InQueue(Continuation(c)) => InQueue(Continuation(c))'
        BY <3>5, <3>7, ItemsDiffer
      <4> QED BY <3>1, <4>1, <4>2, CallsTrackedKept
    <3> QED BY <3>6, <3>7
  <2> QED BY <1>3, <2>1, <2>2, <2>3, <2>4, <2>5, <2>6, <2>7 DEF WaitStep
<1>4. ASSUME NEW d \in Ops \cup Closers, CompleteLoopFuture(d) PROVE CallTracked(c)'
  <2>0. \A x : InQueue(x) => InQueue(x)'
    BY <1>0, <1>4, Put, ItemKinds DEF CompleteLoopFuture, SetFuture
  <2>1. CASE d # c
    <3>1. future'[c] = future[c] /\ loopFuture'[c] = loopFuture[c] /\ UNCHANGED stack
      BY <1>4, <2>1 DEF CompleteLoopFuture, SetFuture, TypeOK
    <3> QED BY <2>0, <3>1, CallsTrackedKept
  <2>2. CASE d = c
    <3>1. future[c] = "running"
      BY <1>4, <2>2 DEF CompleteLoopFuture, ItemsMatch
    <3>2. CASE closed
      <4>1. SetFuture(c, "undelivered", commands)
        BY <1>4, <2>2, <3>1, <3>2 DEF CompleteLoopFuture, Done
      <4> QED BY <4>1 DEF SetFuture, CallTracked, TypeOK
    <3>3. CASE ~closed
      <4>1. commands' = Append(commands, Continuation(c)) /\ UNCHANGED future
        BY <1>4, <2>2, <3>3 DEF CompleteLoopFuture
      <4>2. \A x : x = Continuation(c) => InQueue(x)'
        BY <4>1, Put, ItemKinds
      <4> QED BY <3>1, <4>1, <4>2 DEF CallTracked
    <3> QED BY <3>2, <3>3
  <2> QED BY <2>1, <2>2
<1>5. ASSUME NEW w \in FutureWaits \cup EventWaits, CompleteTarget(w) PROVE CallTracked(c)'
  <2>1. w # c
    BY CallsAssumption
  <2>2. \A x : InQueue(x) => InQueue(x)'
    BY <1>0, <1>5, Put DEF CompleteTarget
  <2>3. future'[c] = future[c] /\ UNCHANGED <<stack, loopFuture>>
    BY <1>5, <2>1 DEF CompleteTarget
  <2> QED BY <2>2, <2>3, CallsTrackedKept
<1>6. ASSUME NEW h \in Hooks, DispatchSyncHook(h) \/ CancelHook(h) PROVE CallTracked(c)'
  <2>1. \A x : InQueue(x) => InQueue(x)'
    BY <1>0, <1>6, Put, ItemKinds DEF DispatchSyncHook, CancelHook
  <2>2. UNCHANGED <<stack, future, loopFuture>>
    BY <1>6 DEF DispatchSyncHook, CancelHook
  <2> QED BY <2>1, <2>2, CallsTrackedKept
<1>7. CASE UNCHANGED vars
  BY <1>0, <1>7, CallsTrackedKept DEF vars
<1> QED BY <1>1, <1>2, <1>3, <1>4, <1>5, <1>6, <1>7 DEF Next, AppStep, LoopStep

\* The promise of a hook moves on with it.
LEMMA HooksTrackedKept ==
  ASSUME TypeOK, FuturesTracked, NEW h \in Hooks,
         completion'[h] = "pending" => completion[h] = "pending",
         InQueue(HookCall(h)) => InQueue(HookCall(h))',
         completion'[h] = "pending" /\ HookOnStack(h) => HookOnStack(h)'
  PROVE  HookTracked(h)'
BY DEF FuturesTracked, HookTracked

LEMMA HooksTrackedStep ==
  ASSUME TypeOK, StackShape, FuturesTracked, ItemsMatch, [Next]_vars, NEW h \in Hooks
  PROVE  HookTracked(h)'
<1> commands \in Seq(Items) /\ Wake \in Items /\ stack' \in Seq(Frames)
  BY ItemKinds, TypeStep DEF TypeOK
<1>0. /\ UNCHANGED commands => \A x : InQueue(x)' <=> InQueue(x)
      /\ UNCHANGED stack => (HookOnStack(h) => HookOnStack(h)')
  BY DEF InQueue, HookOnStack
<1>1. ASSUME NEW c \in Calls, BeginCall(c) \/ BeginClose(c) \/ BeginWait(c)
      PROVE  HookTracked(h)'
  <2>1. HookOnStack(h) => HookOnStack(h)'
    <3>1. UNCHANGED stack \/ \E p \in Waiting : stack' = Push(p, c)
      BY <1>1 DEF BeginCall, BeginClose, BeginWait, Waiting
    <3> QED BY <1>0, <3>1, Pushed
  <2>2. InQueue(HookCall(h)) => InQueue(HookCall(h))'
    <3>1. \/ UNCHANGED commands
          \/ c \in Ops \cup Closers /\ commands' = Append(commands, Command(c))
      BY <1>1 DEF BeginCall, BeginClose, BeginWait
    <3>2. c \in Ops \cup Closers => Command(c) \in Items
      BY ItemKinds
    <3> QED BY <1>0, <3>1, <3>2, Put
  <2> QED BY <1>1, <2>1, <2>2, HooksTrackedKept DEF BeginCall, BeginClose, BeginWait
<1>2. ASSUME WaitStep PROVE HookTracked(h)'
  <2>a. ASSUME NEW p, stack' = Move(p), stack # << >>,
               {Last(stack).at, p} \subseteq Waiting \/ {Last(stack).at, p} \subseteq InHook
        PROVE  HookOnStack(h) => HookOnStack(h)'
    <3>1. PICK N \in SUBSET Frames : N = {}
      OBVIOUS
    <3>2. \A y : Has(stack', y) <=> Has(Move(p), y) \/ y \in N
      BY <2>a, <3>1
    <3> QED BY <2>a, <3>2, Moved
  <2>b. ASSUME NEW g \in Frames, stack' = Append(Move("check"), g), stack # << >>,
               Last(stack).at = "get"
        PROVE  /\ HookOnStack(h) => HookOnStack(h)'
               /\ g.at \in InHook /\ g.of = h => HookOnStack(h)'
    <3>1. {Last(stack).at, "check"} \subseteq Waiting
      BY <2>b DEF Waiting
    <3>2. Move("check") \in Seq(Frames)
      BY <2>b, <3>1, Top, ShapeMove
    <3>3. \A x : Has(stack', x) <=> Has(Move("check"), x) \/ x \in {g}
      BY <2>b, <3>2, Top, StackMembers
    <3>4. HookOnStack(h) => HookOnStack(h)'
      BY <2>b, <3>1, <3>3, Moved
    <3>5. g.at \in InHook /\ g.of = h => HookOnStack(h)'
      BY <3>3, StackSeesNext
    <3> QED BY <3>4, <3>5
  <2>c. ASSUME stack' = Front(stack), stack # << >>,
               Last(stack).at \in InHook /\ Last(stack).of = h => completion'[h] # "pending"
        PROVE  completion'[h] = "pending" /\ HookOnStack(h) => HookOnStack(h)'
    BY <2>c, Left
  <2>d. ASSUME NEW s \in {stack, Front(stack)}, s # << >>, Last(s).at = "check",
               NEW result, EndWait(Last(s).of, Front(s), result), stack # << >>,
               s # stack /\ Last(stack).of = h => completion'[h] # "pending"
        PROVE  completion'[h] = "pending" /\ HookOnStack(h) => HookOnStack(h)'
    BY <2>d, Ended
  <2>1. CASE RegisterWake
    <3>1. InQueue(HookCall(h)) => InQueue(HookCall(h))'
      BY <1>0, <2>1, Put DEF RegisterWake
    <3>2. HookOnStack(h) => HookOnStack(h)'
      BY <2>1, <2>a DEF RegisterWake, At, Waiting
    <3> QED BY <2>1, <3>1, <3>2, HooksTrackedKept DEF RegisterWake
  <2>2. CASE CheckDone
    <3>1. UNCHANGED <<commands, completion>> /\ stack # << >> /\ Last(stack).at = "check"
      BY <2>2 DEF CheckDone, At
    <3>2. completion'[h] = "pending" /\ HookOnStack(h) => HookOnStack(h)'
      <4>1. CASE stack' = Move("get")
        BY <2>a, <3>1, <4>1 DEF Waiting
      <4>2. ASSUME NEW result, EndWait(Last(stack).of, Front(stack), result)
            PROVE  completion'[h] = "pending" /\ HookOnStack(h) => HookOnStack(h)'
        BY <2>d, <3>1, <4>2
      <4> QED BY <2>2, <4>1, <4>2 DEF CheckDone
    <3> QED BY <1>0, <3>1, <3>2, HooksTrackedKept
  <2>3. CASE PollAgain
    <3>1. UNCHANGED <<commands, completion>>
      BY <2>3 DEF PollAgain
    <3>2. HookOnStack(h) => HookOnStack(h)'
      BY <2>3, <2>a DEF PollAgain, At, Waiting
    <3> QED BY <1>0, <3>1, <3>2, HooksTrackedKept
  <2>4. CASE SetClosed
    <3>1. UNCHANGED <<commands, completion>> /\ stack # << >> /\ Last(stack).at \notin InHook
      BY <2>4 DEF SetClosed, At, InHook
    <3>2. completion'[h] = "pending" /\ HookOnStack(h) => HookOnStack(h)'
      BY <2>4, <2>c, <3>1 DEF SetClosed
    <3> QED BY <1>0, <3>1, <3>2, HooksTrackedKept
  <2>5. CASE TakeWake \/ TakeContinuation
    <3>1. PICK kind \in {"wake", "continuation"} : Takes(kind)
      BY <2>5 DEF TakeWake, TakeContinuation
    <3>2. Head(commands) # HookCall(h) /\ HookCall(h) # Wake
      BY <3>1, TakeFacts, ItemsDiffer DEF HookCall
    <3>3. InQueue(HookCall(h)) => InQueue(HookCall(h))'
      <4>1. commands' = Tail(commands) \/ commands' = Append(Tail(commands), Wake)
        BY <2>5 DEF TakeWake, TakeContinuation, SetFuture
      <4> QED BY <3>1, <3>2, <4>1, TakeFacts, Get, GetAndWake
    <3>4. HookOnStack(h) => HookOnStack(h)'
      BY <2>5, <2>a, <3>1, TakeFacts DEF TakeWake, TakeContinuation, Waiting
    <3>5. UNCHANGED completion
      BY <2>5 DEF TakeWake, TakeContinuation
    <3> QED BY <3>3, <3>4, <3>5, HooksTrackedKept
  <2>6. CASE TakeCommand
    <3>1. /\ Takes("command") /\ commands' = Tail(commands) /\ UNCHANGED completion
      BY <2>6 DEF TakeCommand
    <3>2. PICK d \in Ops \cup Closers : d = Head(commands).of /\ Head(commands) = Command(d)
      BY <3>1, TakeFacts, ItemKinds
    <3>3. InQueue(HookCall(h)) => InQueue(HookCall(h))'
      BY <3>1, <3>2, TakeFacts, Get, ItemsDiffer
    <3>4. HookOnStack(h) => HookOnStack(h)'
      BY <2>6, <2>b, <3>1, <3>2, TakeFacts, FrameKinds DEF TakeCommand
    <3> QED BY <3>1, <3>3, <3>4, HooksTrackedKept
  <2>7. CASE FinishOperation
    <3>1. UNCHANGED completion /\ stack # << >> /\ Last(stack).at \notin InHook
      BY <2>7 DEF FinishOperation, At, InHook
    <3>2. InQueue(HookCall(h)) => InQueue(HookCall(h))'
      BY <1>0, <2>7, Put DEF FinishOperation, SetFuture
    <3>3. completion'[h] = "pending" /\ HookOnStack(h) => HookOnStack(h)'
      BY <2>7, <2>c, <3>1 DEF FinishOperation
    <3> QED BY <3>1, <3>2, <3>3, HooksTrackedKept
  <2>8. CASE TakeHookCall
    <3>1. Takes("hookCall") /\ commands' = Tail(commands) /\ UNCHANGED completion
      BY <2>8 DEF TakeHookCall
    <3>2. PICK g \in Hooks : g = Head(commands).of /\ Head(commands) = HookCall(g)
      BY <3>1, TakeFacts, ItemKinds
    <3>3. stack' = Append(Move("check"), [at |-> "hook", of |-> g])
      BY <2>8, <3>2 DEF TakeHookCall
    <3>4. [at |-> "hook", of |-> g] \in Frames /\ "hook" \in InHook
      BY FrameKinds DEF InHook
    <3>5. /\ HookOnStack(h) => HookOnStack(h)'
          /\ g = h => HookOnStack(h)'
      BY <2>b, <3>1, <3>3, <3>4, TakeFacts
    <3>6. InQueue(HookCall(h)) => InQueue(HookCall(h))' \/ g = h
      BY <3>1, <3>2, TakeFacts, Get, ItemsDiffer
    <3>7. CASE g = h
      BY <3>5, <3>7 DEF HookTracked
    <3>8. CASE g # h
      BY <3>1, <3>5, <3>6, <3>8, HooksTrackedKept
    <3> QED BY <3>7, <3>8
  <2>9. CASE ReturnFromHook
    <3>1. UNCHANGED <<commands, completion>> /\ stack # << >> /\ Last(stack).at = "hook"
      BY <2>9 DEF ReturnFromHook, At
    <3>2. completion'[h] = "pending" /\ HookOnStack(h) => HookOnStack(h)'
      <4>1. CASE stack' = Front(stack) /\ completion[Last(stack).of] \in Done
        BY <2>c, <3>1, <4>1 DEF Done
      <4>2. ASSUME NEW p \in {"set_result", "set_exception"}, stack' = Move(p)
            PROVE  HookOnStack(h) => HookOnStack(h)'
        BY <2>a, <3>1, <4>2 DEF InHook
      <4> QED BY <2>9, <4>1, <4>2 DEF ReturnFromHook
    <3> QED BY <1>0, <3>1, <3>2, HooksTrackedKept
  <2>10. CASE SettleHook
    <3>1. PICK g \in Hooks : g = Last(stack).of
      BY <2>10, Top, FrameKinds DEF SettleHook, At, InHook
    <3>2. /\ UNCHANGED commands /\ stack # << >> /\ stack' = Front(stack)
          /\ completion'[g] # "pending"
          /\ completion'[h] = "pending" => completion[h] = "pending"
      BY <2>10, <3>1 DEF SettleHook, At, TypeOK
    <3>3. completion'[h] = "pending" /\ HookOnStack(h) => HookOnStack(h)'
      BY <2>c, <3>1, <3>2
    <3> QED BY <1>0, <3>2, <3>3, HooksTrackedKept
  <2>11. CASE InterruptWait
    <3>1. /\ UNCHANGED <<commands, completion>> /\ stack # << >>
          /\ Last(stack).at \in InHook /\ completion[Last(stack).of] \in Done
          /\ Front(stack) # << >> /\ Last(Front(stack)).at = "check"
          /\ EndWait(Last(Front(stack)).of, Front(Front(stack)), "raised")
      BY <2>11, Top, ShapeFront DEF InterruptWait, At, InHook
    <3>2. completion'[h] = "pending" /\ HookOnStack(h) => HookOnStack(h)'
      BY <2>d, <3>1 DEF Done
    <3> QED BY <1>0, <3>1, <3>2, HooksTrackedKept
  <2> QED BY <1>2, <2>1, <2>2, <2>3, <2>4, <2>5, <2>6, <2>7, <2>8, <2>9, <2>10,
             <2>11 DEF WaitStep
<1>3. ASSUME LoopStep PROVE HookTracked(h)'
  <2>0. HookOnStack(h) => HookOnStack(h)'
    BY <1>0, <1>3 DEF LoopStep, CompleteLoopFuture, CompleteTarget, DispatchSyncHook,
       CancelHook
  <2>1. ASSUME NEW c \in Ops \cup Closers, CompleteLoopFuture(c) PROVE HookTracked(h)'
    <3>1. InQueue(HookCall(h)) => InQueue(HookCall(h))'
      BY <1>0, <2>1, Put, ItemKinds DEF CompleteLoopFuture, SetFuture
    <3> QED BY <2>0, <2>1, <3>1, HooksTrackedKept DEF CompleteLoopFuture
  <2>2. ASSUME NEW w \in FutureWaits \cup EventWaits, CompleteTarget(w)
        PROVE  HookTracked(h)'
    <3>1. InQueue(HookCall(h)) => InQueue(HookCall(h))'
      BY <1>0, <2>2, Put DEF CompleteTarget
    <3> QED BY <2>0, <2>2, <3>1, HooksTrackedKept DEF CompleteTarget
  <2>3. ASSUME NEW g \in Hooks, DispatchSyncHook(g) PROVE HookTracked(h)'
    <3>1. InQueue(HookCall(h)) => InQueue(HookCall(h))'
      BY <1>0, <2>3, Put, ItemKinds DEF DispatchSyncHook
    <3>2. CASE g # h \/ closed
      <4>1. completion'[h] = "pending" => completion[h] = "pending"
        BY <2>3, <3>2 DEF DispatchSyncHook, TypeOK
      <4> QED BY <2>0, <3>1, <4>1, HooksTrackedKept
    <3>3. CASE g = h /\ ~closed
      <4>1. commands' = Append(commands, HookCall(h))
        BY <2>3, <3>3 DEF DispatchSyncHook
      <4>2. \A x : x = HookCall(h) => InQueue(x)'
        BY <4>1, Put, ItemKinds
      <4> QED BY <4>2 DEF HookTracked
    <3> QED BY <3>2, <3>3
  <2>4. ASSUME NEW g \in Hooks, CancelHook(g) PROVE HookTracked(h)'
    <3>1. completion'[h] = "pending" => completion[h] = "pending"
      BY <2>4 DEF CancelHook, TypeOK
    <3> QED BY <1>0, <2>0, <2>4, <3>1, HooksTrackedKept DEF CancelHook
  <2> QED BY <1>3, <2>1, <2>2, <2>3, <2>4 DEF LoopStep
<1>4. CASE UNCHANGED vars
  BY <1>0, <1>4, HooksTrackedKept DEF vars
<1> QED BY <1>1, <1>2, <1>3, <1>4 DEF Next, AppStep

-----------------------------------------------------------------------------
(* The invariant.                                                          *)

\* The promise to settle each future is kept in one place, wherever the waits
\* nest: PumpInv holds in every state (agent.py:487-538).
THEOREM PumpCorrect == Spec => []PumpInv
<1>1. Init => PumpInv
  <2>1. ASSUME Init PROVE PumpInv
    <3>1. commands = << >> /\ stack = << >> /\ DOMAIN commands = {} /\ DOMAIN stack = {}
      BY <2>1 DEF Init
    <3>2. TypeOK
      <4>1. commands \in Seq(Items) /\ stack \in Seq(Frames)
        BY <3>1
      <4>2. Calls = Ops \cup Closers \cup FutureWaits \cup EventWaits
        BY DEF Calls
      <4> QED BY <2>1, <4>1, <4>2 DEF Init, TypeOK
    <3>3. StackShape /\ FramesMatch
      BY <3>1 DEF StackShape, FramesMatch
    <3>4. /\ \A c \in Calls : future[c] = "none"
          /\ \A c \in Ops \cup Closers : future[c] = "none" /\ loopFuture[c] = "none"
          /\ \A h \in Hooks : completion[h] = "none"
          /\ \A x : ~InQueue(x)
      BY <2>1, <3>1 DEF Init, InQueue, Calls
    <3>5. ItemsMatch
      BY <3>1, <3>4 DEF ItemsMatch, QueuedOnce
    <3>6. FuturesTracked /\ CallsOnce
      BY <3>4 DEF FuturesTracked, CallTracked, HookTracked, CallsOnce
    <3> QED BY <3>2, <3>3, <3>5, <3>6 DEF PumpInv
  <2> QED BY <2>1
<1>2. PumpInv /\ [Next]_vars => PumpInv'
  <2>1. ASSUME PumpInv, [Next]_vars PROVE PumpInv'
    <3>1. FuturesTracked'
      BY <2>1, CallsTrackedStep, HooksTrackedStep DEF FuturesTracked, PumpInv
    <3> QED BY <2>1, <3>1, TypeStep, ItemsStep, FramesStep DEF PumpInv
  <2> QED BY <2>1
<1> QED BY <1>1, <1>2, PTL DEF Spec

-----------------------------------------------------------------------------
(* Wake-ups.                                                               *)

\* Only CheckDone brings a wait to get(): what comes to light when frames go
\* is the check of a wait, or a hook.
LEMMA OnlyCheckGets ==
  ASSUME TypeOK, StackShape, WaitStep, At({"get"})'
  PROVE  CheckDone \/ UNCHANGED stack
<1> DEFINE Goal == CheckDone \/ UNCHANGED stack
           At1 == At({"get"})'
<1> SUFFICES Goal
  OBVIOUS
<1>0. At1 /\ stack' # << >> /\ Last(stack').at = "get"
  BY DEF At
<1>1. ASSUME NEW places, At(places), NEW p, stack' = Move(p),
             \A q \in places : {q, p} \subseteq Waiting \/ {q, p} \subseteq InHook
      PROVE  p = "get"
  <2>1. Last(Move(p)) = [at |-> p, of |-> Last(stack).of]
    BY <1>1, StackIs, ShapeMove DEF At, TypeOK
  <2> QED BY <1>0, <1>1, <2>1
<1>a. ASSUME NEW s \in Seq(Frames), NEW f \in Frames PROVE Last(Append(s, f)) = f
  BY Entering DEF Last
<1>2. ASSUME NEW f \in Frames, At({"get"}), stack' = Append(Move("check"), f)
      PROVE  f.at = "get"
  <2>1. Move("check") \in Seq(Frames)
    BY <1>2, StackIs, ShapeMove DEF At, TypeOK, Waiting
  <2>2. Last(stack') = f
    BY <1>2, <1>a, <2>1
  <2> QED BY <1>0, <2>2
<1>3. stack # << >> => stack' # Front(stack)
  <2>1. ASSUME stack # << >>, stack' = Front(stack) PROVE FALSE
    <3>1. Last(stack).at \in Waiting \cup InHook \cup {"operation"}
      BY <2>1, Top, FrameKinds
    <3> QED BY <1>0, <2>1, <3>1, Top, ShapeFront
  <2> QED BY <2>1
<1>4. CASE RegisterWake \/ PollAgain \/ TakeWake \/ TakeContinuation
  BY <1>1, <1>4 DEF RegisterWake, PollAgain, TakeWake, TakeContinuation, Takes, Waiting
<1>5. CASE SetClosed \/ FinishOperation \/ SettleHook
  BY <1>3, <1>5 DEF SetClosed, FinishOperation, SettleHook, At
<1>6. CASE ReturnFromHook
  BY <1>1, <1>3, <1>6 DEF ReturnFromHook, At, InHook
<1>7. CASE TakeCommand \/ TakeHookCall
  <2>1. Takes("command") \/ Takes("hookCall")
    BY <1>7 DEF TakeCommand, TakeHookCall
  <2>2. /\ Head(commands) \in Items
        /\ Head(commands).kind = "command" => Head(commands).of \in Ops \cup Closers
        /\ Head(commands).kind = "hookCall" => Head(commands).of \in Hooks
    BY <2>1, TakeFacts, ItemKinds
  <2> QED BY <1>2, <1>7, <2>2, FrameKinds DEF TakeCommand, TakeHookCall, Takes, InHook
<1>8. CASE InterruptWait
  <2>1. /\ stack # << >> /\ Last(stack).at \in InHook
        /\ EndWait(Last(Front(stack)).of, Front(Front(stack)), "raised")
    BY <1>8 DEF InterruptWait, At, InHook
  <2>2. /\ Front(stack) \in Seq(Frames) /\ Front(stack) # << >> /\ Shape(Front(stack))
        /\ Last(Front(stack)).at = "check" /\ Last(Front(stack)) \in Frames
    BY <2>1, Top, ShapeFront, Leaving
  <2>3. /\ Front(Front(stack)) \in Seq(Frames)
        /\ Front(Front(stack)) = << >> \/ Last(Front(Front(stack))).at = "hook"
    BY <2>2, ShapeFront, Leaving DEF Waiting
  <2>4. [at |-> "finally", of |-> Last(Front(stack)).of] \in Frames
    BY <2>2, FrameKinds DEF Waiting
  <2>5. Last(Append(Front(Front(stack)), [at |-> "finally", of |-> Last(Front(stack)).of]))
          = [at |-> "finally", of |-> Last(Front(stack)).of]
    BY <1>a, <2>3, <2>4
  <2> QED BY <1>0, <2>1, <2>3, <2>5 DEF EndWait
<1> HIDE DEF Goal
<1> QED BY <1>4, <1>5, <1>6, <1>7, <1>8 DEF WaitStep, Goal

\* A wait that blocks has not missed its wake-up: no step of the wait, of a
\* wait inside it or of the loop thread empties the queue under it.
LEMMA WakeupStep == PumpInv /\ NoLostWakeup /\ [Next]_vars => NoLostWakeup'
<1> SUFFICES ASSUME PumpInv, NoLostWakeup, [Next]_vars,
                    At({"get"})', commands' = << >>,
                    (Last(stack).of)' \notin EventWaits
             PROVE  future'[Last(stack').of] \notin Done
  BY DEF NoLostWakeup
<1> DEFINE Goal == future'[Last(stack').of] \notin Done
           AtGet == At({"get"})'
<1> SUFFICES Goal
  OBVIOUS
<1>0. /\ TypeOK /\ StackShape /\ ItemsMatch
      /\ commands \in Seq(Items) /\ stack \in Seq(Frames)
      /\ \A x \in Items : commands' # Append(commands, x)
      /\ AtGet /\ Last(stack').of \notin EventWaits
      /\ stack' # << >> /\ Last(stack').at = "get"
  <2>1. /\ TypeOK /\ StackShape /\ ItemsMatch /\ commands \in Seq(Items)
        /\ stack \in Seq(Frames)
    BY DEF PumpInv, TypeOK
  <2>2. \A x \in Items : Append(commands, x) # << >>
    BY <2>1
  <2> QED BY <2>1, <2>2 DEF At
<1>1. ASSUME UNCHANGED <<stack, commands>>
      PROVE  future[Last(stack').of] \notin Done
  BY <1>0, <1>1 DEF NoLostWakeup, At
<1>2. CASE UNCHANGED <<stack, commands, future>>
  BY <1>1, <1>2
<1>3. ASSUME AppStep PROVE Goal
  <2>1. PICK c \in Calls : BeginCall(c) \/ BeginClose(c) \/ BeginWait(c)
    BY <1>3 DEF AppStep
  <2>2. ASSUME NEW p \in {"check", "register"}, stack' = Push(p, c) PROVE FALSE
    <3>1. [at |-> p, of |-> c] \in Frames
      BY FrameKinds DEF Waiting
    <3>2. Last(stack') = [at |-> p, of |-> c]
      BY <1>0, <2>2, <3>1, Entering DEF Push, Last
    <3> QED BY <1>0, <3>2
  <2> QED BY <1>2, <2>1, <2>2 DEF BeginCall, BeginClose, BeginWait
<1>4. ASSUME WaitStep PROVE Goal
  <2>1. CheckDone \/ UNCHANGED stack
    BY <1>0, <1>4, OnlyCheckGets
  <2>2. CASE CheckDone
    <3>1. CASE stack' = Move("get") /\ future[Last(stack).of] \notin Done
      <4>1. stack # << >> /\ {Last(stack).at, "get"} \subseteq Waiting
        BY <2>2 DEF CheckDone, At, Waiting
      <4>2. Last(stack') = [at |-> "get", of |-> Last(stack).of]
        BY <1>0, <3>1, <4>1, StackIs, ShapeMove
      <4> QED BY <2>2, <3>1, <4>2 DEF CheckDone
    <3>2. ASSUME NEW result, EndWait(Last(stack).of, Front(stack), result) PROVE FALSE
      <4>1. stack # << >> /\ Last(stack).at = "check" /\ "check" \in Waiting
        BY <2>2 DEF CheckDone, At, Waiting
      <4>2. /\ Front(stack) \in Seq(Frames) /\ Last(stack) \in Frames
            /\ Front(stack) = << >> \/ Last(Front(stack)).at = "hook"
        BY <1>0, <4>1, Top, ShapeFront
      <4>3. [at |-> "finally", of |-> Last(stack).of] \in Frames
        BY <4>1, <4>2, FrameKinds DEF Waiting
      <4>4. Last(Append(Front(stack), [at |-> "finally", of |-> Last(stack).of]))
              = [at |-> "finally", of |-> Last(stack).of]
        BY <4>2, <4>3, Entering DEF Last
      <4> QED BY <1>0, <3>2, <4>2, <4>4 DEF EndWait
    <3> QED BY <2>2, <3>1, <3>2 DEF CheckDone
  <2>3. CASE UNCHANGED stack
    <3>1. stack # << >> /\ Last(stack).at = "get"
      BY <1>0, <2>3
    <3>2. \A p : Move(p) # stack \/ p = "get"
      <4>1. ASSUME NEW p, Move(p) = stack PROVE p = "get"
        <5>1. Last(stack) = stack[Len(stack)] /\ Len(stack) \in DOMAIN stack
          BY <1>0, <3>1, Leaving
        <5>2. Move(p)[Len(stack)] = [stack[Len(stack)] EXCEPT !.at = p]
          BY <5>1 DEF Move
        <5>3. stack[Len(stack)] \in Frames
          BY <1>0, <3>1, <5>1, Leaving
        <5> QED BY <3>1, <4>1, <5>1, <5>2, <5>3 DEF Frames
      <4> QED BY <4>1
    <3>3. \A p : \A f \in Frames : Append(Move("check"), f) # stack
      <4>1. Move("check") \in Seq(Frames) /\ Len(Move("check")) = Len(stack)
        BY <1>0, <3>1, Moving, StackIs, ShapeMove DEF Waiting
      <4> QED BY <1>0, <4>1, Entering
    <3>4. ~TakeCommand /\ ~TakeHookCall
      <4>1. ASSUME TakeCommand \/ TakeHookCall PROVE FALSE
        <5>1. Takes("command") \/ Takes("hookCall")
          BY <4>1 DEF TakeCommand, TakeHookCall
        <5>2. /\ Head(commands) \in Items
              /\ Head(commands).kind = "command" => Head(commands).of \in Ops \cup Closers
              /\ Head(commands).kind = "hookCall" => Head(commands).of \in Hooks
          BY <1>0, <5>1, TakeFacts, ItemKinds
        <5> QED BY <2>3, <3>3, <4>1, <5>2, FrameKinds DEF TakeCommand, TakeHookCall,
                   Takes, InHook
      <4> QED BY <4>1
    <3>5. ~RegisterWake /\ ~PollAgain /\ ~TakeWake /\ ~TakeContinuation
      BY <2>3, <3>2 DEF RegisterWake, PollAgain, TakeWake, TakeContinuation
    <3>6. ~SetClosed /\ ~FinishOperation /\ ~SettleHook /\ ~ReturnFromHook /\ ~InterruptWait
      BY <3>1 DEF SetClosed, FinishOperation, SettleHook, ReturnFromHook,
         InterruptWait, At
    <3> QED BY <1>4, <2>2, <3>4, <3>5, <3>6 DEF WaitStep
  <2> QED BY <2>1, <2>2, <2>3
<1>5. ASSUME LoopStep PROVE Goal
  <2>0. UNCHANGED stack
    BY <1>5 DEF LoopStep, CompleteLoopFuture, CompleteTarget, DispatchSyncHook, CancelHook
  <2>1. ASSUME NEW c \in Ops \cup Closers, CompleteLoopFuture(c) PROVE Goal
    <3>1. UNCHANGED <<commands, future>>
      BY <1>0, <2>1, ItemKinds DEF CompleteLoopFuture, SetFuture
    <3> QED BY <1>2, <2>0, <3>1
  <2>2. ASSUME NEW w \in FutureWaits \cup EventWaits, CompleteTarget(w) PROVE Goal
    <3>1. UNCHANGED commands
      BY <1>0, <2>2, ItemKinds DEF CompleteTarget
    <3>2. ~\E i \in DOMAIN stack : /\ stack[i].of = w /\ w \in FutureWaits
                                   /\ stack[i].at \in {"check", "get"}
      BY <1>0, <2>2, <3>1, ItemKinds DEF CompleteTarget
    <3>3. Len(stack) \in DOMAIN stack /\ Last(stack) = stack[Len(stack)]
      BY <1>0, <2>0, Leaving
    <3>4. Last(stack).of # w
      BY <1>0, <2>0, <2>2, <3>2, <3>3
    <3>5. future'[Last(stack).of] = future[Last(stack).of]
      BY <2>2, <3>4 DEF CompleteTarget
    <3> QED BY <1>1, <2>0, <3>1, <3>5
  <2>3. ASSUME NEW h \in Hooks, DispatchSyncHook(h) \/ CancelHook(h) PROVE Goal
    BY <1>0, <1>2, <2>0, <2>3, ItemKinds DEF DispatchSyncHook, CancelHook
  <2> QED BY <1>5, <2>1, <2>2, <2>3 DEF LoopStep
<1>6. CASE UNCHANGED vars
  BY <1>2, <1>6 DEF vars
<1> HIDE DEF Goal
<1> QED BY <1>3, <1>4, <1>5, <1>6 DEF Next

\* NoLostWakeup holds in every state (agent.py:500-510).
THEOREM NoWakeupLost == Spec => []NoLostWakeup
<1>1. Init => NoLostWakeup
  BY DEF Init, NoLostWakeup, At
<1> QED BY <1>1, WakeupStep, PumpCorrect, PTL DEF Spec

-----------------------------------------------------------------------------
(* The refinement.                                                         *)

\* What a step looks like to the service when it concerns one call or one
\* hook.
LEMMA RequestMoves ==
  ASSUME NEW r \in Requests,
         \A c \in (Ops \cup Closers) \ {r} : /\ future'[c] = future[c]
                                             /\ outcome'[c] = outcome[c],
         \A h \in Hooks \ {r} : completion'[h] = completion[h],
         NEW s, s = IF r \in Hooks THEN HookState(r)' ELSE CallState(r)'
  PROVE  RequestState' = [RequestState EXCEPT ![r] = s]
<1>1. ASSUME NEW c \in Ops \cup Closers, c # r PROVE CallState(c)' = CallState(c)
  BY <1>1 DEF CallState
<1>2. ASSUME NEW h \in Hooks, h # r PROVE HookState(h)' = HookState(h)
  BY <1>2 DEF HookState
<1> QED BY <1>1, <1>2 DEF RequestState, Requests

\* Every step is one of the service, or one it does not see.
LEMMA ServiceStep == PumpInv /\ [Next]_vars => [Service!SNext]_(Service!svars)
<1> SUFFICES ASSUME PumpInv, [Next]_vars
             PROVE  Service!SNext \/ UNCHANGED Service!svars
  OBVIOUS
<1> DEFINE Goal == Service!SNext \/ UNCHANGED Service!svars
           Requested(r) == IF r \in Hooks THEN HookState(r) ELSE CallState(r)
<1> SUFFICES Goal
  OBVIOUS
<1>0. TypeOK /\ StackShape /\ ItemsMatch /\ FramesMatch /\ CallsOnce
  BY DEF PumpInv
<1>c. \A d \in Ops \cup Closers : d \in Calls
  BY DEF Calls
<1>1. ASSUME UNCHANGED <<closed, completion>>,
             \A c \in Ops \cup Closers : CallState(c)' = CallState(c)
      PROVE  Goal
  <2>1. \A h \in Hooks : HookState(h)' = HookState(h)
    BY <1>1 DEF HookState
  <2> QED BY <1>1, <2>1 DEF Service!svars, RequestState, Requests
<1>2. ASSUME NEW r \in Requests, UNCHANGED closed,
             \A c \in (Ops \cup Closers) \ {r} : /\ future'[c] = future[c]
                                                 /\ outcome'[c] = outcome[c],
             \A h \in Hooks \ {r} : completion'[h] = completion[h],
             NEW s, s = IF r \in Hooks THEN HookState(r)' ELSE CallState(r)',
             \/ s = Requested(r)
             \/ ~closed /\ Requested(r) = "new" /\ s = "accepted"
             \/ closed /\ Requested(r) = "new" /\ s = "refused"
             \/ Requested(r) = "accepted" /\ s \in {"value", "error", "cancelled"}
             \/ closed /\ Requested(r) = "accepted" /\ s = "undelivered"
      PROVE  Goal
  <2>1. RequestState' = [RequestState EXCEPT ![r] = s]
    BY <1>2, RequestMoves
  <2>2. RequestState[r] = Requested(r)
    BY DEF RequestState
  <2> HIDE DEF Requested
  <2>3. CASE s = Requested(r)
    BY <1>2, <2>1, <2>2, <2>3 DEF Service!svars, RequestState
  <2>4. CASE s # Requested(r)
    <3>1. Service!Accept(r) \/ Service!Refuse(r) \/ Service!Answer(r)
          \/ Service!Abandon(r)
      BY <1>2, <2>1, <2>2, <2>4 DEF Service!Accept, Service!Refuse, Service!Answer,
         Service!Abandon, Service!Becomes
    <3> QED BY <3>1 DEF Service!SNext
  <2> QED BY <2>3, <2>4
<1>3. ASSUME NEW c \in Ops \cup Closers, UNCHANGED <<closed, completion>>,
             \A d \in (Ops \cup Closers) \ {c} : /\ future'[d] = future[d]
                                                 /\ outcome'[d] = outcome[d],
             \/ CallState(c)' = CallState(c)
             \/ ~closed /\ CallState(c) = "new" /\ CallState(c)' = "accepted"
             \/ closed /\ CallState(c) = "new" /\ CallState(c)' = "refused"
             \/ CallState(c) = "accepted" /\ CallState(c)' \in {"value", "error"}
             \/ closed /\ CallState(c) = "accepted" /\ CallState(c)' = "undelivered"
      PROVE  Goal
  <2>1. c \in Requests /\ c \notin Hooks
    BY CallsAssumption DEF Requests, Calls
  <2> QED BY <1>2, <1>3, <2>1
<1>4. ASSUME NEW h \in Hooks, UNCHANGED <<closed, future, outcome>>,
             \A g \in Hooks \ {h} : completion'[g] = completion[g],
             \/ HookState(h)' = HookState(h)
             \/ ~closed /\ HookState(h) = "new" /\ HookState(h)' = "accepted"
             \/ closed /\ HookState(h) = "new" /\ HookState(h)' = "refused"
             \/ /\ HookState(h) = "accepted"
                /\ HookState(h)' \in {"value", "error", "cancelled"}
      PROVE  Goal
  <2>1. h \in Requests
    BY DEF Requests
  <2> QED BY <1>2, <1>4, <2>1
<1>5. ASSUME UNCHANGED <<closed, completion, future, outcome>> PROVE Goal
  BY <1>1, <1>5 DEF CallState
<1>6. ASSUME NEW c, UNCHANGED <<closed, completion, future>>,
             NEW result, outcome' = [outcome EXCEPT ![c] = result],
             c \in Calls => future[c] # "none"
      PROVE  Goal
  <2>1. ASSUME NEW d \in Ops \cup Closers PROVE CallState(d)' = CallState(d)
    <3>1. d \in Calls
      BY DEF Calls
    <3>2. outcome \in [Calls -> {"none", "returned", "raised"}]
          /\ future[d] \in {"none", "pending", "running"} \cup Done
      BY <1>0, <3>1 DEF TypeOK
    <3>3. CASE d = c
      BY <1>6, <3>1, <3>2, <3>3 DEF CallState
    <3>4. CASE d # c
      BY <1>6, <3>1, <3>2, <3>4 DEF CallState
    <3> QED BY <3>3, <3>4
  <2> QED BY <1>1, <1>6, <2>1
<1> HIDE DEF Goal, Requested
<1>7. ASSUME NEW c \in Calls, BeginCall(c) \/ BeginClose(c) \/ BeginWait(c) PROVE Goal
  <2>1. future[c] = "none" /\ outcome[c] = "none"
    BY <1>0, <1>7 DEF BeginCall, BeginClose, BeginWait, CallsOnce
  <2>2. /\ future \in [Calls -> {"none", "pending", "running"} \cup Done]
        /\ outcome \in [Calls -> {"none", "returned", "raised"}]
    BY <1>0 DEF TypeOK
  <2>3. CASE BeginCall(c) \/ BeginClose(c)
    <3>1. c \in Ops \cup Closers
      BY <2>3 DEF BeginCall, BeginClose
    <3>2. /\ UNCHANGED <<closed, completion>>
          /\ \A d \in (Ops \cup Closers) \ {c} : /\ future'[d] = future[d]
                                                 /\ outcome'[d] = outcome[d]
      BY <1>c, <2>2, <2>3 DEF BeginCall, BeginClose
    <3>3. CallState(c) = "new"
      BY <2>1 DEF CallState, Done
    <3>4. \/ CallState(c)' = "new"
          \/ ~closed /\ CallState(c)' = "accepted"
          \/ closed /\ CallState(c)' = "refused"
      BY <2>1, <2>2, <2>3 DEF BeginCall, BeginClose, CallState, Done
    <3> QED BY <1>3, <3>1, <3>2, <3>3, <3>4
  <2>4. CASE BeginWait(c)
    <3>1. ASSUME NEW d \in Ops \cup Closers PROVE CallState(d)' = CallState(d)
      BY <2>2, <2>4, <3>1, CallsAssumption DEF BeginWait, CallState
    <3> QED BY <1>1, <2>4, <3>1 DEF BeginWait
  <2> QED BY <1>7, <2>3, <2>4
<1>8. ASSUME WaitStep PROVE Goal
  <2>0. future \in [Calls -> {"none", "pending", "running"} \cup Done]
    BY <1>0 DEF TypeOK
  <2>1. CASE RegisterWake \/ PollAgain \/ TakeWake \/ TakeHookCall \/ ReturnFromHook
    BY <1>5, <2>1 DEF RegisterWake, PollAgain, TakeWake, TakeHookCall, ReturnFromHook
  <2>2. CASE CheckDone
    <3>1. ASSUME NEW result, EndWait(Last(stack).of, Front(stack), result) PROVE Goal
      <4>1. future[Last(stack).of] # "none"
        BY <1>0, <2>2, Top DEF CheckDone, At, FrameMatches, Waiting
      <4> QED BY <1>6, <2>2, <3>1, <4>1 DEF CheckDone, EndWait
    <3> QED BY <1>5, <2>2, <3>1 DEF CheckDone
  <2>3. CASE InterruptWait
    <3>1. /\ stack # << >> /\ Last(stack).at \in InHook
          /\ EndWait(Last(Front(stack)).of, Front(Front(stack)), "raised")
      BY <2>3 DEF InterruptWait, At, InHook
    <3>2. /\ Front(stack) \in Seq(Frames) /\ Front(stack) # << >>
          /\ Last(Front(stack)).at = "check" /\ Last(Front(stack)) \in Frames
      BY <1>0, <3>1, Top, ShapeFront, Leaving
    <3>3. Has(stack, Last(Front(stack)))
      BY <1>0, <3>1, <3>2, Top, StackMembers
    <3>4. FrameMatches(Last(Front(stack)))
      BY <1>0, <3>2, <3>3, Top, StackSees, <3>1
    <3>5. future[Last(Front(stack)).of] # "none"
      BY <3>2, <3>4 DEF FrameMatches, Waiting
    <3> QED BY <1>6, <2>3, <3>1, <3>5 DEF InterruptWait, EndWait
  <2>4. CASE SetClosed
    <3>1. RequestState' = RequestState
      BY <2>4 DEF SetClosed, RequestState, CallState, HookState
    <3>2. closed \in BOOLEAN /\ closed' = TRUE
      BY <1>0, <2>4 DEF SetClosed, TypeOK
    <3> QED BY <3>1, <3>2 DEF Goal, Service!SNext, Service!Shut, Service!svars
  <2>5. CASE TakeCommand
    <3>1. /\ Head(commands) \in Items /\ Head(commands).kind = "command"
          /\ InQueue(Head(commands)) /\ UNCHANGED <<closed, completion, outcome>>
      BY <1>0, <2>5, TakeFacts DEF TakeCommand
    <3>2. PICK c \in Ops \cup Closers : c = Head(commands).of /\ Head(commands) = Command(c)
      BY <3>1, ItemKinds
    <3>3. c \in Calls /\ future[c] = "pending" /\ future' = [future EXCEPT ![c] = "running"]
      BY <1>0, <2>5, <3>1, <3>2 DEF ItemsMatch, TakeCommand, Calls
    <3>4. /\ \A d \in (Ops \cup Closers) \ {c} : future'[d] = future[d]
          /\ CallState(c)' = CallState(c)
      BY <1>c, <2>0, <3>3 DEF CallState, Done
    <3> QED BY <1>3, <3>1, <3>4
  <2>6. CASE FinishOperation
    <3>1. PICK c : c = Last(stack).of
      OBVIOUS
    <3>2. c \in Ops \cup Closers /\ c \in Calls /\ future[c] = "running"
      BY <1>0, <2>6, <3>1, Top, FrameKinds DEF FinishOperation, At, FrameMatches, Calls
    <3>3. /\ UNCHANGED <<closed, completion, outcome>>
          /\ \/ UNCHANGED future
             \/ future' = [future EXCEPT ![c] = "error"]
             \/ future' = [future EXCEPT ![c] = "value"]
      BY <2>6, <3>1 DEF FinishOperation, SetFuture
    <3>4. /\ \A d \in (Ops \cup Closers) \ {c} : future'[d] = future[d]
          /\ CallState(c) = "accepted" /\ CallState(c)' \in {"accepted", "value", "error"}
      BY <1>c, <2>0, <3>2, <3>3 DEF CallState, Done
    <3> QED BY <1>3, <3>2, <3>3, <3>4
  <2>7. CASE TakeContinuation
    <3>1. /\ Head(commands) \in Items /\ Head(commands).kind = "continuation"
          /\ InQueue(Head(commands)) /\ UNCHANGED <<closed, completion, outcome>>
      BY <1>0, <2>7, TakeFacts DEF TakeContinuation
    <3>2. PICK c \in Ops \cup Closers :
            c = Head(commands).of /\ Head(commands) = Continuation(c)
      BY <3>1, ItemKinds
    <3>3. c \in Calls /\ future[c] = "running" /\ loopFuture[c] \in {"value", "error"}
      BY <1>0, <3>1, <3>2 DEF ItemsMatch, Calls
    <3>4. future' = [future EXCEPT ![c] = loopFuture[c]] \/ UNCHANGED future
      BY <2>7, <3>2 DEF TakeContinuation, SetFuture
    <3>5. /\ \A d \in (Ops \cup Closers) \ {c} : future'[d] = future[d]
          /\ CallState(c) = "accepted" /\ CallState(c)' \in {"accepted", "value", "error"}
      BY <1>c, <2>0, <3>1, <3>3, <3>4 DEF CallState, Done
    <3> QED BY <1>3, <3>1, <3>5
  <2>8. CASE SettleHook
    <3>1. PICK h : h = Last(stack).of
      OBVIOUS
    <3>2. h \in Hooks /\ completion[h] \notin Done /\ completion[h] # "none"
      BY <1>0, <2>8, <3>1, Top, FrameKinds DEF SettleHook, At, FrameMatches, InHook
    <3>3. \/ completion' = [completion EXCEPT ![h] = "value"]
          \/ completion' = [completion EXCEPT ![h] = "error"]
      BY <2>8, <3>1 DEF SettleHook
    <3>4. /\ \A g \in Hooks \ {h} : completion'[g] = completion[g]
          /\ HookState(h) = "accepted" /\ HookState(h)' \in {"value", "error"}
      BY <1>0, <3>2, <3>3 DEF HookState, TypeOK, Done
    <3> QED BY <1>4, <2>8, <3>2, <3>4 DEF SettleHook
  <2> QED BY <1>8, <2>1, <2>2, <2>3, <2>4, <2>5, <2>6, <2>7, <2>8 DEF WaitStep
<1>9. ASSUME NEW c \in Ops \cup Closers, CompleteLoopFuture(c) PROVE Goal
  <2>1. c \in Calls /\ future[c] = "running" /\ UNCHANGED <<closed, completion, outcome>>
    BY <1>0, <1>9 DEF CompleteLoopFuture, ItemsMatch, Calls
  <2>2. \/ UNCHANGED future
        \/ closed /\ future' = [future EXCEPT ![c] = "undelivered"]
    BY <1>9 DEF CompleteLoopFuture, SetFuture
  <2>3. /\ \A d \in (Ops \cup Closers) \ {c} : future'[d] = future[d]
        /\ CallState(c) = "accepted"
        /\ \/ CallState(c)' = CallState(c)
           \/ closed /\ CallState(c)' = "undelivered"
    BY <1>0, <1>c, <2>1, <2>2 DEF CallState, Done, TypeOK
  <2> QED BY <1>3, <2>1, <2>3
<1>10. ASSUME NEW w \in FutureWaits \cup EventWaits, CompleteTarget(w) PROVE Goal
  <2>1. ASSUME NEW d \in Ops \cup Closers PROVE CallState(d)' = CallState(d)
    <3>1. d # w
      BY CallsAssumption
    <3> QED BY <1>10, <3>1 DEF CompleteTarget, CallState
  <2> QED BY <1>1, <1>10, <2>1 DEF CompleteTarget
<1>11. ASSUME NEW h \in Hooks, DispatchSyncHook(h) PROVE Goal
  <2>1. /\ \A g \in Hooks \ {h} : completion'[g] = completion[g]
        /\ HookState(h) = "new"
        /\ \/ ~closed /\ HookState(h)' = "accepted"
           \/ closed /\ HookState(h)' = "refused"
    BY <1>0, <1>11 DEF DispatchSyncHook, HookState, TypeOK
  <2> QED BY <1>4, <1>11, <2>1 DEF DispatchSyncHook
<1>12. ASSUME NEW h \in Hooks, CancelHook(h) PROVE Goal
  <2>1. /\ \A g \in Hooks \ {h} : completion'[g] = completion[g]
        /\ HookState(h) = "accepted" /\ HookState(h)' = "cancelled"
    BY <1>0, <1>12 DEF CancelHook, HookState, TypeOK
  <2> QED BY <1>4, <1>12, <2>1 DEF CancelHook
<1>13. CASE UNCHANGED vars
  BY <1>5, <1>13 DEF vars
<1> QED BY <1>7, <1>8, <1>9, <1>10, <1>11, <1>12, <1>13 DEF Next, AppStep, LoopStep, Goal

\* Without an owner thread the harness is the same service: it accepts nothing
\* once it is closed, drops no result before, and answers each accepted call
\* or hook at most once (agent.py:361-413, 487-538, 764-797).
THEOREM PumpImplementsService == Spec => ImplementsServiceSafely
<1>1. Init => Service!SInit
  <2>1. ASSUME Init PROVE Service!SInit
    <3>1. /\ \A c \in Ops \cup Closers : CallState(c) = "new"
          /\ \A h \in Hooks : HookState(h) = "new"
      BY <2>1 DEF Init, CallState, HookState, Done, Calls
    <3> QED BY <2>1, <3>1 DEF Init, Service!SInit, RequestState, Requests
  <2> QED BY <2>1
<1> QED BY <1>1, ServiceStep, PumpCorrect, PTL DEF Spec, ImplementsServiceSafely,
           Service!SSafety
=============================================================================
