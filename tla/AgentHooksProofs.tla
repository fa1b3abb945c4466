-------------------------- MODULE AgentHooksProofs --------------------------
(***************************************************************************)
(* Proofs about AgentHooks, for any class of hooks, any number of events,  *)
(* prompts and closers.                                                    *)
(***************************************************************************)
EXTENDS AgentHooks, SequenceTheorems, TLAPS

-----------------------------------------------------------------------------
(* Sequences: what Append, Tail and list.remove do to their members.       *)

\* Putting an item, or calling on_event(), adds that and nothing else.
LEMMA AppendFacts ==
    ASSUME NEW T, NEW s \in Seq(T), NEW x \in T
    PROVE  LET r == Append(s, x) IN
           /\ r \in Seq(T) /\ r # << >> /\ Len(r) = Len(s) + 1
           /\ Len(s) \in Nat /\ DOMAIN s = 1..Len(s) /\ DOMAIN r = 1..Len(r)
           /\ \A i \in DOMAIN s : i \in DOMAIN r /\ r[i] = s[i]
           /\ r[Len(r)] = x
           /\ Range(r) = Range(s) \cup {x}
<1> DEFINE r == Append(s, x)
<1>1. /\ r \in Seq(T) /\ r # << >> /\ Len(r) = Len(s) + 1
      /\ Len(s) \in Nat /\ DOMAIN s = 1..Len(s) /\ DOMAIN r = 1..Len(r)
      /\ \A i \in 1..Len(s) : r[i] = s[i]
      /\ r[Len(s) + 1] = x
  OBVIOUS
<1> HIDE DEF r
<1>2. 1..Len(r) = 1..Len(s) \cup {Len(s) + 1}
  BY <1>1
<1>3. Range(r) = Range(s) \cup {x}
  BY <1>1, <1>2 DEF Range
<1> QED
  BY <1>1, <1>2, <1>3 DEF r

\* Taking the head leaves the rest.
LEMMA TailFacts ==
    ASSUME NEW T, NEW s \in Seq(T), s # << >>
    PROVE  LET r == Tail(s) IN
           /\ r \in Seq(T) /\ Len(r) = Len(s) - 1
           /\ Len(s) \in Nat \ {0}
           /\ DOMAIN s = 1..Len(s) /\ DOMAIN r = 1..Len(r)
           /\ \A i \in DOMAIN r : i + 1 \in DOMAIN s /\ r[i] = s[i + 1]
           /\ Head(s) = s[1] /\ Head(s) \in T /\ 1 \in DOMAIN s
           /\ Range(r) \subseteq Range(s)
<1> DEFINE r == Tail(s)
<1>1. /\ r \in Seq(T) /\ Len(r) = Len(s) - 1
      /\ Len(s) \in Nat \ {0}
      /\ DOMAIN s = 1..Len(s) /\ DOMAIN r = 1..Len(r)
      /\ \A i \in 1..Len(r) : r[i] = s[i + 1]
      /\ Head(s) = s[1] /\ Head(s) \in T
  OBVIOUS
<1> HIDE DEF r
<1>2. \A i \in 1..Len(r) : i + 1 \in 1..Len(s)
  BY <1>1
<1>3. Range(r) \subseteq Range(s)
  BY <1>1, <1>2 DEF Range
<1>4. 1 \in 1..Len(s)
  BY <1>1
<1> QED
  BY <1>1, <1>2, <1>3, <1>4 DEF r

\* list.remove() of a handler that is subscribed once (rpc.py:184-188): it is
\* gone, and the others stay in their order.
LEMMA RemoveFacts ==
    ASSUME NEW T, NEW s \in Seq(T), IsInjective(s), NEW x
    PROVE  LET r == RemoveFirst(s, x) IN
           /\ r \in Seq(T) /\ IsInjective(r)
           /\ x \notin Range(r) /\ Range(r) \subseteq Range(s)
           /\ \A y \in Range(s) \ {x} : y \in Range(r)
           /\ \A i, j \in DOMAIN r : i < j =>
                \E a, b \in DOMAIN s : a < b /\ r[i] = s[a] /\ r[j] = s[b]
<1> DEFINE r == RemoveFirst(s, x)
<1>0. Len(s) \in Nat /\ DOMAIN s = 1..Len(s)
  OBVIOUS
<1>1. CASE \A i \in 1..Len(s) : s[i] # x
  <2>1. r = s
    BY <1>1 DEF RemoveFirst
  <2>2. x \notin Range(s)
    BY <1>0, <1>1 DEF Range
  <2> HIDE DEF r
  <2> QED
    BY <2>1, <2>2 DEF r
<1>2. CASE \E i \in 1..Len(s) : s[i] = x
  <2>1. PICK k \in 1..Len(s) : s[k] = x
    BY <1>2
  <2>2. {i \in 1..Len(s) : s[i] = x} = {k}
    BY <1>0, <2>1 DEF IsInjective
  <2>3. Min({k}) = k
    BY <1>0, <2>1 DEF Min
  <2>4. r = SubSeq(s, 1, k - 1) \o SubSeq(s, k + 1, Len(s))
    <3>1. SelectInSeq(s, LAMBDA v : v = x) = k
      BY <2>2, <2>3 DEF SelectInSeq
    <3> QED
      BY <1>2, <3>1 DEF RemoveFirst, RemoveAt
  <2>5. /\ r \in Seq(T) /\ Len(r) = Len(s) - 1 /\ DOMAIN r = 1..Len(r)
        /\ \A i \in 1..Len(r) : r[i] = IF i < k THEN s[i] ELSE s[i + 1]
    <3> DEFINE p == SubSeq(s, 1, k - 1)
               q == SubSeq(s, k + 1, Len(s))
    <3>1. /\ p \in Seq(T) /\ Len(p) = k - 1
          /\ \A i \in 1..(k - 1) : p[i] = s[i]
      BY <1>0, <2>1, SubSeqProperties
    <3>2. /\ q \in Seq(T) /\ Len(q) = Len(s) - k
          /\ \A i \in 1..(Len(s) - k) : q[i] = s[k + i]
      <4>1. /\ k + 1 \in Int /\ Len(s) \in Int
            /\ \A i \in (k + 1)..Len(s) : s[i] \in T
        BY <1>0, <2>1
      <4>3. PICK m \in Int, n \in Int : m = k + 1 /\ n = Len(s)
        BY <4>1
      <4>4. \A i \in m..n : s[i] \in T
        BY <4>1, <4>3
      <4>2. /\ SubSeq(s, m, n) \in Seq(T)
            /\ Len(SubSeq(s, m, n)) = IF m <= n THEN n - m + 1 ELSE 0
            /\ \A i \in 1..(n - m + 1) : SubSeq(s, m, n)[i] = s[m + i - 1]
        BY <4>4, SubSeqProperties
      <4>5. q = SubSeq(s, m, n)
        BY <4>3
      <4> HIDE DEF q
      <4>6. q \in Seq(T) /\ Len(q) = Len(s) - k
        <5>1. q \in Seq(T) /\ Len(q) = IF m <= n THEN n - m + 1 ELSE 0
          BY <4>2, <4>5
        <5>2. Len(s) \in Nat /\ k \in Int /\ k <= Len(s)
          BY <1>0, <2>1
        <5>3. (IF m <= n THEN n - m + 1 ELSE 0) = Len(s) - k
          BY <5>2, <4>3
        <5> QED
          BY <5>1, <5>3
      <4>7. ASSUME NEW i \in 1..(Len(s) - k) PROVE q[i] = s[k + i]
        <5>1. i \in 1..(n - m + 1) /\ m + i - 1 = k + i
          BY <1>0, <2>1, <4>3
        <5> QED
          BY <4>2, <4>5, <5>1
      <4> QED
        BY <4>6, <4>7
    <3> HIDE DEF p, q, r
    <3>3. r = p \o q
      BY <2>4 DEF p, q
    <3>4. /\ r \in Seq(T) /\ Len(r) = Len(p) + Len(q)
          /\ \A i \in 1..(Len(p) + Len(q)) :
               r[i] = IF i <= Len(p) THEN p[i] ELSE q[i - Len(p)]
      BY <3>1, <3>2, <3>3, ConcatProperties
    <3>5. Len(r) = Len(s) - 1 /\ DOMAIN r = 1..Len(r)
      BY <1>0, <2>1, <3>1, <3>2, <3>4
    <3>6. ASSUME NEW i \in 1..Len(r)
          PROVE  r[i] = IF i < k THEN s[i] ELSE s[i + 1]
      <4>1. i \in Nat /\ k \in Nat /\ i \in 1..(Len(p) + Len(q))
        BY <1>0, <2>1, <3>4
      <4>2. CASE i < k
        BY <4>1, <4>2, <2>1, <3>1, <3>4
      <4>3. CASE i >= k
        <5>1. ~(i <= Len(p)) /\ i - Len(p) = i - k + 1
          BY <4>1, <4>3, <2>1, <3>1
        <5>2. i - k + 1 \in 1..(Len(s) - k) /\ k + (i - k + 1) = i + 1
          BY <4>1, <4>3, <1>0, <2>1, <3>5
        <5> QED
          BY <4>1, <4>3, <5>1, <5>2, <3>2, <3>4
      <4> QED
        BY <4>1, <4>2, <4>3
    <3> QED
      BY <3>4, <3>5, <3>6
  <2> HIDE DEF r
  <2>6. \A i \in 1..Len(r) : \E j \in 1..Len(s) :
          /\ r[i] = s[j] /\ j # k
          /\ (i < k /\ j = i) \/ (i >= k /\ j = i + 1)
    <3> TAKE i \in 1..Len(r)
    <3>1. i \in 1..Len(s) /\ i + 1 \in 1..Len(s) /\ k \in Nat /\ i \in Nat
      BY <1>0, <2>1, <2>5
    <3>2. CASE i < k
      BY <2>5, <3>1, <3>2
    <3>3. CASE i >= k
      BY <2>5, <3>1, <3>3
    <3> QED
      BY <3>1, <3>2, <3>3
  <2>7. IsInjective(r)
    <3> SUFFICES ASSUME NEW a \in 1..Len(r), NEW b \in 1..Len(r), r[a] = r[b]
                 PROVE  a = b
      BY <2>5 DEF IsInjective
    <3>1. PICK i \in 1..Len(s) :
            /\ r[a] = s[i]
            /\ (a < k /\ i = a) \/ (a >= k /\ i = a + 1)
      BY <2>6
    <3>2. PICK j \in 1..Len(s) :
            /\ r[b] = s[j]
            /\ (b < k /\ j = b) \/ (b >= k /\ j = b + 1)
      BY <2>6
    <3>3. i = j
      BY <1>0, <3>1, <3>2 DEF IsInjective
    <3> QED
      BY <1>0, <2>1, <2>5, <3>1, <3>2, <3>3
  <2>8. x \notin Range(r) /\ Range(r) \subseteq Range(s)
    <3>1. ASSUME NEW i \in DOMAIN r PROVE r[i] \in Range(s) /\ r[i] # x
      <4>1. PICK j \in 1..Len(s) : r[i] = s[j] /\ j # k
        BY <2>5, <2>6
      <4>2. s[j] # s[k]
        BY <1>0, <4>1 DEF IsInjective
      <4> QED
        BY <1>0, <2>1, <4>1, <4>2 DEF Range
    <3> QED
      BY <3>1 DEF Range
  <2>9. ASSUME NEW i \in DOMAIN r, NEW j \in DOMAIN r, i < j
        PROVE  \E a, b \in DOMAIN s : a < b /\ r[i] = s[a] /\ r[j] = s[b]
    <3>1. PICK a \in 1..Len(s) :
            /\ r[i] = s[a]
            /\ (i < k /\ a = i) \/ (i >= k /\ a = i + 1)
      BY <2>5, <2>6
    <3>2. PICK b \in 1..Len(s) :
            /\ r[j] = s[b]
            /\ (j < k /\ b = j) \/ (j >= k /\ b = j + 1)
      BY <2>5, <2>6
    <3>3. a < b
      BY <1>0, <2>1, <2>5, <2>9, <3>1, <3>2
    <3> QED
      BY <1>0, <3>1, <3>2, <3>3
  <2>10. ASSUME NEW y \in Range(s) \ {x} PROVE y \in Range(r)
    <3>1. PICK j \in 1..Len(s) : s[j] = y /\ j # k
      BY <1>0, <2>1 DEF Range
    <3>2. CASE j < k
      BY <1>0, <2>1, <2>5, <3>1, <3>2 DEF Range
    <3>3. CASE j > k
      <4>1. j - 1 \in 1..Len(r) /\ ~(j - 1 < k) /\ (j - 1) + 1 = j
        BY <1>0, <2>1, <2>5, <3>1, <3>3
      <4>2. r[j - 1] = y
        BY <2>5, <3>1, <4>1
      <4> QED
        BY <2>5, <4>1, <4>2 DEF Range
    <3> QED
      BY <1>0, <2>1, <3>1, <3>2, <3>3
  <2> QED
    BY <2>5, <2>7, <2>8, <2>9, <2>10 DEF r
<1> QED
  BY <1>0, <1>1, <1>2

-----------------------------------------------------------------------------
(* The queue, the hooks and the handlers.                                  *)

\* The hooks of an event, and of two events, differ; none is the owner thread
\* at rest or gone.
LEMMA HookNames ==
    /\ \A e \in Events : On(e) \in Hooks
    /\ \A e \in BridgeEvents : Decide(e) \in Hooks
    /\ \A e, f : On(e) = On(f) => e = f
    /\ \A e, f : Decide(e) = Decide(f) => e = f
    /\ \A e, f : On(e) # Decide(f)
    /\ << >> \notin Hooks /\ <<"exited">> \notin Hooks
<1>1. \A h \in Hooks : \E x, y : h = <<x, y>>
  BY DEF Hooks
<1>2. << >> \notin Hooks
  BY <1>1
<1>3. <<"exited">> \notin Hooks
  BY <1>1
<1> QED
  BY <1>2, <1>3 DEF On, Decide, Hooks, Events

\* Whose an item is depends on its kind.
LEMMA ItemKinds ==
    ASSUME NEW x \in Items
    PROVE  /\ IsHook(x) => x.of \in Hooks
           /\ IsCall(x) => /\ x.of \in Callers
                           /\ x.kind \in {"install", "uninstall", "close",
                                          "value", "error"}
           /\ x.kind = "stop" => x = Stop
           /\ x = Item(x.kind, x.of)
  BY DEF Items, IsHook, IsCall, Stop, Item

\* Putting an item (queue.put).
LEMMA PutFacts ==
    ASSUME TypeOK, NEW item \in Items, Put(item)
    PROVE  /\ commands' \in Seq(Items)
           /\ Range(commands') = Range(commands) \cup {item}
           /\ ItemsDiffer
              /\ (\A x \in Range(commands) : SameKind(x, item) => x.of # item.of)
                => ItemsDiffer'
<1>1. commands \in Seq(Items) /\ commands' = Append(commands, item)
  BY DEF TypeOK, Put
<1>2. /\ commands' \in Seq(Items) /\ Len(commands') = Len(commands) + 1
      /\ DOMAIN commands = 1..Len(commands) /\ Len(commands) \in Nat
      /\ DOMAIN commands' = 1..Len(commands')
      /\ \A i \in DOMAIN commands : commands'[i] = commands[i]
      /\ commands'[Len(commands')] = item
      /\ Range(commands') = Range(commands) \cup {item}
  BY <1>1, AppendFacts
<1>3. ASSUME ItemsDiffer,
             \A x \in Range(commands) : SameKind(x, item) => x.of # item.of
      PROVE  ItemsDiffer'
  <2> SUFFICES ASSUME NEW i \in DOMAIN commands', NEW j \in DOMAIN commands',
                      i # j, SameKind(commands'[i], commands'[j])
               PROVE  commands'[i].of # commands'[j].of
    BY DEF ItemsDiffer, SameKind, IsHook, IsCall
  <2>1. \A n \in DOMAIN commands' : n \in DOMAIN commands \/ n = Len(commands')
    BY <1>2
  <2>2. CASE i \in DOMAIN commands /\ j \in DOMAIN commands
    BY <1>2, <1>3, <2>2 DEF ItemsDiffer
  <2>3. CASE i \in DOMAIN commands /\ j = Len(commands')
    BY <1>2, <1>3, <2>3 DEF Range
  <2>4. CASE i = Len(commands') /\ j \in DOMAIN commands
    <3>1. commands[j] \in Range(commands) /\ SameKind(commands[j], item)
      BY <1>2, <2>4 DEF Range, SameKind
    <3> QED
      BY <1>2, <1>3, <2>4, <3>1
  <2> QED
    BY <2>1, <2>2, <2>3, <2>4
<1> QED
  BY <1>2, <1>3

\* Taking the head of the queue (queue.get).
LEMMA TakeFacts ==
    ASSUME TypeOK, NEW kind, Takes(kind)
    PROVE  /\ commands' \in Seq(Items)
           /\ Head(commands) \in Items /\ Head(commands) \in Range(commands)
           /\ Head(commands).kind = kind
           /\ Range(commands') \subseteq Range(commands)
           /\ ItemsDiffer =>
                /\ ItemsDiffer'
                /\ \A x \in Range(commands') :
                     SameKind(x, Head(commands)) => x.of # Head(commands).of
<1>1. /\ commands \in Seq(Items) /\ commands # << >>
      /\ commands' = Tail(commands)
  BY DEF TypeOK, Takes
<1>2. /\ commands' \in Seq(Items) /\ Len(commands') = Len(commands) - 1
      /\ DOMAIN commands' = 1..Len(commands')
      /\ DOMAIN commands = 1..Len(commands) /\ Len(commands) \in Nat
      /\ \A i \in DOMAIN commands' :
           i + 1 \in DOMAIN commands /\ commands'[i] = commands[i + 1]
      /\ Head(commands) = commands[1] /\ 1 \in DOMAIN commands
      /\ Head(commands) \in Items
      /\ Range(commands') \subseteq Range(commands)
  BY <1>1, TailFacts
<1>3. Head(commands) \in Range(commands)
  BY <1>2 DEF Range
<1>4. ASSUME ItemsDiffer PROVE ItemsDiffer'
  <2> SUFFICES ASSUME NEW i \in DOMAIN commands', NEW j \in DOMAIN commands',
                      i # j, SameKind(commands'[i], commands'[j])
               PROVE  commands'[i].of # commands'[j].of
    BY DEF ItemsDiffer, SameKind, IsHook, IsCall
  <2>1. i + 1 # j + 1 /\ i + 1 \in DOMAIN commands /\ j + 1 \in DOMAIN commands
    BY <1>2
  <2> QED
    BY <1>2, <1>4, <2>1 DEF ItemsDiffer
<1>5. ASSUME ItemsDiffer, NEW x \in Range(commands'),
             SameKind(x, Head(commands))
      PROVE  x.of # Head(commands).of
  <2>1. PICK i \in DOMAIN commands' : x = commands'[i]
    BY DEF Range
  <2>2. i + 1 \in DOMAIN commands /\ i + 1 # 1 /\ x = commands[i + 1]
    BY <1>2, <2>1
  <2> QED
    BY <1>2, <1>5, <2>2 DEF ItemsDiffer
<1> QED
  BY <1>2, <1>3, <1>4, <1>5 DEF Takes

\* The states of a main future.
Futures == {"none", "pending", "install", "uninstall", "pi", "server", "tasks",
            "nothing", "value", "error"}

\* A coroutine of the loop ended (agent.py:578-598).
LEMMA DeliverFacts ==
    ASSUME TypeOK, NEW c \in Callers, NEW result \in {"value", "error"},
           Deliver(c, result)
    PROVE  /\ commands' \in Seq(Items)
           /\ future' \in [Callers -> Futures]
           /\ \A d \in Callers \ {c} : future'[d] = future[d]
           /\ \/ /\ closed /\ future'[c] = "error" /\ commands' = commands
              \/ /\ ~closed /\ future'[c] = "pending"
                 /\ Put(Item(result, c))
           /\ Item(result, c) \in Items
<1>1. Item(result, c) \in Items
  BY DEF Item, Items
<1>2. closed \in BOOLEAN /\ commands \in Seq(Items)
      /\ future \in [Callers -> Futures]
  BY DEF TypeOK, Futures
<1>3. CASE closed
  BY <1>1, <1>2, <1>3 DEF Deliver, Futures
<1>4. CASE ~closed
  BY <1>1, <1>2, <1>4, PutFacts DEF Deliver, Futures
<1> QED
  BY <1>2, <1>3, <1>4

\* A hook is begun (agent_class.py:126-231).
LEMMA BeginFacts ==
    ASSUME TypeOK, NEW h \in Hooks, Begin(h)
    PROVE  /\ run' \in [Hooks -> {"none", "queued", "running", "ended",
                                  "refused"}]
           /\ \A g \in Hooks \ {h} : run'[g] = run[g]
           /\ declared[h] = "none" => run'[h] = "none"
           /\ \/ run'[h] # "queued" /\ commands' = commands
              \/ /\ declared[h] = "sync" /\ run'[h] = "queued"
                 /\ Put(Item("hook", h))
           /\ Item("hook", h) \in Items
           /\ commands' \in Seq(Items)
<1>1. Item("hook", h) \in Items
  BY DEF Item, Items
<1>2. /\ commands \in Seq(Items) /\ closed \in BOOLEAN
      /\ declared[h] \in {"none", "sync", "async"}
      /\ run \in [Hooks -> {"none", "queued", "running", "ended", "refused"}]
  BY HooksAssumption DEF TypeOK
<1>3. CASE declared[h] = "none"
  BY <1>1, <1>2, <1>3 DEF Begin
<1>4. CASE declared[h] = "async"
  BY <1>1, <1>2, <1>4 DEF Begin
<1>5. CASE declared[h] = "sync" /\ closed
  BY <1>1, <1>2, <1>5 DEF Begin
<1>6. CASE declared[h] = "sync" /\ ~closed
  <2>1. Put(Item("hook", h)) /\ run' = [run EXCEPT ![h] = "queued"]
    BY <1>6 DEF Begin
  <2> QED
    BY <1>1, <1>2, <1>6, <2>1, PutFacts
<1> QED
  BY <1>2, <1>3, <1>4, <1>5, <1>6

\* Tasks are cancelled: async hooks end, sync hooks do not notice.
LEMMA CancelledFacts ==
    ASSUME TypeOK, NEW S, Cancelled(S)
    PROVE  /\ run' \in [Hooks -> {"none", "queued", "running", "ended",
                                  "refused"}]
           /\ \A h \in Hooks :
                \/ run'[h] = run[h]
                \/ /\ declared[h] = "async"
                   /\ run[h] = "running" /\ run'[h] = "ended"
  BY DEF TypeOK, Cancelled

\* close() cancels the reader, or its timeout comes before that.
LEMMA CancelReaderFacts ==
    ASSUME TypeOK, CancelReader \/ UNCHANGED <<reader, run>>
    PROVE  /\ run' \in [Hooks -> {"none", "queued", "running", "ended",
                                  "refused"}]
           /\ \A h \in Hooks :
                \/ run'[h] = run[h]
                \/ /\ declared[h] = "async"
                   /\ run[h] = "running" /\ run'[h] = "ended"
           /\ reader' \in [at : {"read", "call", "hook", "stopped"},
                           todo : Seq(Prompts \cup {Agent})]
           /\ reader'.todo = reader.todo
           /\ reader'.at = reader.at \/ reader'.at = "stopped"
<1>1. CASE UNCHANGED <<reader, run>>
  BY <1>1 DEF TypeOK
<1>2. CASE /\ reader' = [reader EXCEPT !.at = "stopped"]
           /\ Cancelled(RpcEvents \X {"on"})
  BY <1>2, CancelledFacts DEF TypeOK
<1> QED
  BY <1>1, <1>2 DEF CancelReader

\* What the reader knows about the event it handles.
LEMMA LastFacts ==
    ASSUME TypeOK, handled # << >>
    PROVE  /\ Len(handled) \in DOMAIN handled
           /\ Last(handled) = handled[Len(handled)]
           /\ Last(handled) \in RpcEvents /\ Last(handled) \in Range(handled)
           /\ On(Last(handled)) \in Hooks
<1>1. /\ handled \in Seq(RpcEvents) /\ Len(handled) \in Nat \ {0}
      /\ DOMAIN handled = 1..Len(handled)
  BY DEF TypeOK
<1>2. /\ Len(handled) \in DOMAIN handled
      /\ handled[Len(handled)] \in RpcEvents
  BY <1>1
<1> QED
  BY <1>2, HookNames DEF Last, Range, Events

-----------------------------------------------------------------------------
(* Types.                                                                  *)

\* No action leaves the types.
LEMMA TypeStep ==
    ASSUME TypeOK, ReaderInOrder, [Next]_vars
    PROVE  TypeOK'
<1> USE DEF TypeOK, callVars, coreVars, rpcVars
<1>0. IsInjective(handlers)
  BY DEF ReaderInOrder, Subscribed
<1>99. /\ Stop \in Items
       /\ \A c \in Callers : /\ Item("install", c) \in Items
                             /\ Item("uninstall", c) \in Items
                             /\ Item("close", c) \in Items
       /\ Agent \in Callers /\ Closers \subseteq Callers
  BY DEF Stop, Item, Items, Callers
<1>100. /\ \A h \in Hooks : owner = h => run[h] \in {"none", "queued",
             "running", "ended", "refused"}
        /\ \A e \in BridgeEvents : On(e) \in Hooks /\ Decide(e) \in Hooks
        /\ \A e \in RpcEvents : On(e) \in Hooks
  BY HookNames DEF Events
<1>1. ASSUME StartPi PROVE TypeOK'
  BY <1>1 DEF StartPi
<1>2. ASSUME InstallDispatcher PROVE TypeOK'
  <2>1. commands' \in Seq(Items)
    BY <1>2, <1>99, PutFacts DEF InstallDispatcher
  <2> QED
    BY <1>2, <2>1 DEF InstallDispatcher
<1>3. ASSUME StartEnds PROVE TypeOK'
  BY <1>3 DEF StartEnds
<1>4. ASSUME NEW k \in Closers, BeginClose(k) PROVE TypeOK'
  BY <1>4 DEF BeginClose
<1>5. ASSUME NEW k \in Closers, Uninstall(k) PROVE TypeOK'
  <2>1. commands' \in Seq(Items)
    BY <1>5, <1>99, PutFacts DEF Uninstall
  <2>2. handlers' \in Seq(Prompts \cup {Agent})
    BY <1>5, <1>0, RemoveFacts DEF Uninstall, Unsubscribe
  <2> QED
    BY <1>5, <2>1, <2>2 DEF Uninstall
<1>6. ASSUME NEW k \in Closers, Uninstalled(k) PROVE TypeOK'
  <2>1. handlers' \in Seq(Prompts \cup {Agent})
    BY <1>6, <1>0, RemoveFacts DEF Uninstalled, Unsubscribe
  <2> QED
    BY <1>6, <2>1 DEF Uninstalled
<1>7. ASSUME NEW k \in Closers, CloseSuper(k) PROVE TypeOK'
  <2>1. commands' \in Seq(Items)
    BY <1>7, <1>99, PutFacts DEF CloseSuper
  <2> QED
    BY <1>7, <2>1 DEF CloseSuper
<1>8. ASSUME NEW k \in Closers, SetClosedAndStop(k) PROVE TypeOK'
  <2>1. commands' \in Seq(Items)
    BY <1>8, <1>99, PutFacts DEF SetClosedAndStop
  <2> QED
    BY <1>8, <2>1 DEF SetClosedAndStop
<1>9. ASSUME TakeOperation PROVE TypeOK'
  <2>1. PICK kind \in {"install", "uninstall", "close"} : Takes(kind)
    BY <1>9 DEF TakeOperation
  <2>2. commands' \in Seq(Items)
    BY <2>1, TakeFacts
  <2>3. future' \in [Callers -> Futures] /\ corePi' \in BOOLEAN
    BY <1>9 DEF TakeOperation, Futures
  <2> QED
    BY <1>9, <2>2, <2>3 DEF TakeOperation, Futures
<1>10. ASSUME TakeContinuation PROVE TypeOK'
  <2>1. PICK kind \in {"value", "error"} : Takes(kind)
    BY <1>10 DEF TakeContinuation
  <2>2. commands' \in Seq(Items) /\ Head(commands).kind = kind
    BY <2>1, TakeFacts
  <2> QED
    BY <1>10, <2>2 DEF TakeContinuation
<1>11. ASSUME TakeHookCall PROVE TypeOK'
  <2>1. Takes("hook")
    BY <1>11 DEF TakeHookCall
  <2>2. commands' \in Seq(Items) /\ Head(commands).of \in Hooks
    BY <2>1, TakeFacts, ItemKinds DEF IsHook
  <2> QED
    BY <1>11, <2>2 DEF TakeHookCall
<1>12. ASSUME SyncHookEnds PROVE TypeOK'
  BY <1>12 DEF SyncHookEnds
<1>13. ASSUME TakeStop PROVE TypeOK'
  <2>1. commands' \in Seq(Items)
    BY <1>13, TakeFacts DEF TakeStop
  <2> QED
    BY <1>13, <2>1 DEF TakeStop
<1>14. ASSUME LoopInstall PROVE TypeOK'
  <2>1. PICK result \in {"value", "error"} : Deliver(Agent, result)
    BY <1>14 DEF LoopInstall
  <2>2. commands' \in Seq(Items) /\ future' \in [Callers -> Futures]
    BY <2>1, <1>99, DeliverFacts
  <2>3. handlers' \in Seq(Prompts \cup {Agent})
    BY <1>14 DEF LoopInstall
  <2> QED
    BY <1>14, <2>2, <2>3 DEF LoopInstall, Futures
<1>15. ASSUME NEW k \in Closers, LoopUninstall(k) PROVE TypeOK'
  <2>1. commands' \in Seq(Items) /\ future' \in [Callers -> Futures]
    BY <1>15, <1>99, DeliverFacts DEF LoopUninstall
  <2>2. handlers' \in Seq(Prompts \cup {Agent})
    BY <1>15, <1>0, RemoveFacts DEF LoopUninstall, Unsubscribe
  <2> QED
    BY <1>15, <2>1, <2>2 DEF LoopUninstall, Futures
<1>16. ASSUME NEW k \in Closers, LoopClosePi(k) PROVE TypeOK'
  <2>1. /\ run' \in [Hooks -> {"none", "queued", "running", "ended", "refused"}]
        /\ reader' \in [at : {"read", "call", "hook", "stopped"},
                        todo : Seq(Prompts \cup {Agent})]
    BY <1>16, CancelReaderFacts DEF LoopClosePi
  <2> QED
    BY <1>16, <2>1 DEF LoopClosePi
<1>30. ASSUME NEW k \in Closers, ClosePiTimesOut(k) PROVE TypeOK'
  <2>1. /\ run' \in [Hooks -> {"none", "queued", "running", "ended", "refused"}]
        /\ reader' \in [at : {"read", "call", "hook", "stopped"},
                        todo : Seq(Prompts \cup {Agent})]
    BY <1>30, CancelReaderFacts DEF ClosePiTimesOut
  <2>2. commands' \in Seq(Items) /\ future' \in [Callers -> Futures]
    BY <1>30, <1>99, DeliverFacts DEF ClosePiTimesOut
  <2> QED
    BY <1>30, <2>1, <2>2 DEF ClosePiTimesOut, Futures
<1>31. ASSUME NEW k \in Closers, LoopCloseEnds(k) PROVE TypeOK'
  <2>1. commands' \in Seq(Items) /\ future' \in [Callers -> Futures]
    BY <1>31, <1>99, DeliverFacts DEF LoopCloseEnds
  <2> QED
    BY <1>31, <2>1 DEF LoopCloseEnds, Futures
<1>17. ASSUME NEW k \in Closers, LoopCloseServer(k) PROVE TypeOK'
  <2>1. run' \in [Hooks -> {"none", "queued", "running", "ended", "refused"}]
    BY <1>17, CancelledFacts DEF LoopCloseServer
  <2>3. stage' \in [BridgeEvents -> {"new", "on", "decide", "done", "cancelled"}]
    BY <1>17 DEF LoopCloseServer
  <2> QED
    BY <1>17, <2>1, <2>3 DEF LoopCloseServer
<1>18. ASSUME NEW h \in Hooks, AsyncHookEnds(h) PROVE TypeOK'
  BY <1>18 DEF AsyncHookEnds
<1>19. ASSUME NEW e \in RpcEvents, ReadEvent(e) PROVE TypeOK'
  BY <1>19 DEF ReadEvent
<1>20. ASSUME Notify PROVE TypeOK'
  <2>1. handled # << >>
    BY <1>20 DEF Notify, CallsHandler, ReaderInOrder
  <2>2. /\ commands' \in Seq(Items)
        /\ run' \in [Hooks -> {"none", "queued", "running", "ended", "refused"}]
    BY <1>20, <2>1, LastFacts, BeginFacts DEF Notify
  <2>3. Tail(reader.todo) \in Seq(Prompts \cup {Agent})
    BY <1>20 DEF Notify, CallsHandler
  <2> QED
    BY <1>20, <2>2, <2>3 DEF Notify
<1>21. ASSUME Notified PROVE TypeOK'
  BY <1>21 DEF Notified
<1>22. ASSUME NEW p \in Prompts, Collect(p) PROVE TypeOK'
  <2>1. handled # << >>
    BY <1>22 DEF Collect, CallsHandler, ReaderInOrder
  <2>2. collected' \in [Prompts -> SUBSET RpcEvents]
    BY <1>22, <2>1, LastFacts DEF Collect
  <2>3. Tail(reader.todo) \in Seq(Prompts \cup {Agent})
    BY <1>22 DEF Collect, CallsHandler
  <2> QED
    BY <1>22, <2>2, <2>3 DEF Collect
<1>23. ASSUME EventDone PROVE TypeOK'
  BY <1>23 DEF EventDone
<1>24. ASSUME NEW p \in Prompts, BeginPrompt(p) PROVE TypeOK'
  BY <1>24 DEF BeginPrompt
<1>25. ASSUME NEW p \in Prompts, PromptReturns(p) PROVE TypeOK'
  <2>1. handlers' \in Seq(Prompts \cup {Agent})
    BY <1>25, <1>0, RemoveFacts DEF PromptReturns
  <2> QED
    BY <1>25, <2>1 DEF PromptReturns
<1>26. ASSUME NEW e \in BridgeEvents, Fire(e) PROVE TypeOK'
  <2>1. /\ commands' \in Seq(Items)
        /\ run' \in [Hooks -> {"none", "queued", "running", "ended", "refused"}]
    BY <1>26, <1>100, BeginFacts DEF Fire
  <2> QED
    BY <1>26, <2>1 DEF Fire
<1>27. ASSUME NEW e \in BridgeEvents, Observed(e) PROVE TypeOK'
  <2>1. /\ commands' \in Seq(Items)
        /\ run' \in [Hooks -> {"none", "queued", "running", "ended", "refused"}]
    BY <1>27, <1>100, BeginFacts DEF Observed
  <2>2. stage' \in [BridgeEvents -> {"new", "on", "decide", "done", "cancelled"}]
    BY <1>27 DEF Observed
  <2> QED
    BY <1>27, <2>1, <2>2 DEF Observed
<1>28. ASSUME NEW e \in BridgeEvents, Decided(e) PROVE TypeOK'
  BY <1>28 DEF Decided
<1>29. ASSUME UNCHANGED vars PROVE TypeOK'
  BY <1>29 DEF vars
<1> HIDE DEF TypeOK
<1> QED
  BY <1>1, <1>2, <1>3, <1>4, <1>5, <1>6, <1>7, <1>8, <1>9, <1>10, <1>11, <1>12,
     <1>13, <1>14, <1>15, <1>16, <1>17, <1>18, <1>19, <1>20, <1>21, <1>22,
     <1>23, <1>24, <1>25, <1>26, <1>27, <1>28, <1>29, <1>30, <1>31
     DEF Next, StartStep, CloseStep, OwnerStep, ReaderStep, EventStep

-----------------------------------------------------------------------------
(* The queue.                                                              *)

\* A call that waits for nothing is put in the queue (agent.py:554-576).
LEMMA PutCall ==
    ASSUME TypeOK, QueueMatches, NEW c \in Callers,
           NEW kind \in {"install", "uninstall", "close"},
           kind = "install" => c = Agent,
           future[c] # "pending",
           future' = [future EXCEPT ![c] = "pending"],
           Put(Item(kind, c)),
           \A k \in Closers : closer'[k] \in {"idle", "clear", "super"}
                                => closer'[k] = closer[k] /\ k # c,
           UNCHANGED <<declared, run, owner>>
    PROVE  QueueMatches'
<1> DEFINE item == Item(kind, c)
<1>1. /\ item \in Items /\ item.of = c /\ item.kind = kind
      /\ IsCall(item) /\ ~IsHook(item)
  BY DEF Item, Items, IsCall, IsHook
<1>2. \A x \in Range(commands) : IsCall(x) => x.of # c
  BY DEF QueueMatches, ItemMatches
<1>3. /\ Range(commands') = Range(commands) \cup {item}
      /\ ItemsDiffer'
  <2>1. \A x \in Range(commands) : SameKind(x, item) => x.of # item.of
    BY <1>1, <1>2 DEF SameKind
  <2> HIDE DEF item
  <2>2. Put(item)
    BY DEF item
  <2> QED
    BY <1>1, <2>1, <2>2, PutFacts DEF QueueMatches
<1> HIDE DEF item
<1>4. future \in [Callers -> Futures] /\ Closers \subseteq Callers
  BY DEF TypeOK, Futures, Callers
<1>5. ASSUME NEW x \in Range(commands') PROVE ItemMatches(x)'
  <2>1. CASE x = item
    BY <1>1, <1>4, <2>1 DEF ItemMatches
  <2>2. CASE x \in Range(commands)
    <3>1. IsCall(x) => future'[x.of] = "pending"
      BY <1>2, <1>4, <2>2 DEF QueueMatches, ItemMatches
    <3> QED
      BY <2>2, <3>1 DEF QueueMatches, ItemMatches
  <2> QED
    BY <1>3, <2>1, <2>2
<1>6. \A k \in Closers : closer'[k] \in {"idle", "clear", "super"}
                           => future'[k] \in {"none", "value", "error"}
  BY <1>4 DEF QueueMatches
<1> QED
  BY <1>3, <1>5, <1>6 DEF QueueMatches

\* A call the loop works for comes back to the queue, or fails.
LEMMA DeliverQueue ==
    ASSUME TypeOK, QueueMatches, NEW c \in Callers,
           NEW result \in {"value", "error"}, Deliver(c, result),
           future[c] \notin {"none", "pending", "value", "error"},
           \A h \in Hooks : declared[h] = "sync" => run'[h] = run[h],
           UNCHANGED <<declared, owner, closer>>
    PROVE  QueueMatches'
<1> DEFINE item == Item(result, c)
<1>1. /\ item \in Items /\ item.of = c /\ item.kind = result
      /\ IsCall(item) /\ ~IsHook(item)
  BY DEF Item, Items, IsCall, IsHook
<1>2. \A x \in Range(commands) : IsCall(x) => x.of # c
  BY DEF QueueMatches, ItemMatches
<1>3. /\ \A x \in Range(commands') : x = item \/ x \in Range(commands)
      /\ item \in Range(commands') /\ item \notin Range(commands)
           => future'[c] = "pending"
      /\ ItemsDiffer'
      /\ \A d \in Callers \ {c} : future'[d] = future[d]
  <2>1. \A x \in Range(commands) : SameKind(x, item) => x.of # item.of
    BY <1>1, <1>2 DEF SameKind
  <2> HIDE DEF item
  <2>2. \/ commands' = commands
        \/ future'[c] = "pending" /\ Put(item)
    BY DeliverFacts DEF item
  <2>3. CASE commands' = commands
    BY <2>3, DeliverFacts DEF QueueMatches, ItemsDiffer, SameKind, IsHook, IsCall
  <2>4. CASE future'[c] = "pending" /\ Put(item)
    BY <1>1, <2>1, <2>4, PutFacts, DeliverFacts DEF QueueMatches
  <2> QED
    BY <2>2, <2>3, <2>4
<1>4. item \notin Range(commands)
  BY <1>1, <1>2
<1> HIDE DEF item
<1>5. /\ \A x \in Items : IsHook(x) => x.of \in Hooks
      /\ \A x \in Items : IsCall(x) => x.of \in Callers
      /\ Range(commands) \subseteq Items /\ Closers \subseteq Callers
  BY ItemKinds DEF TypeOK, Range, Callers
<1>6. ASSUME NEW x \in Range(commands') PROVE ItemMatches(x)'
  <2>1. CASE x = item
    BY <1>1, <1>3, <1>4, <2>1 DEF ItemMatches
  <2>2. CASE x \in Range(commands)
    <3>1. IsCall(x) => future'[x.of] = "pending"
      BY <1>2, <1>3, <1>5, <2>2 DEF QueueMatches, ItemMatches
    <3>2. IsHook(x) => declared'[x.of] = "sync" /\ run'[x.of] = "queued"
      BY <1>5, <2>2 DEF QueueMatches, ItemMatches
    <3> QED
      BY <2>2, <3>1, <3>2 DEF QueueMatches, ItemMatches
  <2> QED
    BY <1>3, <2>1, <2>2
<1>7. \A k \in Closers : closer'[k] \in {"idle", "clear", "super"}
                           => future'[k] \in {"none", "value", "error"}
  BY <1>3, <1>5 DEF QueueMatches
<1>8. owner' \in Hooks => declared'[owner'] = "sync" /\ run'[owner'] = "running"
  BY DEF QueueMatches
<1> QED
  BY <1>3, <1>6, <1>7, <1>8 DEF QueueMatches

\* A hook that was not begun before is begun.
LEMMA BeginQueue ==
    ASSUME TypeOK, QueueMatches, NEW h \in Hooks, run[h] = "none", Begin(h),
           UNCHANGED <<declared, owner, closer, future>>
    PROVE  QueueMatches'
<1> DEFINE item == Item("hook", h)
<1>1. /\ item \in Items /\ item.of = h /\ item.kind = "hook"
      /\ ~IsCall(item) /\ IsHook(item)
  BY DEF Item, Items, IsCall, IsHook
<1>2. \A x \in Range(commands) : IsHook(x) => x.of # h
  BY DEF QueueMatches, ItemMatches
<1>3. /\ \A x \in Range(commands') : x = item \/ x \in Range(commands)
      /\ item \in Range(commands') => declared[h] = "sync" /\ run'[h] = "queued"
      /\ ItemsDiffer'
      /\ \A g \in Hooks \ {h} : run'[g] = run[g]
  <2>1. \A x \in Range(commands) : SameKind(x, item) => x.of # item.of
    BY <1>1, <1>2 DEF SameKind
  <2>5. item \notin Range(commands)
    BY <1>1, <1>2
  <2> HIDE DEF item
  <2>2. \/ commands' = commands
        \/ declared[h] = "sync" /\ run'[h] = "queued" /\ Put(item)
    BY BeginFacts DEF item
  <2>3. CASE commands' = commands
    BY <2>3, <2>5, BeginFacts
       DEF QueueMatches, ItemsDiffer, SameKind, IsHook, IsCall
  <2>4. CASE declared[h] = "sync" /\ run'[h] = "queued" /\ Put(item)
    BY <1>1, <2>1, <2>4, PutFacts, BeginFacts DEF QueueMatches
  <2> QED
    BY <2>2, <2>3, <2>4
<1> HIDE DEF item
<1>5. /\ \A x \in Items : IsHook(x) => x.of \in Hooks
      /\ Range(commands) \subseteq Items
  BY ItemKinds DEF TypeOK, Range
<1>6. ASSUME NEW x \in Range(commands') PROVE ItemMatches(x)'
  <2>1. CASE x = item
    BY <1>1, <1>3, <2>1 DEF ItemMatches
  <2>2. CASE x \in Range(commands)
    <3>1. IsHook(x) => declared'[x.of] = "sync" /\ run'[x.of] = "queued"
      BY <1>2, <1>3, <1>5, <2>2 DEF QueueMatches, ItemMatches
    <3> QED
      BY <2>2, <3>1 DEF QueueMatches, ItemMatches
  <2> QED
    BY <1>3, <2>1, <2>2
<1>7. owner' \in Hooks => declared'[owner'] = "sync" /\ run'[owner'] = "running"
  BY <1>3 DEF QueueMatches
<1> QED
  BY <1>3, <1>6, <1>7 DEF QueueMatches

\* Nothing is put: the items that stay match, for a future or a hook changes
\* only that no item is about.
LEMMA QueueKept ==
    ASSUME TypeOK, QueueMatches, ItemsDiffer',
           Range(commands') \subseteq Range(commands),
           \A x \in Range(commands') :
             /\ IsHook(x) => run'[x.of] = run[x.of]
             /\ IsCall(x) => future'[x.of] = future[x.of],
           declared' = declared,
           owner' \in Hooks => declared[owner'] = "sync"
                               /\ run'[owner'] = "running",
           \A k \in Closers : closer'[k] \in {"idle", "clear", "super"}
                                => future'[k] \in {"none", "value", "error"}
    PROVE  QueueMatches'
<1>1. ASSUME NEW x \in Range(commands') PROVE ItemMatches(x)'
  BY DEF QueueMatches, ItemMatches
<1> QED
  BY <1>1 DEF QueueMatches

\* Every step keeps the queue as it should be.
LEMMA QueueStep ==
    ASSUME TypeOK, QueueMatches, UpUntilClose, BegunOnce, ReaderInOrder,
           [Next]_vars
    PROVE  QueueMatches'
<1> USE DEF callVars, coreVars, rpcVars
<1>0. /\ future \in [Callers -> Futures] /\ Closers \subseteq Callers
      /\ Agent \in Callers /\ Agent \notin Closers
      /\ closer \in [Closers -> {"idle", "clear", "uninstall", "super", "core",
                                 "finally", "done"}]
      /\ run \in [Hooks -> {"none", "queued", "running", "ended", "refused"}]
  BY HooksAssumption DEF TypeOK, Futures, Callers
<1>100. /\ \A x \in Range(commands) : /\ x \in Items
                                      /\ IsHook(x) => x.of \in Hooks
                                      /\ IsCall(x) => x.of \in Callers
        /\ << >> \notin Hooks /\ <<"exited">> \notin Hooks
  <2>1. Range(commands) \subseteq Items
    BY DEF TypeOK, Range
  <2> QED
    BY <2>1, ItemKinds, HookNames
<1>101. ASSUME UNCHANGED commands PROVE ItemsDiffer'
  BY <1>101 DEF QueueMatches, ItemsDiffer, SameKind, IsHook, IsCall
<1>102. ASSUME UNCHANGED <<declared, commands, owner, future, closer>>,
               \A h \in Hooks : declared[h] = "sync" => run'[h] = run[h]
        PROVE  QueueMatches'
  <2>1. \A x \in Range(commands) : IsHook(x) => run'[x.of] = run[x.of]
    BY <1>100, <1>102 DEF QueueMatches, ItemMatches
  <2>2. owner' \in Hooks => declared[owner'] = "sync" /\ run'[owner'] = "running"
    BY <1>102 DEF QueueMatches
  <2>3. ItemsDiffer'
    BY <1>101, <1>102
  <2>4. \A k \in Closers : closer'[k] \in {"idle", "clear", "super"}
                             => future'[k] \in {"none", "value", "error"}
    BY <1>102 DEF QueueMatches
  <2> QED
    BY <1>102, <2>1, <2>2, <2>3, <2>4, QueueKept
<1>1. ASSUME StartPi \/ StartEnds PROVE QueueMatches'
  BY <1>1, <1>102 DEF StartPi, StartEnds
<1>2. ASSUME InstallDispatcher PROVE QueueMatches'
  <2>1. CASE closed
    BY <1>2, <2>1, <1>102 DEF InstallDispatcher
  <2>2. CASE ~closed
    <3>1. future[Agent] = "none"
      BY <1>2 DEF InstallDispatcher, UpUntilClose
    <3>2. /\ future' = [future EXCEPT ![Agent] = "pending"]
          /\ Put(Item("install", Agent))
          /\ UNCHANGED <<declared, run, owner, closer>>
      BY <1>2, <2>2 DEF InstallDispatcher
    <3> QED
      BY <1>0, <3>1, <3>2, PutCall
  <2> QED
    BY <2>1, <2>2
<1>3. ASSUME NEW k \in Closers, BeginClose(k) PROVE QueueMatches'
  <2>1. \A j \in Closers : closer'[j] \in {"idle", "clear", "super"}
                             => closer[j] \in {"idle", "clear", "super"}
    BY <1>0, <1>3 DEF BeginClose
  <2>2. \A j \in Closers : closer'[j] \in {"idle", "clear", "super"}
                             => future'[j] \in {"none", "value", "error"}
    BY <1>3, <2>1 DEF BeginClose, QueueMatches
  <2>3. owner' \in Hooks => declared[owner'] = "sync" /\ run'[owner'] = "running"
    BY <1>3 DEF BeginClose, QueueMatches
  <2>4. UNCHANGED <<commands, declared, run, future>>
    BY <1>3 DEF BeginClose
  <2> QED
    BY <2>2, <2>3, <2>4, <1>101, QueueKept
<1>4. ASSUME NEW k \in Closers, Uninstall(k) PROVE QueueMatches'
  <2>0. future[k] \in {"none", "value", "error"}
    BY <1>4 DEF Uninstall, QueueMatches
  <2>1. CASE closed
    <3>1. \A j \in Closers : closer'[j] \in {"idle", "clear", "super"}
                               => closer[j] \in {"idle", "clear", "super"}
      BY <1>0, <1>4, <2>1 DEF Uninstall
    <3>2. \A j \in Closers : closer'[j] \in {"idle", "clear", "super"}
                               => future'[j] \in {"none", "value", "error"}
      BY <1>4, <2>1, <3>1 DEF Uninstall, QueueMatches
    <3>3. owner' \in Hooks => declared[owner'] = "sync" /\ run'[owner'] = "running"
      BY <1>4 DEF Uninstall, QueueMatches
    <3>4. UNCHANGED <<commands, declared, run, future>>
      BY <1>4, <2>1 DEF Uninstall
    <3> QED
      BY <3>2, <3>3, <3>4, <1>101, QueueKept
  <2>2. CASE ~closed
    <3>1. /\ future' = [future EXCEPT ![k] = "pending"]
          /\ Put(Item("uninstall", k))
          /\ UNCHANGED <<declared, run, owner>>
          /\ closer' = [closer EXCEPT ![k] = "uninstall"]
      BY <1>4, <2>2 DEF Uninstall
    <3>2. \A j \in Closers : closer'[j] \in {"idle", "clear", "super"}
                               => closer'[j] = closer[j] /\ j # k
      BY <1>0, <3>1
    <3> QED
      BY <1>0, <2>0, <3>1, <3>2, PutCall
  <2> QED
    BY <2>1, <2>2
<1>5. ASSUME NEW k \in Closers, Uninstalled(k) PROVE QueueMatches'
  <2>1. \A j \in Closers : closer'[j] \in {"idle", "clear", "super"}
                             => j = k \/ closer[j] \in {"idle", "clear", "super"}
    BY <1>0, <1>5 DEF Uninstalled
  <2>2. \A j \in Closers : closer'[j] \in {"idle", "clear", "super"}
                             => future'[j] \in {"none", "value", "error"}
    BY <1>5, <2>1 DEF Uninstalled, QueueMatches
  <2>3. owner' \in Hooks => declared[owner'] = "sync" /\ run'[owner'] = "running"
    BY <1>5 DEF Uninstalled, QueueMatches
  <2>4. UNCHANGED <<commands, declared, run, future>>
    BY <1>5 DEF Uninstalled
  <2> QED
    BY <2>2, <2>3, <2>4, <1>101, QueueKept
<1>6. ASSUME NEW k \in Closers, CloseSuper(k) PROVE QueueMatches'
  <2>0. future[k] \in {"none", "value", "error"}
    BY <1>6 DEF CloseSuper, QueueMatches
  <2>1. CASE closed
    <3>1. \A j \in Closers : closer'[j] \in {"idle", "clear", "super"}
                               => closer[j] \in {"idle", "clear", "super"}
      BY <1>0, <1>6, <2>1 DEF CloseSuper
    <3>2. \A j \in Closers : closer'[j] \in {"idle", "clear", "super"}
                               => future'[j] \in {"none", "value", "error"}
      BY <1>6, <2>1, <3>1 DEF CloseSuper, QueueMatches
    <3>3. owner' \in Hooks => declared[owner'] = "sync" /\ run'[owner'] = "running"
      BY <1>6 DEF CloseSuper, QueueMatches
    <3>4. UNCHANGED <<commands, declared, run, future>>
      BY <1>6, <2>1 DEF CloseSuper
    <3> QED
      BY <3>2, <3>3, <3>4, <1>101, QueueKept
  <2>2. CASE ~closed
    <3>1. /\ future' = [future EXCEPT ![k] = "pending"]
          /\ Put(Item("close", k))
          /\ UNCHANGED <<declared, run, owner>>
          /\ closer' = [closer EXCEPT ![k] = "core"]
      BY <1>6, <2>2 DEF CloseSuper
    <3>2. \A j \in Closers : closer'[j] \in {"idle", "clear", "super"}
                               => closer'[j] = closer[j] /\ j # k
      BY <1>0, <3>1
    <3> QED
      BY <1>0, <2>0, <3>1, <3>2, PutCall
  <2> QED
    BY <2>1, <2>2
<1>7. ASSUME NEW k \in Closers, SetClosedAndStop(k) PROVE QueueMatches'
  <2>1. /\ Stop \in Items /\ ~IsHook(Stop) /\ ~IsCall(Stop)
        /\ Stop.kind = "stop"
    BY DEF Stop, Item, Items, IsHook, IsCall
  <2>2. /\ Range(commands') = Range(commands) \cup {Stop}
        /\ ItemsDiffer'
    BY <1>7, <2>1, PutFacts DEF SetClosedAndStop, QueueMatches, SameKind
  <2>3. \A x \in Range(commands') : ItemMatches(x)'
    BY <1>7, <2>1, <2>2 DEF SetClosedAndStop, QueueMatches, ItemMatches
  <2>4. \A j \in Closers : closer'[j] \in {"idle", "clear", "super"}
                             => closer[j] \in {"idle", "clear", "super"}
    BY <1>0, <1>7 DEF SetClosedAndStop
  <2> QED
    BY <1>7, <2>2, <2>3, <2>4 DEF SetClosedAndStop, QueueMatches
<1>8. ASSUME TakeOperation \/ TakeContinuation PROVE QueueMatches'
  <2>1. PICK kind \in {"install", "uninstall", "close", "value", "error"} :
          Takes(kind)
    BY <1>8 DEF TakeOperation, TakeContinuation
  <2>2. PICK c : c = Head(commands).of
    OBVIOUS
  <2>3. /\ Head(commands) \in Range(commands) /\ Head(commands).kind = kind
        /\ IsCall(Head(commands))
        /\ Range(commands') \subseteq Range(commands) /\ ItemsDiffer'
        /\ \A x \in Range(commands') : SameKind(x, Head(commands)) => x.of # c
    BY <2>1, <2>2, TakeFacts DEF IsCall, QueueMatches
  <2>4. c \in Callers /\ future[c] = "pending"
    BY <1>100, <2>2, <2>3 DEF QueueMatches, ItemMatches
  <2>5. /\ \A d \in Callers \ {c} : future'[d] = future[d]
        /\ UNCHANGED <<declared, owner, run, closer>>
    BY <1>0, <1>8, <2>2 DEF TakeOperation, TakeContinuation
  <2>6. \A x \in Range(commands') :
          /\ IsHook(x) => run'[x.of] = run[x.of]
          /\ IsCall(x) => future'[x.of] = future[x.of]
    BY <1>100, <2>3, <2>5 DEF SameKind
  <2>7. \A k \in Closers : closer'[k] \in {"idle", "clear", "super"}
                             => future'[k] \in {"none", "value", "error"}
    BY <1>0, <2>4, <2>5 DEF QueueMatches
  <2>8. owner' \in Hooks => declared[owner'] = "sync" /\ run'[owner'] = "running"
    BY <2>5 DEF QueueMatches
  <2> QED
    BY <2>3, <2>5, <2>6, <2>7, <2>8, QueueKept
<1>9. ASSUME TakeHookCall PROVE QueueMatches'
  <2>1. Takes("hook")
    BY <1>9 DEF TakeHookCall
  <2>2. PICK h : h = Head(commands).of
    OBVIOUS
  <2>3. /\ Head(commands) \in Range(commands)
        /\ IsHook(Head(commands))
        /\ Range(commands') \subseteq Range(commands) /\ ItemsDiffer'
        /\ \A x \in Range(commands') : SameKind(x, Head(commands)) => x.of # h
    BY <2>1, <2>2, TakeFacts DEF IsHook, QueueMatches
  <2>4. h \in Hooks /\ declared[h] = "sync"
    BY <1>100, <2>2, <2>3 DEF QueueMatches, ItemMatches
  <2>5. /\ run' = [run EXCEPT ![h] = "running"] /\ owner' = h
        /\ UNCHANGED <<declared, future, closer>>
    BY <1>9, <2>2 DEF TakeHookCall
  <2>6. \A x \in Range(commands') :
          /\ IsHook(x) => run'[x.of] = run[x.of]
          /\ IsCall(x) => future'[x.of] = future[x.of]
    BY <1>0, <1>100, <2>3, <2>5 DEF SameKind
  <2>7. \A k \in Closers : closer'[k] \in {"idle", "clear", "super"}
                             => future'[k] \in {"none", "value", "error"}
    BY <2>5 DEF QueueMatches
  <2>8. run'[owner'] = "running"
    BY <1>0, <2>4, <2>5
  <2> QED
    BY <2>3, <2>4, <2>5, <2>6, <2>7, <2>8, QueueKept
<1>10. ASSUME SyncHookEnds PROVE QueueMatches'
  <2>1. /\ owner \in Hooks /\ run[owner] = "running"
        /\ run' = [run EXCEPT ![owner] = "ended"] /\ owner' = << >>
        /\ UNCHANGED <<declared, commands, future, closer>>
    BY <1>10 DEF SyncHookEnds, QueueMatches
  <2>2. \A x \in Range(commands) : IsHook(x) => x.of # owner
    BY <2>1 DEF QueueMatches, ItemMatches
  <2>3. \A x \in Range(commands') :
          /\ IsHook(x) => run'[x.of] = run[x.of]
          /\ IsCall(x) => future'[x.of] = future[x.of]
    BY <1>0, <1>100, <2>1, <2>2
  <2>4. owner' \notin Hooks
    BY <1>100, <2>1
  <2>5. \A k \in Closers : closer'[k] \in {"idle", "clear", "super"}
                             => future'[k] \in {"none", "value", "error"}
    BY <2>1 DEF QueueMatches
  <2> QED
    BY <1>101, <2>1, <2>3, <2>4, <2>5, QueueKept
<1>11. ASSUME TakeStop PROVE QueueMatches'
  <2>1. /\ Range(commands') \subseteq Range(commands) /\ ItemsDiffer'
    BY <1>11, TakeFacts DEF TakeStop, QueueMatches
  <2>2. /\ owner' \notin Hooks
        /\ UNCHANGED <<declared, run, future, closer>>
    BY <1>11, <1>100 DEF TakeStop
  <2>3. \A k \in Closers : closer'[k] \in {"idle", "clear", "super"}
                             => future'[k] \in {"none", "value", "error"}
    BY <2>2 DEF QueueMatches
  <2> QED
    BY <2>1, <2>2, <2>3, QueueKept
<1>12. ASSUME LoopInstall PROVE QueueMatches'
  <2>1. PICK result \in {"value", "error"} : Deliver(Agent, result)
    BY <1>12 DEF LoopInstall
  <2> QED
    BY <1>0, <1>12, <2>1, DeliverQueue DEF LoopInstall
<1>13. ASSUME NEW k \in Closers, LoopUninstall(k) PROVE QueueMatches'
  BY <1>0, <1>13, DeliverQueue DEF LoopUninstall
<1>14. ASSUME NEW k \in Closers, LoopClosePi(k) \/ LoopCloseServer(k)
       PROVE  QueueMatches'
  <2>1. \A h \in Hooks : declared[h] = "sync" => run'[h] = run[h]
    BY <1>14, CancelledFacts, CancelReaderFacts DEF LoopClosePi, LoopCloseServer
  <2>2. /\ future[k] \in {"pi", "server"}
        /\ \E phase \in {"server", "tasks"} :
             future' = [future EXCEPT ![k] = phase]
        /\ UNCHANGED <<declared, commands, owner, closer>>
    BY <1>14 DEF LoopClosePi, LoopCloseServer
  <2>3. \A x \in Range(commands) : IsCall(x) => x.of # k
    BY <2>2 DEF QueueMatches, ItemMatches
  <2>4. \A x \in Range(commands') :
          /\ IsHook(x) => run'[x.of] = run[x.of]
          /\ IsCall(x) => future'[x.of] = future[x.of]
    BY <1>0, <1>100, <2>1, <2>2, <2>3 DEF QueueMatches, ItemMatches
  <2>5. \A j \in Closers : closer'[j] \in {"idle", "clear", "super"}
                             => future'[j] \in {"none", "value", "error"}
    BY <1>0, <2>2 DEF QueueMatches
  <2>6. owner' \in Hooks => declared[owner'] = "sync" /\ run'[owner'] = "running"
    BY <2>1, <2>2 DEF QueueMatches
  <2> QED
    BY <1>101, <2>2, <2>4, <2>5, <2>6, QueueKept
<1>15. ASSUME NEW k \in Closers, ClosePiTimesOut(k) \/ LoopCloseEnds(k)
       PROVE  QueueMatches'
  <2>1. \A h \in Hooks : declared[h] = "sync" => run'[h] = run[h]
    BY <1>15, CancelReaderFacts DEF ClosePiTimesOut, LoopCloseEnds
  <2>2. /\ future[k] \in {"pi", "server", "tasks", "nothing"}
        /\ Deliver(k, "value") \/ Deliver(k, "error")
        /\ UNCHANGED <<declared, owner, closer>>
    BY <1>15 DEF ClosePiTimesOut, LoopCloseEnds
  <2> QED
    BY <1>0, <2>1, <2>2, DeliverQueue
<1>16. ASSUME NEW h \in Hooks, AsyncHookEnds(h) PROVE QueueMatches'
  BY <1>0, <1>16, <1>102 DEF AsyncHookEnds
<1>17. ASSUME \/ \E e \in RpcEvents : ReadEvent(e)
              \/ Notified \/ EventDone
              \/ \E p \in Prompts : Collect(p) \/ BeginPrompt(p) \/ PromptReturns(p)
              \/ \E e \in BridgeEvents : Decided(e)
       PROVE  QueueMatches'
  BY <1>17, <1>102 DEF ReadEvent, Notified, EventDone, Collect, BeginPrompt,
                       PromptReturns, Decided
<1>18. ASSUME Notify PROVE QueueMatches'
  <2>1. /\ handled # << >>
        /\ Agent \in Range(reader.todo)
    <3>1. reader.todo # << >> /\ Head(reader.todo) = Agent
      BY <1>18 DEF Notify, CallsHandler
    <3>2. reader.todo \in Seq(Prompts \cup {Agent})
      BY DEF TypeOK
    <3>3. Agent \in Range(reader.todo)
      BY <3>1, <3>2, TailFacts DEF Range
    <3> QED
      BY <1>18, <3>3 DEF Notify, CallsHandler, ReaderInOrder
  <2>2. run[On(Last(handled))] = "none" /\ On(Last(handled)) \in Hooks
    BY <1>18, <2>1, LastFacts DEF Notify, CallsHandler, ReaderInOrder
  <2> QED
    BY <1>18, <2>2, BeginQueue DEF Notify
<1>19. ASSUME NEW e \in BridgeEvents, Fire(e) PROVE QueueMatches'
  BY <1>19, BeginQueue, HookNames DEF Fire, BegunOnce, Events
<1>20. ASSUME NEW e \in BridgeEvents, Observed(e) PROVE QueueMatches'
  <2>1. CASE declared[Decide(e)] = "none"
    BY <1>20, <2>1, <1>102 DEF Observed
  <2>2. CASE declared[Decide(e)] # "none"
    BY <1>20, <2>2, BeginQueue, HookNames DEF Observed, BegunOnce
  <2> QED
    BY <2>1, <2>2
<1>21. ASSUME UNCHANGED vars PROVE QueueMatches'
  BY <1>21, <1>102 DEF vars
<1> QED
  BY <1>1, <1>2, <1>3, <1>4, <1>5, <1>6, <1>7, <1>8, <1>9, <1>10, <1>11, <1>12,
     <1>13, <1>14, <1>15, <1>16, <1>17, <1>18, <1>19, <1>20, <1>21
     DEF Next, StartStep, CloseStep, OwnerStep, ReaderStep, EventStep

-----------------------------------------------------------------------------
(* The subscription.                                                       *)

\* A step that neither start() nor a prompt makes: the queue gets nothing new
\* of start(), and the handlers change only for a close().
LEMMA UpFrame ==
    ASSUME UpUntilClose,
           \A x \in Range(commands') : \/ x \in Range(commands)
                                       \/ x.kind \notin {"install", "value"}
                                       \/ x.of # Agent,
           future'[Agent] = future[Agent],
           start' = start, eager' = eager,
           Range(handlers') \subseteq Range(handlers),
           NobodyCloses' => /\ NobodyCloses
                            /\ UNCHANGED <<closed, attr, handlers>>
    PROVE  UpUntilClose'
<1>1. \A kind : Item(kind, Agent).kind = kind /\ Item(kind, Agent).of = Agent
  BY DEF Item
<1>2. (Installs' => Installs) /\ (Succeeds' => Succeeds)
  BY <1>1 DEF Installs, Succeeds
<1> QED
  BY <1>2 DEF UpUntilClose

\* Removing a handler leaves the others.
LEMMA RemoveRange ==
    ASSUME TypeOK, ReaderInOrder, NEW x, handlers' = RemoveFirst(handlers, x)
    PROVE  /\ Range(handlers') \subseteq Range(handlers)
           /\ Agent # x /\ Agent \in Range(handlers)
                => Agent \in Range(handlers')
<1>1. handlers \in Seq(Prompts \cup {Agent}) /\ IsInjective(handlers)
  BY DEF TypeOK, ReaderInOrder, Subscribed
<1> QED
  BY <1>1, RemoveFacts

\* Every step keeps what holds of the harness until it is closed.
LEMMA UpStep ==
    ASSUME TypeOK, QueueMatches, UpUntilClose, ReaderInOrder, [Next]_vars
    PROVE  UpUntilClose'
<1> USE DEF callVars, coreVars, rpcVars
<1>0. /\ Closers \subseteq Callers /\ Agent \in Callers /\ Agent \notin Closers
      /\ future \in [Callers -> Futures]
      /\ closer \in [Closers -> {"idle", "clear", "uninstall", "super", "core",
                                 "finally", "done"}]
      /\ closed \in BOOLEAN /\ corePi \in BOOLEAN
      /\ commands \in Seq(Items)
      /\ handlers \in Seq(Prompts \cup {Agent})
  BY HooksAssumption DEF TypeOK, Futures, Callers
<1>100. \A kind, c : Item(kind, c).kind = kind /\ Item(kind, c).of = c
  BY DEF Item
<1>101. Item("install", Agent) \in Range(commands)
        \/ Item("value", Agent) \in Range(commands)
          => future[Agent] = "pending"
  BY <1>100 DEF QueueMatches, ItemMatches, IsCall
<1>102. \A k \in Closers : \A kind \in {"uninstall", "close", "value", "error"} :
          Item(kind, k) \in Items /\ Item(kind, k).of # Agent
  BY <1>0, <1>100 DEF Items, Item, Callers
<1>103. ASSUME UNCHANGED <<start, eager, handlers, closer, closed, attr, future>>,
               \A x \in Range(commands') : x \in Range(commands) \/ IsHook(x)
        PROVE  UpUntilClose'
  BY <1>103, UpFrame DEF IsHook, NobodyCloses
<1>1. ASSUME StartPi PROVE UpUntilClose'
  BY <1>1 DEF StartPi, UpUntilClose, Installs, Succeeds, NobodyCloses
<1>2. ASSUME InstallDispatcher PROVE UpUntilClose'
  <2>1. CASE closed
    BY <1>2, <2>1 DEF InstallDispatcher, UpUntilClose, Installs, Succeeds,
                      NobodyCloses
  <2>2. CASE ~closed
    <3>1. /\ start = "install" /\ start' = "wait"
          /\ future'[Agent] = "pending" /\ Put(Item("install", Agent))
          /\ UNCHANGED <<closer, closed, attr, eager, handlers>>
      BY <1>0, <1>2, <2>2 DEF InstallDispatcher
    <3>2. Range(commands') = Range(commands) \cup {Item("install", Agent)}
      BY <1>0, <3>1, AppendFacts DEF Put, Items, Item
    <3>3. /\ future[Agent] = "none"
          /\ Agent \notin Range(handlers) /\ Range(handlers) \subseteq eager
      BY <3>1 DEF UpUntilClose
    <3>4. Item("install", Agent) # Item("value", Agent)
      BY <1>100
    <3>5. ~Succeeds'
      BY <1>101, <3>1, <3>2, <3>3, <3>4 DEF Succeeds
    <3> QED
      BY <3>1, <3>3, <3>5 DEF UpUntilClose, NobodyCloses
  <2> QED
    BY <2>1, <2>2
<1>3. ASSUME StartEnds PROVE UpUntilClose'
  BY <1>3 DEF StartEnds, UpUntilClose, Installs, Succeeds, NobodyCloses
<1>4. ASSUME NEW k \in Closers, BeginClose(k) PROVE UpUntilClose'
  <2>1. ~NobodyCloses'
    BY <1>0, <1>4 DEF BeginClose, NobodyCloses
  <2> QED
    BY <1>4, <2>1, UpFrame DEF BeginClose
<1>5. ASSUME NEW k \in Closers, Uninstall(k) PROVE UpUntilClose'
  <2>1. ~NobodyCloses'
    BY <1>0, <1>5 DEF Uninstall, NobodyCloses
  <2>2. Range(handlers') \subseteq Range(handlers)
    BY <1>5, RemoveRange DEF Uninstall, Unsubscribe
  <2>3. future'[Agent] = future[Agent]
    BY <1>0, <1>5 DEF Uninstall
  <2>4. \A x \in Range(commands') : x \in Range(commands) \/ x.of # Agent
    BY <1>5, <1>102, PutFacts DEF Uninstall
  <2> QED
    BY <1>5, <2>1, <2>2, <2>3, <2>4, UpFrame DEF Uninstall
<1>6. ASSUME NEW k \in Closers, Uninstalled(k) PROVE UpUntilClose'
  <2>1. ~NobodyCloses'
    BY <1>0, <1>6 DEF Uninstalled, NobodyCloses
  <2>2. Range(handlers') \subseteq Range(handlers)
    BY <1>6, RemoveRange DEF Uninstalled, Unsubscribe
  <2> QED
    BY <1>6, <2>1, <2>2, UpFrame DEF Uninstalled
<1>7. ASSUME NEW k \in Closers, CloseSuper(k) PROVE UpUntilClose'
  <2>1. ~NobodyCloses'
    BY <1>0, <1>7 DEF CloseSuper, NobodyCloses
  <2>3. future'[Agent] = future[Agent]
    BY <1>0, <1>7 DEF CloseSuper
  <2>4. \A x \in Range(commands') : x \in Range(commands) \/ x.of # Agent
    BY <1>7, <1>102, PutFacts DEF CloseSuper
  <2> QED
    BY <1>7, <2>1, <2>3, <2>4, UpFrame DEF CloseSuper
<1>8. ASSUME NEW k \in Closers, SetClosedAndStop(k) PROVE UpUntilClose'
  <2>1. ~NobodyCloses'
    BY <1>0, <1>8 DEF SetClosedAndStop, NobodyCloses
  <2>2. Stop \in Items /\ Stop.kind = "stop"
    BY DEF Items, Stop, Item
  <2>4. \A x \in Range(commands') : x \in Range(commands) \/ x.kind = "stop"
    BY <1>0, <1>8, <2>2, AppendFacts DEF SetClosedAndStop, Put
  <2> QED
    BY <1>8, <2>1, <2>4, UpFrame DEF SetClosedAndStop
<1>9. ASSUME TakeOperation \/ TakeContinuation PROVE UpUntilClose'
  <2>1. PICK kind \in {"install", "uninstall", "close", "value", "error"} :
          /\ Takes(kind)
          /\ future'[Head(commands).of] = "value" => kind = "value"
          /\ future'[Head(commands).of] = "install" => kind = "install"
    <3>1. ASSUME TakeContinuation PROVE
            \E kind \in {"value", "error"} :
              /\ Takes(kind)
              /\ future'[Head(commands).of] \in {kind, future[Head(commands).of]}
      <4>1. PICK kind \in {"value", "error"} : Takes(kind)
        BY <3>1 DEF TakeContinuation
      <4>2. Head(commands).kind = kind
        BY <4>1 DEF Takes
      <4> QED
        BY <1>0, <3>1, <4>1, <4>2 DEF TakeContinuation
    <3>2. \A k \in {"install", "uninstall", "close", "value", "error"} :
            Takes(k) => future[Head(commands).of] = "pending"
                        /\ Head(commands).of \in Callers
      <4> SUFFICES ASSUME NEW k \in {"install", "uninstall", "close", "value",
                                     "error"}, Takes(k)
                   PROVE  future[Head(commands).of] = "pending"
                          /\ Head(commands).of \in Callers
        OBVIOUS
      <4>1. /\ Head(commands) \in Items /\ Head(commands) \in Range(commands)
            /\ IsCall(Head(commands))
        BY TakeFacts DEF IsCall
      <4> QED
        BY <4>1, ItemKinds DEF QueueMatches, ItemMatches
    <3>3. CASE TakeContinuation
      BY <3>1, <3>2, <3>3
    <3>4. CASE TakeOperation
      <4>1. CASE Takes("install")
        BY <1>0, <3>2, <3>4, <4>1 DEF TakeOperation, Takes
      <4>2. CASE Takes("uninstall")
        BY <1>0, <3>2, <3>4, <4>2 DEF TakeOperation, Takes
      <4>3. CASE Takes("close")
        BY <1>0, <3>2, <3>4, <4>3 DEF TakeOperation, Takes
      <4> QED
        BY <3>4, <4>1, <4>2, <4>3 DEF TakeOperation
    <3> QED
      BY <1>9, <3>3, <3>4
  <2>2. PICK c : c = Head(commands).of
    OBVIOUS
  <2>3. /\ Head(commands) \in Range(commands) /\ Head(commands) \in Items
        /\ Head(commands).kind = kind /\ Head(commands) = Item(kind, c)
        /\ IsCall(Head(commands))
        /\ Range(commands') \subseteq Range(commands)
    BY <2>1, <2>2, TakeFacts, ItemKinds DEF IsCall
  <2>4. c \in Callers /\ future[c] = "pending"
    BY <2>2, <2>3, ItemKinds DEF QueueMatches, ItemMatches
  <2>5. /\ \A d \in Callers \ {c} : future'[d] = future[d]
        /\ UNCHANGED <<start, eager, handlers, closer, closed, attr>>
    BY <1>0, <1>9, <2>2 DEF TakeOperation, TakeContinuation
  <2>6. CASE c # Agent
    BY <1>0, <2>3, <2>5, <2>6, UpFrame DEF NobodyCloses
  <2>7. CASE c = Agent
    <3>1. (Installs' => Installs) /\ (Succeeds' => Succeeds)
      BY <2>1, <2>2, <2>3, <2>7 DEF Installs, Succeeds
    <3>2. start \notin {"idle", "install", "returned"}
      BY <2>4, <2>7 DEF UpUntilClose
    <3> QED
      BY <2>5, <3>1, <3>2 DEF UpUntilClose, NobodyCloses
  <2> QED
    BY <2>6, <2>7
<1>10. ASSUME \/ TakeHookCall \/ TakeStop
              \/ SyncHookEnds
              \/ \E h \in Hooks : AsyncHookEnds(h)
              \/ \E e \in RpcEvents : ReadEvent(e)
              \/ Notified \/ EventDone
              \/ \E p \in Prompts : Collect(p)
              \/ \E e \in BridgeEvents : Decided(e)
       PROVE  UpUntilClose'
  <2>1. Range(commands') \subseteq Range(commands)
    BY <1>10, TakeFacts DEF TakeHookCall, TakeStop, SyncHookEnds, AsyncHookEnds,
       ReadEvent, Notified, EventDone, Collect, Decided
  <2>2. UNCHANGED <<start, eager, handlers, closer, closed, attr, future>>
    BY <1>10 DEF TakeHookCall, TakeStop, SyncHookEnds, AsyncHookEnds,
       ReadEvent, Notified, EventDone, Collect, Decided
  <2> QED
    BY <1>103, <2>1, <2>2
<1>11. ASSUME LoopInstall PROVE UpUntilClose'
  <2>1. future[Agent] = "install" /\ start \notin {"idle", "install", "returned"}
    BY <1>11 DEF LoopInstall, UpUntilClose
  <2>3. /\ Item("install", Agent) \notin Range(commands)
        /\ Item("value", Agent) \notin Range(commands)
    BY <1>101, <2>1
  <2>4. PICK result \in {"value", "error"} :
          /\ Deliver(Agent, result)
          /\ result = "value" => corePi
    BY <1>11 DEF LoopInstall
  <2>5. /\ future'[Agent] \in {"pending", "error"}
        /\ \A x \in Range(commands') : x \in Range(commands) \/ x = Item(result, Agent)
    <3>1. \/ commands' = commands /\ future'[Agent] = "error"
          \/ Put(Item(result, Agent)) /\ future'[Agent] = "pending"
      BY <1>0, <2>4, DeliverFacts
    <3>2. Item(result, Agent) \in Items
      BY <1>0, <2>4, DeliverFacts
    <3> QED
      BY <3>1, <3>2, PutFacts
  <2>6. ~Installs'
    BY <1>100, <2>3, <2>5 DEF Installs
  <2>7. Succeeds' => corePi
    BY <1>100, <2>3, <2>4, <2>5 DEF Succeeds
  <2>8. corePi => Agent \in Range(handlers')
    BY <1>0, <1>11, AppendFacts DEF LoopInstall
  <2>9. UNCHANGED <<start, closer, attr, closed>>
    BY <1>11 DEF LoopInstall
  <2> QED
    BY <2>1, <2>6, <2>7, <2>8, <2>9 DEF UpUntilClose, NobodyCloses
<1>12. ASSUME NEW k \in Closers, LoopUninstall(k) PROVE UpUntilClose'
  <2>1. closer'[k] # "idle" /\ closer' = closer
    BY <1>12 DEF LoopUninstall, QueueMatches
  <2>2. ~NobodyCloses'
    BY <2>1 DEF NobodyCloses
  <2>3. Range(handlers') \subseteq Range(handlers)
    BY <1>12, RemoveRange DEF LoopUninstall, Unsubscribe
  <2>4. /\ future'[Agent] = future[Agent]
        /\ \A x \in Range(commands') : x \in Range(commands) \/ x.of # Agent
    <3>1. \/ commands' = commands
          \/ Put(Item("value", k))
      BY <1>0, <1>12, DeliverFacts DEF LoopUninstall
    <3>2. future'[Agent] = future[Agent]
      BY <1>0, <1>12, DeliverFacts DEF LoopUninstall
    <3> QED
      BY <1>102, <3>1, <3>2, PutFacts
  <2> QED
    BY <1>12, <2>2, <2>3, <2>4, UpFrame DEF LoopUninstall
<1>13. ASSUME NEW k \in Closers, LoopClosePi(k) \/ LoopCloseServer(k)
       PROVE  UpUntilClose'
  <2>1. /\ future'[Agent] = future[Agent]
        /\ UNCHANGED <<start, eager, handlers, closer, closed, attr, commands>>
    BY <1>0, <1>13 DEF LoopClosePi, LoopCloseServer
  <2> QED
    BY <2>1, UpFrame DEF NobodyCloses
<1>14. ASSUME NEW k \in Closers, ClosePiTimesOut(k) \/ LoopCloseEnds(k)
       PROVE  UpUntilClose'
  <2>1. UNCHANGED <<start, eager, handlers, closer, closed, attr>>
    BY <1>14 DEF ClosePiTimesOut, LoopCloseEnds
  <2>4. /\ future'[Agent] = future[Agent]
        /\ \A x \in Range(commands') : x \in Range(commands) \/ x.of # Agent
    <3>3. PICK result \in {"value", "error"} : Deliver(k, result)
      BY <1>14 DEF ClosePiTimesOut, LoopCloseEnds
    <3>1. \/ commands' = commands
          \/ Put(Item(result, k))
      BY <1>0, <3>3, DeliverFacts
    <3>2. future'[Agent] = future[Agent]
      BY <1>0, <3>3, DeliverFacts
    <3> QED
      BY <1>102, <3>1, <3>2, PutFacts
  <2> QED
    BY <2>1, <2>4, UpFrame DEF NobodyCloses
<1>15. ASSUME NEW h \in Hooks, Begin(h),
              UNCHANGED <<start, eager, handlers, closer, closed, attr, future>>
       PROVE  UpUntilClose'
  <2>1. \/ commands' = commands
        \/ Put(Item("hook", h))
    BY <1>15, BeginFacts
  <2>2. Item("hook", h) \in Items /\ IsHook(Item("hook", h))
    BY <1>100, <1>15, BeginFacts DEF IsHook
  <2>3. \A x \in Range(commands') : x \in Range(commands) \/ IsHook(x)
    BY <2>1, <2>2, PutFacts
  <2> QED
    BY <1>15, <2>3, <1>103
<1>16. ASSUME Notify PROVE UpUntilClose'
  <2>1. On(Last(handled)) \in Hooks
    BY <1>16, LastFacts DEF Notify, CallsHandler, ReaderInOrder
  <2> QED
    BY <1>15, <1>16, <2>1 DEF Notify
<1>17. ASSUME NEW e \in BridgeEvents, Fire(e) PROVE UpUntilClose'
  BY <1>15, <1>17, HookNames DEF Fire, Events
<1>18. ASSUME NEW e \in BridgeEvents, Observed(e) PROVE UpUntilClose'
  <2>1. CASE declared[Decide(e)] = "none"
    BY <1>18, <2>1, <1>103 DEF Observed
  <2>2. CASE declared[Decide(e)] # "none"
    BY <1>15, <1>18, <2>2, HookNames DEF Observed
  <2> QED
    BY <2>1, <2>2
<1>19. ASSUME NEW p \in Prompts, BeginPrompt(p) PROVE UpUntilClose'
  <2>1. Range(handlers') = Range(handlers) \cup {p} /\ p # Agent
    BY <1>0, <1>19, AppendFacts, HooksAssumption DEF BeginPrompt
  <2>2. Agent \notin Range(handlers) => eager' = eager \cup {p}
    BY <1>19 DEF BeginPrompt
  <2>4. UNCHANGED <<start, closer, closed, attr, future, commands>>
    BY <1>19 DEF BeginPrompt
  <2> QED
    BY <2>1, <2>2, <2>4
       DEF UpUntilClose, NobodyCloses, Installs, Succeeds
<1>20. ASSUME NEW p \in Prompts, PromptReturns(p) PROVE UpUntilClose'
  <2>3. /\ Range(handlers') \subseteq Range(handlers)
        /\ Agent \in Range(handlers) => Agent \in Range(handlers')
    BY <1>20, HooksAssumption, RemoveRange DEF PromptReturns
  <2>4. UNCHANGED <<start, closer, closed, attr, future, commands, eager>>
    BY <1>20 DEF PromptReturns
  <2> QED
    BY <2>3, <2>4
       DEF UpUntilClose, NobodyCloses, Installs, Succeeds
<1>21. ASSUME UNCHANGED vars PROVE UpUntilClose'
  BY <1>21, <1>103 DEF vars
<1> QED
  BY <1>1, <1>2, <1>3, <1>4, <1>5, <1>6, <1>7, <1>8, <1>9, <1>10, <1>11, <1>12,
     <1>13, <1>14, <1>16, <1>17, <1>18, <1>19, <1>20, <1>21
     DEF Next, StartStep, CloseStep, OwnerStep, ReaderStep, EventStep

-----------------------------------------------------------------------------
(* The hooks, and the reader.                                              *)

\* What becomes of a hook that was begun: it is not begun again.
GoesOn(h) == \/ run'[h] = run[h]
             \/ run[h] # "none" /\ (Active(h)' => Active(h))

\* What a prompt has seen: events the reader took.  The hook of one of them can
\* wait or run only if the prompt is eager and the event the last; to any other
\* prompt the reader comes when it has called the agent.
CollectedInOrder ==
    \A p \in Prompts : \A e \in collected[p] :
      /\ e \in Range(handled)
      /\ Active(On(e)) => p \in eager /\ e = Last(handled)
      /\ e = Last(handled) /\ p \notin eager =>
           /\ reader.at # "hook"
           /\ reader.at = "call" => Agent \notin Range(reader.todo)

\* A step that begins no hook.
LEMMA BegunFrame ==
    ASSUME TypeOK, BegunOnce, \A h \in Hooks : GoesOn(h),
           declared' = declared,
           \A e \in BridgeEvents : stage'[e] = stage[e]
                                   \/ stage'[e] \notin {"new", "on"},
           Range(handled) \subseteq Range(handled')
    PROVE  BegunOnce'
  BY HookNames DEF BegunOnce, GoesOn, Events

\* Hooks go on by themselves: taken by the owner thread, ended or cancelled.
LEMMA HooksGoOn ==
    ASSUME TypeOK, QueueMatches,
           \/ TakeHookCall \/ SyncHookEnds
           \/ \E h \in Hooks : AsyncHookEnds(h)
           \/ \E k \in Closers : \/ LoopClosePi(k) \/ ClosePiTimesOut(k)
                                 \/ LoopCloseServer(k)
           \/ UNCHANGED run
    PROVE  \A h \in Hooks : GoesOn(h)
<1>0. run \in [Hooks -> {"none", "queued", "running", "ended", "refused"}]
  BY DEF TypeOK
<1>1. ASSUME TakeHookCall PROVE \A h \in Hooks : GoesOn(h)
  <2>1. PICK h : h = Head(commands).of
    OBVIOUS
  <2>2. /\ Head(commands) \in Range(commands) /\ Head(commands) \in Items
        /\ IsHook(Head(commands))
    BY <1>1, TakeFacts DEF TakeHookCall, IsHook
  <2>3. h \in Hooks /\ run[h] = "queued"
    BY <2>1, <2>2, ItemKinds DEF QueueMatches, ItemMatches
  <2>4. run' = [run EXCEPT ![h] = "running"]
    BY <1>1, <2>1 DEF TakeHookCall
  <2> QED
    BY <1>0, <2>3, <2>4 DEF GoesOn, Active
<1>2. ASSUME SyncHookEnds PROVE \A h \in Hooks : GoesOn(h)
  BY <1>0, <1>2 DEF SyncHookEnds, GoesOn, Active, QueueMatches
<1>3. ASSUME NEW g \in Hooks, AsyncHookEnds(g) PROVE \A h \in Hooks : GoesOn(h)
  BY <1>0, <1>3 DEF AsyncHookEnds, GoesOn, Active
<1>4. ASSUME NEW S, Cancelled(S) PROVE \A h \in Hooks : GoesOn(h)
  BY <1>4, CancelledFacts DEF GoesOn, Active
<1>5. ASSUME NEW k \in Closers, LoopCloseServer(k)
      PROVE  \A h \in Hooks : GoesOn(h)
  BY <1>4, <1>5 DEF LoopCloseServer
<1>7. ASSUME NEW k \in Closers, LoopClosePi(k) \/ ClosePiTimesOut(k)
      PROVE  \A h \in Hooks : GoesOn(h)
  BY <1>7, CancelReaderFacts DEF LoopClosePi, ClosePiTimesOut, GoesOn, Active
<1>6. ASSUME UNCHANGED run PROVE \A h \in Hooks : GoesOn(h)
  BY <1>6 DEF GoesOn
<1> QED
  BY <1>1, <1>2, <1>3, <1>5, <1>6, <1>7

\* What the reader has no part in: the hooks go on, and the handlers are as
\* they should be.
LEMMA ReaderFrame ==
    ASSUME TypeOK, ReaderInOrder, CollectedInOrder,
           \A e \in RpcEvents : GoesOn(On(e)),
           UNCHANGED <<reader, handled, collected>>,
           eager \subseteq eager', Subscribed(handlers)',
           \A p \in Range(handlers') \ {Agent} : prompts'[p] = "waiting"
    PROVE  (ReaderInOrder /\ CollectedInOrder)'
<1>1. \A i \in DOMAIN handled : handled[i] \in RpcEvents
  BY DEF TypeOK
<1>2. \A p \in Prompts : collected[p] \subseteq RpcEvents
  BY DEF TypeOK
<1>3. handled # << >> => Last(handled) \in RpcEvents
  BY LastFacts
<1>4. \A e \in RpcEvents : /\ Active(On(e))' => Active(On(e))
                           /\ run[On(e)] = "none" => run'[On(e)] = "none"
  BY DEF GoesOn, Active
<1>5. ReaderInOrder'
  <2>1. /\ Subscribed(reader.todo)' /\ Subscribed(handlers)'
        /\ IsInjective(handled)'
    BY DEF ReaderInOrder, Subscribed, IsInjective
  <2>2. \A i \in DOMAIN handled : i < Len(handled) => ~Active(On(handled[i]))'
    BY <1>1, <1>4 DEF ReaderInOrder, Active
  <2>3. handled # << >> =>
          /\ reader.at = "read" => ~Active(On(Last(handled)))'
          /\ reader.at = "call" /\ Agent \in Range(reader.todo)
               => run'[On(Last(handled))] = "none"
          /\ reader.at = "call" /\ Agent \notin Range(reader.todo)
               => ~Active(On(Last(handled)))'
    BY <1>3, <1>4 DEF ReaderInOrder, Active
  <2> QED
    BY <2>1, <2>2, <2>3 DEF ReaderInOrder, Active
<1>6. CollectedInOrder'
  BY <1>2, <1>4 DEF CollectedInOrder
<1> QED
  BY <1>5, <1>6

\* The agent is called once, and after none but eager prompts.
LEMMA TailSubscribed ==
    ASSUME NEW T, NEW s \in Seq(T), s # << >>, Subscribed(s)
    PROVE  /\ Subscribed(Tail(s))
           /\ Head(s) \notin eager => Agent \notin Range(Tail(s))
           /\ Head(s) = Agent => Agent \notin Range(Tail(s))
<1> DEFINE r == Tail(s)
<1>1. /\ DOMAIN r = 1..Len(r) /\ Len(r) \in Nat
      /\ \A i \in DOMAIN r : i + 1 \in DOMAIN s /\ r[i] = s[i + 1]
  <2>1. r \in Seq(T)
    BY TailFacts
  <2> QED
    BY <2>1, TailFacts
<1> HIDE DEF r
<1>2. /\ 1 \in DOMAIN s /\ Head(s) = s[1]
      /\ \A i \in DOMAIN r : 1 < i + 1 /\ 1 # i + 1
  BY <1>1, TailFacts
<1>4. \A i, j \in DOMAIN r : i < j => i + 1 < j + 1
  BY <1>1
<1>3. IsInjective(r)
  <2>1. ASSUME NEW a \in DOMAIN r, NEW b \in DOMAIN r, r[a] = r[b] PROVE a = b
    <3>1. a + 1 = b + 1
      BY <1>1, <2>1 DEF Subscribed, IsInjective
    <3> QED
      BY <1>1, <3>1
  <2> QED
    BY <2>1 DEF IsInjective
<1>5. Subscribed(r)
  BY <1>1, <1>3, <1>4 DEF Subscribed
<1>6. ASSUME NEW i \in DOMAIN r, r[i] = Agent
      PROVE  Head(s) \in eager /\ Head(s) # Agent
  BY <1>1, <1>2, <1>6 DEF Subscribed, IsInjective
<1> QED
  BY <1>5, <1>6 DEF Range, r

\* Taking a handler away keeps the others subscribed.
LEMMA RemoveSubscribed ==
    ASSUME TypeOK, ReaderInOrder, NEW x, handlers' = RemoveFirst(handlers, x),
           UNCHANGED eager
    PROVE  /\ Subscribed(handlers)' /\ x \notin Range(handlers')
           /\ Range(handlers') \subseteq Range(handlers)
<1>1. handlers \in Seq(Prompts \cup {Agent}) /\ Subscribed(handlers)
  BY DEF TypeOK, ReaderInOrder
<1>2. /\ IsInjective(handlers') /\ x \notin Range(handlers')
      /\ Range(handlers') \subseteq Range(handlers)
      /\ \A i, j \in DOMAIN handlers' : i < j =>
           \E a, b \in DOMAIN handlers :
             a < b /\ handlers'[i] = handlers[a] /\ handlers'[j] = handlers[b]
  BY <1>1, RemoveFacts DEF Subscribed
<1>3. ASSUME NEW i \in DOMAIN handlers', NEW j \in DOMAIN handlers', i < j,
             handlers'[j] = Agent
      PROVE  handlers'[i] \in eager
  BY <1>1, <1>2, <1>3 DEF Subscribed
<1>4. IsInjective(handlers)'
  BY <1>2 DEF IsInjective
<1> QED
  BY <1>2, <1>3, <1>4 DEF Subscribed

\* A handler that is not in the list is put at its end: the agent's only
\* behind eager prompts.
LEMMA AppendSubscribed ==
    ASSUME TypeOK, ReaderInOrder, NEW x \in Prompts \cup {Agent},
           handlers' = Append(handlers, x), x \notin Range(handlers),
           x = Agent => Range(handlers) \subseteq eager,
           eager \subseteq eager'
    PROVE  /\ Subscribed(handlers)'
           /\ Range(handlers') = Range(handlers) \cup {x}
<1>1. handlers \in Seq(Prompts \cup {Agent}) /\ Subscribed(handlers)
  BY DEF TypeOK, ReaderInOrder
<1>2. /\ Len(handlers') = Len(handlers) + 1 /\ Len(handlers) \in Nat
      /\ DOMAIN handlers = 1..Len(handlers)
      /\ DOMAIN handlers' = 1..Len(handlers')
      /\ \A i \in DOMAIN handlers : handlers'[i] = handlers[i]
      /\ handlers'[Len(handlers')] = x
      /\ Range(handlers') = Range(handlers) \cup {x}
  BY <1>1, AppendFacts
<1>3. \A i \in DOMAIN handlers' : i \in DOMAIN handlers \/ i = Len(handlers')
  BY <1>2
<1>4. \A i \in DOMAIN handlers : handlers[i] # x
  BY DEF Range
<1>5. IsInjective(handlers)'
  BY <1>1, <1>2, <1>3, <1>4 DEF IsInjective, Subscribed
<1>6. ASSUME NEW i \in DOMAIN handlers', NEW j \in DOMAIN handlers', i < j,
             handlers'[j] = Agent
      PROVE  handlers'[i] \in eager'
  <2>1. i \in DOMAIN handlers
    BY <1>2, <1>6
  <2>2. CASE j \in DOMAIN handlers
    BY <1>1, <1>2, <1>6, <2>1, <2>2 DEF Subscribed
  <2>3. CASE j = Len(handlers')
    BY <1>2, <1>6, <2>1, <2>3 DEF Range
  <2> QED
    BY <1>3, <2>2, <2>3
<1> QED
  BY <1>2, <1>5, <1>6 DEF Subscribed

\* The head of the handlers to call is the agent's: its hook was not begun.
LEMMA NotifyFacts ==
    ASSUME TypeOK, ReaderInOrder, Notify
    PROVE  /\ handled # << >> /\ Last(handled) \in RpcEvents
           /\ Last(handled) \in Range(handled)
           /\ On(Last(handled)) \in Hooks /\ run[On(Last(handled))] = "none"
           /\ Agent \in Range(reader.todo)
           /\ Subscribed(Tail(reader.todo))
           /\ Agent \notin Range(Tail(reader.todo))
           /\ Begin(On(Last(handled)))
<1>1. /\ reader.at = "call" /\ reader.todo # << >>
      /\ Head(reader.todo) = Agent
      /\ Begin(On(Last(handled)))
  BY DEF Notify, CallsHandler
<1>2. reader.todo \in Seq(Prompts \cup {Agent}) /\ Subscribed(reader.todo)
  BY DEF TypeOK, ReaderInOrder
<1>3. Agent \in Range(reader.todo)
  BY <1>1, <1>2, TailFacts DEF Range
<1>4. handled # << >>
  BY <1>1 DEF ReaderInOrder
<1> QED
  BY <1>1, <1>2, <1>3, <1>4, LastFacts, TailSubscribed DEF ReaderInOrder

\* Every step begins a hook once.
LEMMA BegunStep ==
    ASSUME TypeOK, QueueMatches, BegunOnce, ReaderInOrder, [Next]_vars
    PROVE  BegunOnce'
<1> USE DEF callVars, coreVars, rpcVars
<1>1. ASSUME \A h \in Hooks : GoesOn(h), UNCHANGED <<declared, stage, handled>>
      PROVE  BegunOnce'
  BY <1>1, BegunFrame
<1>2. ASSUME UNCHANGED <<declared, stage, handled, run>> PROVE BegunOnce'
  BY <1>1, <1>2, HooksGoOn
<1>3. ASSUME \/ StartPi \/ StartStep \/ TakeOperation \/ TakeContinuation
             \/ TakeStop \/ Notified \/ EventDone
             \/ \E k \in Closers : \/ BeginClose(k) \/ Uninstall(k)
                                   \/ Uninstalled(k) \/ CloseSuper(k)
                                   \/ SetClosedAndStop(k) \/ LoopUninstall(k)
                                   \/ LoopCloseEnds(k)
             \/ \E p \in Prompts : \/ Collect(p) \/ BeginPrompt(p)
                                   \/ PromptReturns(p)
             \/ UNCHANGED vars
      PROVE  BegunOnce'
  <2>1. UNCHANGED <<declared, stage, handled, run>>
    BY <1>3 DEF StartPi, StartStep, InstallDispatcher, StartEnds, LoopInstall,
       TakeOperation, TakeContinuation, TakeStop, Notified, EventDone,
       BeginClose, Uninstall, Uninstalled, CloseSuper, SetClosedAndStop,
       LoopUninstall, LoopCloseEnds, Collect, BeginPrompt, PromptReturns, vars
  <2> QED
    BY <1>2, <2>1
<1>4. ASSUME \/ TakeHookCall \/ SyncHookEnds
             \/ \E h \in Hooks : AsyncHookEnds(h)
             \/ \E k \in Closers : LoopClosePi(k) \/ ClosePiTimesOut(k)
      PROVE  BegunOnce'
  <2>1. \A h \in Hooks : GoesOn(h)
    BY <1>4, HooksGoOn
  <2>2. UNCHANGED <<declared, stage, handled>>
    BY <1>4 DEF TakeHookCall, SyncHookEnds, AsyncHookEnds, LoopClosePi,
       ClosePiTimesOut
  <2> QED
    BY <1>1, <2>1, <2>2
<1>5. ASSUME NEW k \in Closers, LoopCloseServer(k) PROVE BegunOnce'
  <2>1. \A h \in Hooks : GoesOn(h)
    BY <1>5, HooksGoOn
  <2>2. /\ UNCHANGED <<declared, handled>>
        /\ \A e \in BridgeEvents : stage'[e] = stage[e] \/ stage'[e] = "cancelled"
    BY <1>5 DEF LoopCloseServer
  <2> QED
    BY <2>1, <2>2, BegunFrame
<1>6. ASSUME NEW e \in RpcEvents, ReadEvent(e) PROVE BegunOnce'
  <2>1. UNCHANGED <<declared, stage, run>>
    BY <1>6 DEF ReadEvent
  <2>2. Range(handled) \subseteq Range(handled')
    <3>1. handled \in Seq(RpcEvents) /\ handled' = Append(handled, e)
      BY <1>6 DEF ReadEvent, TypeOK
    <3> QED
      BY <3>1, AppendFacts
  <2>3. \A h \in Hooks : GoesOn(h)
    BY <2>1 DEF GoesOn
  <2> QED
    BY <2>1, <2>2, <2>3, BegunFrame
<1>7. ASSUME Notify PROVE BegunOnce'
  <2>1. PICK e \in RpcEvents : e = Last(handled)
    BY <1>7, NotifyFacts
  <2>2. /\ e \in Range(handled) /\ On(e) \in Hooks
        /\ Begin(On(e))
        /\ UNCHANGED <<declared, stage, handled>>
    BY <1>7, <2>1, NotifyFacts DEF Notify
  <2>3. /\ \A g \in Hooks \ {On(e)} : run'[g] = run[g]
        /\ declared[On(e)] = "none" => run'[On(e)] = "none"
    BY <2>2, BeginFacts
  <2>4. \A f \in BridgeEvents : On(f) # On(e) /\ Decide(f) # On(e)
    BY HooksAssumption, HookNames
  <2>5. \A f \in RpcEvents \ Range(handled) : On(f) # On(e)
    BY <2>2, HookNames
  <2> QED
    BY <2>2, <2>3, <2>4, <2>5, HookNames DEF BegunOnce, Events
<1>8. ASSUME NEW e \in BridgeEvents, Fire(e) PROVE BegunOnce'
  <2>1. /\ On(e) \in Hooks /\ Begin(On(e)) /\ stage[e] = "new"
        /\ stage' = [stage EXCEPT ![e] = "on"]
        /\ UNCHANGED <<declared, handled>>
    BY <1>8, HookNames DEF Fire, Events
  <2>2. /\ \A g \in Hooks \ {On(e)} : run'[g] = run[g]
        /\ declared[On(e)] = "none" => run'[On(e)] = "none"
    BY <2>1, BeginFacts
  <2>3. stage \in [BridgeEvents -> {"new", "on", "decide", "done", "cancelled"}]
    BY DEF TypeOK
  <2>4. /\ \A f \in BridgeEvents : On(f) = On(e) => f = e
        /\ \A f \in BridgeEvents : Decide(f) # On(e)
        /\ \A f \in RpcEvents : On(f) # On(e)
    BY HooksAssumption, HookNames
  <2> QED
    BY <2>1, <2>2, <2>3, <2>4, HookNames DEF BegunOnce, Events
<1>9. ASSUME NEW e \in BridgeEvents, Observed(e) PROVE BegunOnce'
  <2>0. stage \in [BridgeEvents -> {"new", "on", "decide", "done", "cancelled"}]
    BY DEF TypeOK
  <2>1. CASE declared[Decide(e)] = "none"
    <3>1. /\ stage' = [stage EXCEPT ![e] = "done"]
          /\ UNCHANGED <<declared, handled, run>>
      BY <1>9, <2>1 DEF Observed
    <3>2. \A h \in Hooks : GoesOn(h)
      BY <3>1 DEF GoesOn
    <3> QED
      BY <2>0, <3>1, <3>2, BegunFrame
  <2>2. CASE declared[Decide(e)] # "none"
    <3>1. /\ Decide(e) \in Hooks /\ Begin(Decide(e)) /\ stage[e] = "on"
          /\ stage' = [stage EXCEPT ![e] = "decide"]
          /\ UNCHANGED <<declared, handled>>
      BY <1>9, <2>2, HookNames DEF Observed
    <3>2. \A g \in Hooks \ {Decide(e)} : run'[g] = run[g]
      BY <3>1, BeginFacts
    <3>3. /\ \A f \in BridgeEvents : Decide(f) = Decide(e) => f = e
          /\ \A f \in Events : On(f) # Decide(e)
      BY HookNames
    <3> QED
      BY <2>0, <2>2, <3>1, <3>2, <3>3, HookNames DEF BegunOnce, Events
  <2> QED
    BY <2>1, <2>2
<1>10. ASSUME NEW e \in BridgeEvents, Decided(e) PROVE BegunOnce'
  <2>1. /\ UNCHANGED <<declared, handled, run>>
        /\ \A f \in BridgeEvents : stage'[f] = stage[f] \/ stage'[f] = "done"
    BY <1>10 DEF Decided, TypeOK
  <2>2. \A h \in Hooks : GoesOn(h)
    BY <2>1 DEF GoesOn
  <2> QED
    BY <2>1, <2>2, BegunFrame
<1> QED
  BY <1>3, <1>4, <1>5, <1>6, <1>7, <1>8, <1>9, <1>10
     DEF Next, CloseStep, OwnerStep, ReaderStep, EventStep

\* Every step keeps the reader, and what the prompts collect, in order.
LEMMA ReaderKept ==
    ASSUME TypeOK, QueueMatches, UpUntilClose, BegunOnce, ReaderInOrder,
           CollectedInOrder, [Next]_vars
    PROVE  (ReaderInOrder /\ CollectedInOrder)'
<1> USE DEF callVars, coreVars, rpcVars
<1> DEFINE Goal == (ReaderInOrder /\ CollectedInOrder)'
<1>0. /\ \A e \in RpcEvents : On(e) \in Hooks
      /\ Subscribed(handlers)
      /\ \A p \in Range(handlers) \ {Agent} : prompts[p] = "waiting"
  BY HookNames DEF Events, ReaderInOrder
<1>1. ASSUME UNCHANGED <<reader, handled, collected, handlers, prompts, eager>>,
             \A e \in RpcEvents : GoesOn(On(e))
      PROVE  Goal
  <2>1. Subscribed(handlers)'
    BY <1>0, <1>1 DEF Subscribed, IsInjective
  <2> QED
    BY <1>0, <1>1, <2>1, ReaderFrame
<1>2. ASSUME UNCHANGED <<rpcVars, run>> PROVE Goal
  BY <1>1, <1>2 DEF GoesOn
<1>3. ASSUME UNCHANGED <<reader, handled, collected, run>>,
             eager \subseteq eager', Subscribed(handlers)',
             \A p \in Range(handlers') \ {Agent} : prompts'[p] = "waiting"
      PROVE  Goal
  BY <1>3, ReaderFrame DEF GoesOn
<1>4. ASSUME \/ StartPi \/ InstallDispatcher \/ StartEnds \/ TakeOperation
             \/ TakeContinuation \/ TakeStop
             \/ \E k \in Closers : \/ BeginClose(k) \/ CloseSuper(k)
                                   \/ SetClosedAndStop(k) \/ LoopCloseEnds(k)
             \/ \E e \in BridgeEvents : Decided(e)
             \/ UNCHANGED vars
      PROVE  Goal
  <2>1. UNCHANGED <<rpcVars, run>>
    BY <1>4 DEF StartPi, InstallDispatcher, StartEnds, TakeOperation,
       TakeContinuation, TakeStop, BeginClose, CloseSuper, SetClosedAndStop,
       LoopCloseEnds, Decided, vars
  <2> QED
    BY <1>2, <2>1
<1>5. ASSUME \/ TakeHookCall \/ SyncHookEnds
             \/ \E h \in Hooks : AsyncHookEnds(h)
             \/ \E k \in Closers : LoopCloseServer(k)
      PROVE  Goal
  <2>1. \A e \in RpcEvents : GoesOn(On(e))
    BY <1>0, <1>5, HooksGoOn
  <2>2. UNCHANGED <<reader, handled, collected, handlers, prompts, eager>>
    BY <1>5 DEF TakeHookCall, SyncHookEnds, AsyncHookEnds, LoopCloseServer
  <2> QED
    BY <1>1, <2>1, <2>2
<1>6. ASSUME UNCHANGED <<reader, handled, collected, prompts, eager, run>>,
             NEW x, handlers' = RemoveFirst(handlers, x)
      PROVE  Goal
  BY <1>0, <1>3, <1>6, RemoveSubscribed
<1>7. ASSUME NEW k \in Closers,
             Uninstall(k) \/ Uninstalled(k) \/ LoopUninstall(k)
      PROVE  Goal
  <2>1. UNCHANGED <<reader, handled, collected, prompts, eager, run>>
    BY <1>7 DEF Uninstall, Uninstalled, LoopUninstall
  <2>2. handlers' = handlers \/ handlers' = RemoveFirst(handlers, Agent)
    BY <1>7 DEF Uninstall, Uninstalled, LoopUninstall, Unsubscribe
  <2> QED
    BY <1>2, <1>6, <2>1, <2>2
<1>8. ASSUME LoopInstall PROVE Goal
  <2>1. UNCHANGED <<reader, handled, collected, prompts, eager, run>>
    BY <1>8 DEF LoopInstall
  <2>2. /\ Agent \notin Range(handlers) /\ Range(handlers) \subseteq eager
        /\ handlers' \in {handlers, Append(handlers, Agent)}
    BY <1>8 DEF LoopInstall, UpUntilClose, Installs
  <2>3. CASE handlers' = handlers
    BY <1>2, <2>1, <2>3
  <2>4. CASE handlers' = Append(handlers, Agent)
    <3>1. Subscribed(handlers)' /\ Range(handlers') = Range(handlers) \cup {Agent}
      BY <2>1, <2>2, <2>4, AppendSubscribed
    <3> QED
      BY <1>0, <1>3, <2>1, <3>1
  <2> QED
    BY <2>2, <2>3, <2>4
<1>9. ASSUME NEW p \in Prompts, BeginPrompt(p) PROVE Goal
  <2>1. /\ p # Agent /\ prompts[p] = "idle"
        /\ prompts' = [prompts EXCEPT ![p] = "waiting"]
        /\ handlers' = Append(handlers, p) /\ eager \subseteq eager'
        /\ UNCHANGED <<reader, handled, collected, run>>
    BY <1>9, HooksAssumption DEF BeginPrompt
  <2>2. p \notin Range(handlers)
    BY <1>0, <2>1
  <2>3. Subscribed(handlers)' /\ Range(handlers') = Range(handlers) \cup {p}
    BY <2>1, <2>2, AppendSubscribed
  <2>4. prompts \in [Prompts -> {"idle", "waiting", "returned"}]
    BY DEF TypeOK
  <2>5. \A q \in Range(handlers') \ {Agent} : prompts'[q] = "waiting"
    BY <1>0, <2>1, <2>2, <2>3, <2>4
  <2> QED
    BY <1>3, <2>1, <2>3, <2>5
<1>10. ASSUME NEW p \in Prompts, PromptReturns(p) PROVE Goal
  <2>1. /\ prompts' = [prompts EXCEPT ![p] = "returned"]
        /\ handlers' = RemoveFirst(handlers, p)
        /\ UNCHANGED <<reader, handled, collected, eager, run>>
    BY <1>10 DEF PromptReturns
  <2>2. /\ Subscribed(handlers)' /\ p \notin Range(handlers')
        /\ Range(handlers') \subseteq Range(handlers)
    BY <2>1, RemoveSubscribed
  <2>3. \A q \in Range(handlers') \ {Agent} : prompts'[q] = "waiting"
    BY <1>0, <2>1, <2>2 DEF TypeOK
  <2> QED
    BY <1>3, <2>1, <2>2, <2>3
<1>11. ASSUME NEW e \in BridgeEvents, Fire(e) \/ Observed(e) PROVE Goal
  <2>1. PICK h \in {On(e), Decide(e)} : Begin(h) \/ UNCHANGED run
    BY <1>11 DEF Fire, Observed
  <2>2. h \in Hooks /\ \A f \in RpcEvents : On(f) # h
    BY <2>1, HooksAssumption, HookNames DEF Events
  <2>3. \A f \in RpcEvents : GoesOn(On(f))
    BY <1>0, <2>1, <2>2, BeginFacts DEF GoesOn
  <2>4. UNCHANGED <<reader, handled, collected, handlers, prompts, eager>>
    BY <1>11 DEF Fire, Observed
  <2> QED
    BY <1>1, <2>3, <2>4
<1>12. ASSUME NEW k \in Closers, LoopClosePi(k) \/ ClosePiTimesOut(k)
       PROVE  Goal
  <2>1. \A e \in RpcEvents : /\ Active(On(e))' => Active(On(e))
                             /\ run[On(e)] = "none" => run'[On(e)] = "none"
    BY <1>0, <1>12, HooksGoOn DEF GoesOn, Active
  <2>2. /\ reader'.at = reader.at \/ reader'.at = "stopped"
        /\ reader'.todo = reader.todo
        /\ UNCHANGED <<handled, collected, handlers, prompts, eager>>
    BY <1>12, CancelReaderFacts DEF LoopClosePi, ClosePiTimesOut
  <2>3. /\ \A i \in DOMAIN handled : handled[i] \in RpcEvents
        /\ \A p \in Prompts : collected[p] \subseteq RpcEvents
        /\ handled # << >> => Last(handled) \in RpcEvents
    BY LastFacts DEF TypeOK
  <2>4. ReaderInOrder'
    <3>1. /\ Subscribed(handlers)' /\ Subscribed(reader.todo)'
          /\ IsInjective(handled)'
      BY <2>2 DEF ReaderInOrder, Subscribed, IsInjective
    <3>2. \A i \in DOMAIN handled : i < Len(handled) => ~Active(On(handled[i]))'
      BY <2>1, <2>2, <2>3 DEF ReaderInOrder
    <3> QED
      BY <2>1, <2>2, <2>3, <3>1, <3>2 DEF ReaderInOrder
  <2>5. CollectedInOrder'
    BY <2>1, <2>2, <2>3 DEF CollectedInOrder
  <2> QED
    BY <2>4, <2>5
<1>13. ASSUME NEW e \in RpcEvents, ReadEvent(e) PROVE Goal
  <2>1. /\ reader.at = "read" /\ e \notin Range(handled)
        /\ handled' = Append(handled, e)
        /\ reader'.at = "call" /\ reader'.todo = handlers
        /\ UNCHANGED <<collected, handlers, prompts, eager, run>>
    BY <1>13 DEF ReadEvent
  <2>2. /\ handled' # << >> /\ Len(handled') = Len(handled) + 1
        /\ Len(handled) \in Nat /\ DOMAIN handled = 1..Len(handled)
        /\ DOMAIN handled' = 1..Len(handled')
        /\ \A i \in DOMAIN handled : handled'[i] = handled[i]
        /\ handled'[Len(handled')] = e
        /\ Range(handled') = Range(handled) \cup {e}
    <3>1. handled \in Seq(RpcEvents)
      BY DEF TypeOK
    <3> QED
      BY <2>1, <3>1, AppendFacts
  <2>3. Last(handled') = e
    BY <2>2 DEF Last
  <2>4. run[On(e)] = "none" /\ ~Active(On(e))
    BY <2>1 DEF BegunOnce, Active
  <2>5. \A i \in DOMAIN handled : ~Active(On(handled[i]))
    <3>1. ASSUME NEW i \in DOMAIN handled, i = Len(handled)
          PROVE  ~Active(On(handled[i]))
      <4>1. handled # << >>
        BY <2>2, <3>1
      <4> QED
        BY <2>1, <3>1, <4>1, LastFacts DEF ReaderInOrder
    <3> QED
      BY <2>2, <3>1 DEF ReaderInOrder
  <2>6. IsInjective(handled')
    <3>1. \A i \in DOMAIN handled : handled[i] # e
      BY <2>1 DEF Range
    <3>2. \A i \in DOMAIN handled' : i \in DOMAIN handled \/ i = Len(handled')
      BY <2>2
    <3> QED
      BY <2>2, <3>1, <3>2 DEF ReaderInOrder, IsInjective
  <2>7. \A i \in DOMAIN handled' :
          i < Len(handled') => ~Active(On(handled'[i]))
    BY <2>2, <2>5
  <2>8. ReaderInOrder'
    <3>1. Subscribed(handlers)' /\ Subscribed(reader.todo)'
      BY <1>0, <2>1 DEF Subscribed, IsInjective
    <3> QED
      BY <1>0, <2>1, <2>2, <2>3, <2>4, <2>6, <2>7, <3>1
         DEF ReaderInOrder, Active
  <2>9. CollectedInOrder'
    <3>1. \A p \in Prompts : \A f \in collected[p] :
            f # e /\ f \in Range(handled)
      BY <2>1 DEF CollectedInOrder
    <3>2. \A f \in Range(handled) : ~Active(On(f))
      BY <2>5 DEF Range
    <3> QED
      BY <2>1, <2>2, <2>3, <3>1, <3>2 DEF CollectedInOrder, Active
  <2> QED
    BY <2>8, <2>9
<1>14. ASSUME Notify PROVE Goal
  <2>1. PICK e \in RpcEvents : e = Last(handled)
    BY <1>14, NotifyFacts
  <2>2. /\ handled # << >> /\ e \in Range(handled)
        /\ On(e) \in Hooks /\ Begin(On(e))
        /\ reader.at = "call" /\ Agent \in Range(reader.todo)
        /\ reader'.at = "hook" /\ reader'.todo = Tail(reader.todo)
        /\ Subscribed(Tail(reader.todo))
        /\ Agent \notin Range(reader'.todo)
        /\ UNCHANGED <<handled, collected, handlers, prompts, eager>>
    BY <1>14, <2>1, NotifyFacts DEF Notify, CallsHandler
  <2>3. \A f \in RpcEvents \ {e} : run'[On(f)] = run[On(f)]
    <3>1. \A f \in RpcEvents \ {e} : On(f) \in Hooks \ {On(e)}
      BY <1>0, HookNames
    <3> QED
      BY <2>2, <3>1, BeginFacts
  <2>4. /\ Len(handled) \in Nat /\ DOMAIN handled = 1..Len(handled)
        /\ \A i \in DOMAIN handled : handled[i] \in RpcEvents
        /\ Len(handled) \in DOMAIN handled /\ e = handled[Len(handled)]
        /\ \A p \in Prompts : collected[p] \subseteq RpcEvents
    BY <2>1, <2>2, LastFacts DEF TypeOK
  <2>5. \A i \in DOMAIN handled : i < Len(handled) => ~Active(On(handled[i]))'
    <3> SUFFICES ASSUME NEW i \in DOMAIN handled, i < Len(handled)
                 PROVE  ~Active(On(handled[i]))'
      OBVIOUS
    <3>1. handled[i] # e
      BY <2>4 DEF ReaderInOrder, IsInjective
    <3> QED
      BY <2>2, <2>3, <2>4, <3>1 DEF ReaderInOrder, Active
  <2>6. ReaderInOrder'
    <3>1. /\ Subscribed(handlers)' /\ Subscribed(reader.todo)'
          /\ IsInjective(handled)'
      BY <1>0, <2>2 DEF ReaderInOrder, Subscribed, IsInjective
    <3> QED
      BY <1>0, <2>2, <2>5, <3>1 DEF ReaderInOrder
  <2>7. CollectedInOrder'
    <3>1. \A p \in Prompts : \A f \in collected[p] : f = e => p \in eager
      BY <2>1, <2>2 DEF CollectedInOrder
    <3>2. \A p \in Prompts : \A f \in collected[p] :
            f # e => (Active(On(f))' <=> Active(On(f)))
      BY <2>3, <2>4 DEF Active
    <3> QED
      BY <2>1, <2>2, <3>1, <3>2 DEF CollectedInOrder
  <2> QED
    BY <2>6, <2>7
<1>15. ASSUME Notified PROVE Goal
  <2>1. /\ reader.at = "hook" /\ handled # << >> /\ Over(On(Last(handled)))
        /\ Agent \notin Range(reader.todo)
        /\ reader'.at = "call" /\ reader'.todo = reader.todo
        /\ UNCHANGED <<handled, collected, handlers, prompts, eager, run>>
    BY <1>15 DEF Notified, TypeOK, ReaderInOrder
  <2>2. ~Active(On(Last(handled)))
    BY <2>1, LastFacts DEF Over, Active, BegunOnce
  <2>3. ReaderInOrder'
    BY <2>1, <2>2 DEF ReaderInOrder, Subscribed, IsInjective, Active
  <2>4. CollectedInOrder'
    BY <2>1, <2>2 DEF CollectedInOrder, Active
  <2> QED
    BY <2>3, <2>4
<1>16. ASSUME NEW p \in Prompts, Collect(p) PROVE Goal
  <2>1. /\ reader.at = "call" /\ reader.todo # << >>
        /\ Head(reader.todo) = p /\ p # Agent
        /\ collected' = [collected EXCEPT ![p] = @ \cup {Last(handled)}]
        /\ reader'.at = "call" /\ reader'.todo = Tail(reader.todo)
        /\ UNCHANGED <<handled, handlers, prompts, run>>
    BY <1>16, HooksAssumption DEF Collect, CallsHandler, TypeOK
  <2>10. UNCHANGED eager
    BY <1>16 DEF Collect
  <2>2. reader.todo \in Seq(Prompts \cup {Agent}) /\ Subscribed(reader.todo)
    BY DEF TypeOK, ReaderInOrder
  <2>3. /\ Subscribed(Tail(reader.todo))
        /\ p \notin eager => Agent \notin Range(reader'.todo)
    BY <2>1, <2>2, TailSubscribed
  <2>4. Agent \in Range(reader'.todo) <=> Agent \in Range(reader.todo)
    <3>1. /\ DOMAIN reader.todo = 1..Len(reader.todo)
          /\ DOMAIN reader'.todo = 1..Len(reader'.todo)
          /\ Len(reader.todo) \in Nat
          /\ Len(reader'.todo) = Len(reader.todo) - 1
          /\ \A i \in DOMAIN reader'.todo : reader'.todo[i] = reader.todo[i + 1]
          /\ reader.todo[1] = p
      BY <2>1, <2>2, TailFacts
    <3>2. ASSUME NEW i \in DOMAIN reader.todo, reader.todo[i] = Agent
          PROVE  i - 1 \in DOMAIN reader'.todo /\ reader'.todo[i - 1] = Agent
      <4>1. i # 1
        BY <2>1, <3>1, <3>2
      <4>2. i - 1 \in DOMAIN reader'.todo /\ (i - 1) + 1 = i
        BY <3>1, <4>1
      <4> QED
        BY <3>1, <3>2, <4>2
    <3>3. \A i \in DOMAIN reader'.todo : i + 1 \in DOMAIN reader.todo
      BY <3>1
    <3> QED
      BY <3>1, <3>2, <3>3 DEF Range
  <2>5. /\ handled # << >>
        /\ Agent \in Range(reader.todo) => run[On(Last(handled))] = "none"
        /\ Agent \notin Range(reader.todo) => ~Active(On(Last(handled)))
    BY <2>1 DEF ReaderInOrder
  <2>8. ~Active(On(Last(handled)))
    BY <2>5 DEF Active
  <2>6. ReaderInOrder'
    <3>1. /\ Subscribed(handlers)' /\ Subscribed(reader.todo)'
          /\ IsInjective(handled)'
      BY <1>0, <2>1, <2>3, <2>10 DEF ReaderInOrder, Subscribed, IsInjective
    <3> QED
      BY <1>0, <2>1, <2>4, <2>5, <3>1 DEF ReaderInOrder, Active
  <2>7. CollectedInOrder'
    <3>1. collected \in [Prompts -> SUBSET RpcEvents]
      BY DEF TypeOK
    <3>2. \A q \in Prompts : \A e \in collected'[q] :
            e \in collected[q] \/ (q = p /\ e = Last(handled))
      BY <2>1, <3>1
    <3>3. Last(handled) \in Range(handled)
      BY <2>5, LastFacts
    <3> QED
      BY <2>1, <2>3, <2>4, <2>8, <2>10, <3>2, <3>3 DEF CollectedInOrder, Active
  <2> QED
    BY <2>6, <2>7
<1>17. ASSUME EventDone PROVE Goal
  <2>1. /\ reader.at = "call" /\ reader.todo = << >>
        /\ reader'.at = "read" /\ reader'.todo = reader.todo
        /\ UNCHANGED <<handled, collected, handlers, prompts, eager, run>>
    BY <1>17 DEF EventDone, TypeOK
  <2>2. Agent \notin Range(reader.todo)
    BY <2>1 DEF Range
  <2>3. ReaderInOrder'
    BY <2>1, <2>2 DEF ReaderInOrder, Subscribed, IsInjective, Active
  <2>4. CollectedInOrder'
    BY <2>1 DEF CollectedInOrder, Active
  <2> QED
    BY <2>3, <2>4
<1> QED
  BY <1>4, <1>5, <1>7, <1>8, <1>9, <1>10, <1>11, <1>12, <1>13, <1>14, <1>15,
     <1>16, <1>17
     DEF Next, StartStep, CloseStep, OwnerStep, ReaderStep, EventStep

-----------------------------------------------------------------------------
(* What is promised.                                                       *)

\* The decision hook of an event is begun when its observation hook is over,
\* and that hook is not begun again (agent_class.py:199-231).
DecisionSecond ==
    \A e \in BridgeEvents : run[Decide(e)] # "none" => ~Active(On(e))

LEMMA DecisionStep ==
    ASSUME TypeOK, QueueMatches, BegunOnce, ReaderInOrder, DecisionSecond,
           [Next]_vars
    PROVE  DecisionSecond'
<1> USE DEF callVars, coreVars, rpcVars
<1>0. \A e \in BridgeEvents : On(e) \in Hooks /\ Decide(e) \in Hooks
  BY HookNames DEF Events
<1>1. ASSUME \A h \in Hooks : GoesOn(h) PROVE DecisionSecond'
  BY <1>0, <1>1 DEF DecisionSecond, GoesOn, Active
<1>2. ASSUME \/ StartPi \/ StartStep \/ TakeOperation \/ TakeContinuation
             \/ TakeStop \/ Notified \/ EventDone
             \/ \E k \in Closers : \/ BeginClose(k) \/ Uninstall(k)
                                   \/ Uninstalled(k) \/ CloseSuper(k)
                                   \/ SetClosedAndStop(k) \/ LoopUninstall(k)
                                   \/ LoopCloseEnds(k)
             \/ \E p \in Prompts : \/ Collect(p) \/ BeginPrompt(p)
                                   \/ PromptReturns(p)
             \/ \E e \in RpcEvents : ReadEvent(e)
             \/ \E e \in BridgeEvents : Decided(e)
             \/ UNCHANGED vars
      PROVE  DecisionSecond'
  <2>1. UNCHANGED run
    BY <1>2 DEF StartPi, StartStep, InstallDispatcher, StartEnds, LoopInstall,
       TakeOperation, TakeContinuation, TakeStop, Notified, EventDone,
       BeginClose, Uninstall, Uninstalled, CloseSuper, SetClosedAndStop,
       LoopUninstall, LoopCloseEnds, Collect, BeginPrompt, PromptReturns,
       ReadEvent, Decided, vars
  <2> QED
    BY <1>1, <2>1, HooksGoOn
<1>3. ASSUME \/ TakeHookCall \/ SyncHookEnds
             \/ \E h \in Hooks : AsyncHookEnds(h)
             \/ \E k \in Closers : \/ LoopClosePi(k) \/ ClosePiTimesOut(k)
                                   \/ LoopCloseServer(k)
      PROVE  DecisionSecond'
  BY <1>1, <1>3, HooksGoOn
<1>4. ASSUME NEW h \in Hooks, Begin(h),
             \A e \in BridgeEvents : h = On(e) => run[Decide(e)] = "none",
             \A e \in BridgeEvents : h = Decide(e) => ~Active(On(e))
      PROVE  DecisionSecond'
  <2> SUFFICES ASSUME NEW e \in BridgeEvents, run'[Decide(e)] # "none"
               PROVE  ~Active(On(e))'
    BY DEF DecisionSecond
  <2>1. \A g \in Hooks \ {h} : run'[g] = run[g]
    BY <1>4, BeginFacts
  <2>2. h # On(e)
    <3>1. ASSUME h = On(e) PROVE FALSE
      <4>1. Decide(e) \in Hooks \ {h}
        BY <1>0, <3>1, HookNames
      <4> QED
        BY <1>4, <2>1, <3>1, <4>1
    <3> QED
      BY <3>1
  <2>3. run'[On(e)] = run[On(e)]
    BY <1>0, <2>1, <2>2
  <2>4. ~Active(On(e))
    BY <1>0, <1>4, <2>1 DEF DecisionSecond
  <2> QED
    BY <2>3, <2>4 DEF Active
<1>5. ASSUME Notify PROVE DecisionSecond'
  <2>1. PICK e \in RpcEvents : On(e) \in Hooks /\ Begin(On(e))
    BY <1>5, NotifyFacts
  <2>2. \A f \in BridgeEvents : On(e) # On(f) /\ On(e) # Decide(f)
    BY HooksAssumption, HookNames
  <2> QED
    BY <1>4, <2>1, <2>2
<1>6. ASSUME NEW e \in BridgeEvents, Fire(e) PROVE DecisionSecond'
  <2>1. Begin(On(e)) /\ run[Decide(e)] = "none"
    BY <1>6 DEF Fire, BegunOnce
  <2>2. /\ \A f \in BridgeEvents : On(e) = On(f) => e = f
        /\ \A f \in BridgeEvents : On(e) # Decide(f)
    BY HookNames
  <2> QED
    BY <1>0, <1>4, <2>1, <2>2
<1>7. ASSUME NEW e \in BridgeEvents, Observed(e) PROVE DecisionSecond'
  <2>1. Begin(Decide(e)) \/ UNCHANGED run
    BY <1>7 DEF Observed
  <2>2. ~Active(On(e))
    BY <1>0, <1>7 DEF Observed, Over, Active, BegunOnce
  <2>3. /\ \A f \in BridgeEvents : Decide(e) = Decide(f) => e = f
        /\ \A f \in BridgeEvents : Decide(e) # On(f)
    BY HookNames
  <2> QED
    BY <1>0, <1>1, <1>4, <2>1, <2>2, <2>3, HooksGoOn
<1> QED
  BY <1>2, <1>3, <1>5, <1>6, <1>7
     DEF Next, CloseStep, OwnerStep, ReaderStep, EventStep

\* The orders of the hooks follow.
LEMMA OrdersFollow ==
    TypeOK /\ BegunOnce /\ ReaderInOrder /\ DecisionSecond => InOrder
<1> SUFFICES ASSUME TypeOK, BegunOnce, ReaderInOrder, DecisionSecond
             PROVE  InOrder
  OBVIOUS
<1>1. Len(handled) \in Nat /\ DOMAIN handled = 1..Len(handled)
  BY DEF TypeOK
<1>2. \A i, j \in DOMAIN handled : i < j => i < Len(handled)
  BY <1>1
<1> QED
  BY <1>2 DEF InOrder, DecisionSecond, ReaderInOrder

\* The agent is subscribed between start() and close().
LEMMA SubscriptionFollows ==
    TypeOK /\ UpUntilClose /\ ReaderInOrder => SubscribedWhileUp
<1> SUFFICES ASSUME TypeOK, UpUntilClose, ReaderInOrder
             PROVE  SubscribedWhileUp
  OBVIOUS
<1> QED
  BY DEF UpUntilClose, Succeeds, ReaderInOrder, SubscribedWhileUp

\* The inductive invariant.
IInv == HooksInOrder /\ CollectedInOrder

LEMMA HooksInit == Init => IInv
<1> SUFFICES ASSUME Init PROVE IInv
  OBVIOUS
<1> USE DEF Init
<1>1. TypeOK
  <2>1. /\ start \in {"idle"} /\ attr \in BOOLEAN /\ closed \in BOOLEAN
        /\ corePi \in BOOLEAN /\ client = "none" /\ owner = << >>
        /\ closer \in [Closers -> {"idle"}]
        /\ future \in [Callers -> {"none"}]
        /\ prompts \in [Prompts -> {"idle"}]
        /\ collected \in [Prompts -> SUBSET RpcEvents]
        /\ eager \subseteq Prompts
    OBVIOUS
  <2>2. stage \in [BridgeEvents -> {"new"}] /\ run \in [Hooks -> {"none"}]
    OBVIOUS
  <2>3. /\ commands \in Seq(Items) /\ handlers \in Seq(Prompts \cup {Agent})
        /\ handled \in Seq(RpcEvents)
        /\ reader \in [at : {"read"}, todo : Seq(Prompts \cup {Agent})]
    OBVIOUS
  <2>4. declared \in Classes
    OBVIOUS
  <2> HIDE DEF Init
  <2> QED
    BY <2>1, <2>2, <2>3, <2>4 DEF TypeOK
<1>2. Range(commands) = {} /\ Range(handlers) = {} /\ Range(reader.todo) = {}
  <2>1. commands = << >> /\ handlers = << >> /\ reader.todo = << >>
    OBVIOUS
  <2> QED
    BY <2>1 DEF Range
<1>3. QueueMatches
  <2>1. owner \notin Hooks /\ DOMAIN commands = {}
    BY HookNames
  <2>2. \A k \in Closers : future[k] = "none"
    BY DEF Callers
  <2> HIDE DEF Init
  <2> QED
    BY <1>2, <2>1, <2>2 DEF QueueMatches, ItemsDiffer
<1>4. UpUntilClose
  BY <1>2 DEF UpUntilClose, Installs, Succeeds, Callers
<1>5. BegunOnce
  BY HookNames DEF BegunOnce, Events
<1>6. ReaderInOrder
  BY <1>2 DEF ReaderInOrder, Subscribed, IsInjective
<1>7. CollectedInOrder
  BY DEF CollectedInOrder
<1>8. DecisionSecond
  BY HookNames DEF DecisionSecond
<1> QED
  BY <1>1, <1>3, <1>4, <1>5, <1>6, <1>7, <1>8, OrdersFollow,
     SubscriptionFollows DEF HooksInOrder, IInv

LEMMA HooksStep == IInv /\ [Next]_vars => IInv'
<1> SUFFICES ASSUME IInv, [Next]_vars PROVE IInv'
  OBVIOUS
<1>0. /\ TypeOK /\ QueueMatches /\ UpUntilClose /\ BegunOnce
      /\ ReaderInOrder /\ CollectedInOrder /\ DecisionSecond
  BY DEF HooksInOrder, IInv, InOrder, DecisionSecond
<1>1. TypeOK'
  BY <1>0, TypeStep
<1>2. QueueMatches'
  BY <1>0, QueueStep
<1>3. UpUntilClose'
  BY <1>0, UpStep
<1>4. BegunOnce'
  BY <1>0, BegunStep
<1>5. (ReaderInOrder /\ CollectedInOrder)'
  BY <1>0, ReaderKept
<1>6. DecisionSecond'
  BY <1>0, DecisionStep
<1>7. InOrder'
  BY <1>1, <1>4, <1>5, <1>6, OrdersFollow, PTL
<1>8. SubscribedWhileUp'
  BY <1>1, <1>3, <1>5, SubscriptionFollows, PTL
<1> QED
  BY <1>1, <1>2, <1>3, <1>4, <1>5, <1>7, <1>8 DEF HooksInOrder, IInv

LEMMA AlwaysIInv == Spec => []IInv
<1> QED
  BY HooksInit, HooksStep, PTL DEF Spec

-----------------------------------------------------------------------------
\* The hooks run in the order that AGENT_HOOKS.md states, and the agent stays
\* subscribed: for any class of hooks, any events, prompts and close() calls,
\* with the invariants of the queue and of the reader that it follows from.
THEOREM HooksCorrect == Spec => []HooksInOrder
<1>1. IInv => HooksInOrder
  BY DEF IInv
<1> QED
  BY <1>1, AlwaysIInv, PTL

\* No prompt_and_wait() returns an event whose notification hook still waits
\* or runs, but the last event of one that began before the agent was subscribed
\* (rpc.py:392-411).
THEOREM PromptsSeeHooksEnd == Spec => []HooksBeforePromptReturns
<1>1. IInv => HooksBeforePromptReturns
  BY DEF IInv, CollectedInOrder, HooksBeforePromptReturns
<1> QED
  BY <1>1, AlwaysIInv, PTL
=============================================================================
