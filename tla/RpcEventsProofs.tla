-------------------------- MODULE RpcEventsProofs --------------------------
(***************************************************************************)
(* Proofs about JsonlDecoder and RpcEvents, for any chunks, any number of  *)
(* records, prompts, subscribers and waiters.                              *)
(***************************************************************************)
EXTENDS RpcEvents, SequenceTheorems, FiniteSetTheorems, TLAPS

-----------------------------------------------------------------------------
(* Sequences in ascending order.                                           *)

Increasing(s) == \A i, j \in 1..Len(s) : i < j => s[i] < s[j]

\* An ascending sequence has one element for each of its range, and the rank
\* of an element is its place.
LEMMA IncreasingRanks ==
    ASSUME NEW s \in Seq(Nat), Increasing(s)
    PROVE  /\ IsFiniteSet(Range(s)) /\ Cardinality(Range(s)) = Len(s)
           /\ \A i \in 1..Len(s) :
                Cardinality({y \in Range(s) : y < s[i]}) = i - 1
<1>0. Len(s) \in Nat /\ DOMAIN s = 1..Len(s) /\ \A i \in 1..Len(s) : s[i] \in Nat
  OBVIOUS
<1>1. s \in Bijection(1..Len(s), Range(s))
  <2>1. s \in [1..Len(s) -> Range(s)]
    BY <1>0 DEF Range
  <2>2. \A a, b \in 1..Len(s) : s[a] = s[b] => a = b
    <3> TAKE a, b \in 1..Len(s)
    <3>1. a < b \/ b < a \/ a = b
      BY <1>0
    <3> QED
      BY <3>1, <1>0 DEF Increasing
  <2>3. \A y \in Range(s) : \E a \in 1..Len(s) : s[a] = y
    BY <1>0 DEF Range
  <2> QED
    BY <2>1, <2>2, <2>3 DEF Bijection, Injection, Surjection, IsInjective
<1>2. IsFiniteSet(Range(s)) /\ Cardinality(Range(s)) = Len(s)
  BY <1>0, <1>1, FS_CountingElements, FS_NatBijection DEF ExistsBijection
<1>3. ASSUME NEW i \in 1..Len(s)
      PROVE  Cardinality({y \in Range(s) : y < s[i]}) = i - 1
  <2> DEFINE T == {y \in Range(s) : y < s[i]}
             f == [j \in 1..(i - 1) |-> s[j]]
  <2>1. \A j \in 1..(i - 1) : j \in 1..Len(s) /\ j < i
    BY <1>0
  <2>2. f \in [1..(i - 1) -> T]
    BY <2>1, <1>0 DEF Range, Increasing
  <2>3. \A a, b \in 1..(i - 1) : f[a] = f[b] => a = b
    <3> TAKE a, b \in 1..(i - 1)
    <3>1. f[a] = s[a] /\ f[b] = s[b]
      OBVIOUS
    <3> HIDE DEF f
    <3>2. a < b \/ b < a \/ a = b
      BY <1>0
    <3>3. a \in 1..Len(s) /\ b \in 1..Len(s) /\ s[a] \in Nat /\ s[b] \in Nat
      BY <2>1, <1>0
    <3>4. (a < b => s[a] < s[b]) /\ (b < a => s[b] < s[a])
      BY <3>3 DEF Increasing
    <3> QED
      BY <3>1, <3>2, <3>3, <3>4
  <2>4. ASSUME NEW y \in T PROVE \E a \in 1..(i - 1) : f[a] = y
    <3>1. PICK a \in 1..Len(s) : y = s[a]
      BY <1>0 DEF Range
    <3>2. a < i
      <4>1. a < i \/ a = i \/ i < a
        BY <1>0
      <4>2. s[a] < s[i] /\ s[a] \in Nat /\ s[i] \in Nat
        BY <3>1, <1>0
      <4> QED
        BY <4>1, <4>2 DEF Increasing
    <3>3. a \in 1..(i - 1)
      BY <3>2, <1>0
    <3> QED
      BY <3>1, <3>3
  <2> HIDE DEF f, T
  <2>5. f \in Bijection(1..(i - 1), T)
    BY <2>2, <2>3, <2>4 DEF Bijection, Injection, Surjection, IsInjective
  <2>6. i - 1 \in Nat
    BY <1>0
  <2>7. Cardinality(T) = i - 1
    BY <2>5, <2>6, FS_CountingElements DEF ExistsBijection
  <2> QED
    BY <2>7 DEF T
<1> QED
  BY <1>2, <1>3

\* Ascending(S) is an ascending sequence of the elements of S.
LEMMA AscendingFacts ==
    ASSUME NEW S, S \subseteq Nat, IsFiniteSet(S)
    PROVE  LET s == Ascending(S) IN
           /\ s \in Seq(S) /\ s \in Seq(Nat) /\ Len(s) = Cardinality(S)
           /\ Len(s) \in Nat /\ DOMAIN s = 1..Len(s)
           /\ Range(s) = S /\ Increasing(s)
<1> DEFINE below(x) == {y \in S : y < x}
           rank == [x \in S |-> Cardinality(below(x))]
           n == Cardinality(S)
           s == Ascending(S)
<1>1. n \in Nat
  BY FS_CardinalityType
<1>2. ASSUME NEW x \in S
      PROVE  IsFiniteSet(below(x)) /\ rank[x] \in 0..(n - 1)
  <2>1. below(x) \in SUBSET S /\ below(x) # S
    OBVIOUS
  <2>2. IsFiniteSet(below(x)) /\ Cardinality(below(x)) <= n
        /\ Cardinality(below(x)) # n
    BY <2>1, FS_Subset
  <2>3. Cardinality(below(x)) \in Nat
    BY <2>2, FS_CardinalityType
  <2> HIDE DEF below, n
  <2> QED
    BY <1>1, <2>2, <2>3
<1>3. ASSUME NEW x \in S, NEW y \in S, x < y
      PROVE  rank[x] < rank[y]
  <2>0. x \in Nat /\ y \in Nat
    OBVIOUS
  <2>1. below(x) \in SUBSET below(y) /\ x \in below(y) /\ x \notin below(x)
    <3>1. \A z \in S : z < x => z < y
      BY <1>3, <2>0
    <3>2. ~(x < x)
      BY <2>0
    <3> QED
      BY <1>3, <3>1, <3>2
  <2>2. IsFiniteSet(below(y)) /\ IsFiniteSet(below(x))
    BY <1>2
  <2> HIDE DEF below
  <2>3. below(x) # below(y)
    BY <2>1
  <2>4. Cardinality(below(x)) <= Cardinality(below(y))
        /\ Cardinality(below(x)) # Cardinality(below(y))
    BY <2>1, <2>2, <2>3, FS_Subset
  <2>5. Cardinality(below(x)) \in Nat /\ Cardinality(below(y)) \in Nat
    BY <2>2, FS_CardinalityType
  <2> QED
    BY <2>4, <2>5
<1>4. rank \in [S -> 0..(n - 1)]
  BY <1>2
<1> HIDE DEF rank
<1>5. \A x, y \in S : rank[x] = rank[y] => x = y
  <2> TAKE x, y \in S
  <2>1. x < y \/ y < x \/ x = y
    OBVIOUS
  <2>2. rank[x] \in Nat /\ rank[y] \in Nat
    BY <1>1, <1>4
  <2> QED
    BY <1>3, <2>1, <2>2
<1>6. \A k \in 0..(n - 1) : \E x \in S : rank[x] = k
  <2>1. rank \in Injection(S, 0..(n - 1))
    BY <1>4, <1>5 DEF Injection, IsInjective
  <2> HIDE DEF n
  <2>2. IsFiniteSet(0..(n - 1)) /\ Cardinality(0..(n - 1)) = n
    <3>1. 0 \in Int /\ n - 1 \in Int
      BY <1>1
    <3>2. IsFiniteSet(0..(n - 1))
          /\ Cardinality(0..(n - 1)) = IF 0 > n - 1 THEN 0 ELSE n - 1 - 0 + 1
      BY <3>1, FS_Interval
    <3> QED
      BY <1>1, <3>2
  <2>3. rank \in Surjection(S, 0..(n - 1))
    BY <2>1, <2>2, FS_Injection DEF n
  <2> QED
    BY <2>3 DEF Surjection
<1>7. s = [i \in 1..n |-> CHOOSE x \in S : Cardinality(below(x)) = i - 1]
  BY DEF Ascending
<1> HIDE DEF s, n, below
<1>8. ASSUME NEW i \in 1..n
      PROVE  s[i] \in S /\ rank[s[i]] = i - 1
  <2>1. i - 1 \in 0..(n - 1)
    BY <1>1
  <2>2. PICK x \in S : rank[x] = i - 1
    BY <1>6, <2>1
  <2>3. \A z \in S : rank[z] = Cardinality(below(z))
    BY DEF rank
  <2>4. s[i] = CHOOSE z \in S : Cardinality(below(z)) = i - 1
    BY <1>7
  <2>5. Cardinality(below(x)) = i - 1
    BY <2>2, <2>3
  <2>6. s[i] \in S /\ Cardinality(below(s[i])) = i - 1
    BY <2>4, <2>5
  <2> QED
    BY <2>3, <2>6
<1>9. /\ s \in Seq(S) /\ s \in Seq(Nat) /\ Len(s) = n /\ DOMAIN s = 1..n
  <2>1. s \in [1..n -> S]
    BY <1>7, <1>8
  <2>2. s \in [1..n -> Nat]
    BY <2>1
  <2>3. s \in Seq(S) /\ s \in Seq(Nat)
    BY <1>1, <2>1, <2>2
  <2> QED
    BY <1>1, <2>2, <2>3
<1>10. Increasing(s)
  <2> SUFFICES ASSUME NEW i \in 1..n, NEW j \in 1..n, i < j
               PROVE  s[i] < s[j]
    BY <1>9 DEF Increasing
  <2>1. s[i] \in S /\ s[j] \in S /\ rank[s[i]] < rank[s[j]]
        /\ rank[s[i]] \in Nat /\ rank[s[j]] \in Nat
    BY <1>1, <1>8
  <2>2. s[i] \in Nat /\ s[j] \in Nat
    BY <2>1
  <2>3. s[j] < s[i] => rank[s[j]] < rank[s[i]]
    BY <1>3, <2>1
  <2> QED
    BY <2>1, <2>2, <2>3
<1>11. Range(s) = S
  <2>1. \A x \in S : \E i \in 1..n : s[i] = x
    <3> TAKE x \in S
    <3>1. rank[x] \in 0..(n - 1)
      BY <1>4
    <3>2. rank[x] + 1 \in 1..n /\ (rank[x] + 1) - 1 = rank[x]
      BY <1>1, <3>1
    <3> QED
      BY <1>5, <1>8, <3>2
  <2>2. Range(s) = {s[i] : i \in 1..n}
    BY <1>9 DEF Range
  <2>3. \A i \in 1..n : s[i] \in S
    BY <1>8
  <2> HIDE DEF rank
  <2>4. S \subseteq {s[i] : i \in 1..n}
    BY ONLY <2>1
  <2>5. {s[i] : i \in 1..n} \subseteq S
    BY ONLY <2>3
  <2> QED
    BY <2>2, <2>4, <2>5
<1> QED
  BY <1>1, <1>9, <1>10, <1>11 DEF s, n

\* ... and there is no other.
LEMMA AscendingUnique ==
    ASSUME NEW s \in Seq(Nat), Increasing(s)
    PROVE  Ascending(Range(s)) = s
<1> DEFINE S == Range(s)
           t == Ascending(S)
<1>1. IsFiniteSet(S) /\ Cardinality(S) = Len(s) /\ S \subseteq Nat
  BY IncreasingRanks, RangeOfSeq
<1>0. Len(s) \in Nat /\ DOMAIN s = 1..Len(s)
  OBVIOUS
<1>2. \A i \in 1..Len(s) : s[i] \in S /\ Cardinality({y \in S : y < s[i]}) = i - 1
  <2> TAKE i \in 1..Len(s)
  <2>1. s[i] \in S
    BY <1>0 DEF Range
  <2> QED
    BY <2>1, IncreasingRanks
<1> HIDE DEF S
<1>3. t \in Seq(Nat) /\ Len(t) = Len(s) /\ Range(t) = S /\ Increasing(t)
      /\ DOMAIN t = 1..Len(s)
  BY <1>1, AscendingFacts
<1> HIDE DEF t
<1>4. \A i \in 1..Len(t) : t[i] \in S /\ Cardinality({y \in S : y < t[i]}) = i - 1
  <2> TAKE i \in 1..Len(t)
  <2>1. t[i] \in S
    BY <1>3 DEF Range
  <2>2. Cardinality({y \in Range(t) : y < t[i]}) = i - 1
    BY <1>3, IncreasingRanks
  <2> QED
    BY <1>3, <2>1, <2>2
<1>5. \A i \in 1..Len(s) : \E j \in 1..Len(s) : s[i] = t[j]
  <2> TAKE i \in 1..Len(s)
  <2>1. s[i] \in Range(t) /\ DOMAIN t = 1..Len(s)
    BY <1>2, <1>3
  <2>2. \E j \in DOMAIN t : s[i] = t[j]
    BY <2>1 DEF Range
  <2> QED
    BY <2>1, <2>2
<1>6. ASSUME NEW i \in 1..Len(s) PROVE s[i] = t[i]
  <2>1. PICK j \in 1..Len(s) : s[i] = t[j]
    BY <1>5
  <2>2. i - 1 = j - 1
    BY <1>2, <1>3, <1>4, <2>1
  <2>3. i = j
    BY <2>2
  <2> QED
    BY <2>1, <2>3
<1> QED
  BY <1>3, <1>6, SeqEqual DEF t, S

\* No number and one number.
LEMMA AscendingSmall ==
    /\ Ascending({}) = << >>
    /\ \A n \in Nat : Ascending({n}) = <<n>>
<1>1. Ascending({}) = << >>
  <2>1. << >> \in Seq(Nat) /\ Increasing(<< >>) /\ Range(<< >>) = {}
    BY DEF Increasing, Range
  <2> QED
    BY <2>1, AscendingUnique
<1>2. ASSUME NEW n \in Nat PROVE Ascending({n}) = <<n>>
  <2>1. <<n>> \in Seq(Nat) /\ Len(<<n>>) = 1 /\ <<n>>[1] = n
        /\ DOMAIN <<n>> = 1..1
    OBVIOUS
  <2>2. Increasing(<<n>>)
    BY <2>1 DEF Increasing
  <2>3. Range(<<n>>) = {n}
    BY <2>1 DEF Range
  <2> QED
    BY <2>1, <2>2, <2>3, AscendingUnique
<1> QED
  BY <1>1, <1>2

\* What is smaller comes first.
LEMMA AscendingConcat ==
    ASSUME NEW S, S \subseteq Nat, IsFiniteSet(S),
           NEW T, T \subseteq Nat, IsFiniteSet(T),
           \A x \in S, y \in T : x < y
    PROVE  Ascending(S \cup T) = Ascending(S) \o Ascending(T)
<1> DEFINE s == Ascending(S)
           t == Ascending(T)
           r == s \o t
<1>1. /\ s \in Seq(Nat) /\ Len(s) \in Nat /\ DOMAIN s = 1..Len(s)
      /\ Range(s) = S /\ Increasing(s)
  BY AscendingFacts
<1>2. /\ t \in Seq(Nat) /\ Len(t) \in Nat /\ DOMAIN t = 1..Len(t)
      /\ Range(t) = T /\ Increasing(t)
  BY AscendingFacts
<1> HIDE DEF s, t, r
<1>3. /\ r \in Seq(Nat) /\ Len(r) = Len(s) + Len(t)
      /\ \A i \in 1..Len(r) : r[i] = IF i <= Len(s) THEN s[i] ELSE t[i - Len(s)]
  BY <1>1, <1>2, ConcatProperties DEF r
<1>4. Range(r) = S \cup T
  BY <1>1, <1>2, RangeConcatenation DEF r
<1>5. Increasing(r)
  <2> SUFFICES ASSUME NEW i \in 1..Len(r), NEW j \in 1..Len(r), i < j
               PROVE  r[i] < r[j]
    BY DEF Increasing
  <2>1. CASE j <= Len(s)
    <3>1. i \in 1..Len(s) /\ j \in 1..Len(s) /\ r[i] = s[i] /\ r[j] = s[j]
      BY <1>1, <1>3, <2>1
    <3> QED
      BY <1>1, <3>1 DEF Increasing
  <2>2. CASE i <= Len(s) /\ j > Len(s)
    <3>1. i \in 1..Len(s) /\ j - Len(s) \in 1..Len(t)
          /\ r[i] = s[i] /\ r[j] = t[j - Len(s)]
      BY <1>1, <1>2, <1>3, <2>2
    <3>2. s[i] \in S /\ t[j - Len(s)] \in T
      BY <1>1, <1>2, <3>1 DEF Range
    <3> QED
      BY <3>1, <3>2
  <2>3. CASE i > Len(s)
    <3>1. /\ i - Len(s) \in 1..Len(t) /\ j - Len(s) \in 1..Len(t)
          /\ i - Len(s) < j - Len(s)
          /\ r[i] = t[i - Len(s)] /\ r[j] = t[j - Len(s)]
      BY <1>1, <1>2, <1>3, <2>3
    <3> QED
      BY <1>2, <3>1 DEF Increasing
  <2> QED
    BY <1>1, <1>3, <2>1, <2>2, <2>3
<1>6. Ascending(S \cup T) = r
  BY <1>3, <1>4, <1>5, AscendingUnique
<1> QED
  BY <1>6 DEF r, s, t

\* A number that is larger than the rest comes last.
LEMMA AscendingAppend ==
    ASSUME NEW S, S \subseteq Nat, IsFiniteSet(S),
           NEW n \in Nat, \A x \in S : x < n
    PROVE  Ascending(S \cup {n}) = Append(Ascending(S), n)
<1>1. IsFiniteSet({n}) /\ {n} \subseteq Nat
  BY FS_Singleton
<1>2. Ascending(S \cup {n}) = Ascending(S) \o Ascending({n})
  BY <1>1, AscendingConcat
<1>3. Ascending(S) \in Seq(Nat)
  BY AscendingFacts
<1> QED
  BY <1>2, <1>3, AscendingSmall, AppendIsConcat

\* The places of what follows k bytes are those of it alone, moved by k.
LEMMA AscendingShift ==
    ASSUME NEW S, S \subseteq Nat, IsFiniteSet(S), NEW k \in Nat
    PROVE  LET s == Ascending(S)
               t == Ascending({k + x : x \in S})
           IN  /\ t \in Seq(Nat) /\ Len(t) = Len(s)
               /\ \A i \in 1..Len(s) : t[i] = k + s[i]
<1> DEFINE s == Ascending(S)
           t == [i \in 1..Len(s) |-> k + s[i]]
<1>1. /\ s \in Seq(Nat) /\ Len(s) \in Nat /\ DOMAIN s = 1..Len(s)
      /\ Range(s) = S /\ Increasing(s) /\ \A i \in 1..Len(s) : s[i] \in Nat
  BY AscendingFacts, ElementOfSeq
<1> HIDE DEF s
<1>2. /\ t \in Seq(Nat) /\ Len(t) = Len(s) /\ DOMAIN t = 1..Len(s)
      /\ \A i \in 1..Len(s) : t[i] = k + s[i]
  <2>1. t \in [1..Len(s) -> Nat]
    BY <1>1
  <2> QED
    BY <1>1, <2>1
<1> HIDE DEF t
<1>3. Increasing(t)
  <2> SUFFICES ASSUME NEW i \in 1..Len(s), NEW j \in 1..Len(s), i < j
               PROVE  t[i] < t[j]
    BY <1>2 DEF Increasing
  <2>1. s[i] < s[j] /\ s[i] \in Nat /\ s[j] \in Nat
    BY <1>1 DEF Increasing
  <2> QED
    BY <1>2, <2>1
<1>4. Range(t) = {k + x : x \in S}
  <2>1. \A x \in S : \E i \in 1..Len(s) : x = s[i]
    BY <1>1 DEF Range
  <2>2. \A i \in 1..Len(s) : s[i] \in S
    BY <1>1 DEF Range
  <2>3. \A x \in S : k + x \in Range(t)
    BY <1>2, <2>1 DEF Range
  <2>4. \A y \in Range(t) : \E x \in S : y = k + x
    BY <1>2, <2>2 DEF Range
  <2> QED
    BY <2>3, <2>4
<1>5. Ascending(Range(t)) = t
  BY <1>2, <1>3, AscendingUnique
<1> QED
  BY <1>2, <1>4, <1>5 DEF s

\* The part of an ascending sequence that another one follows is ascending.
LEMMA IncreasingPrefix ==
    ASSUME NEW s \in Seq(Nat), NEW t \in Seq(Nat), Increasing(s \o t)
    PROVE  /\ Increasing(s)
           /\ \A x \in Range(s), y \in Range(t) : x < y
<1> DEFINE r == s \o t
<1>1. /\ Len(s) \in Nat /\ DOMAIN s = 1..Len(s)
      /\ Len(t) \in Nat /\ DOMAIN t = 1..Len(t)
  OBVIOUS
<1>2. /\ Len(r) = Len(s) + Len(t)
      /\ \A i \in 1..Len(r) : r[i] = IF i <= Len(s) THEN s[i] ELSE t[i - Len(s)]
  BY ConcatProperties
<1>3. Increasing(r)
  OBVIOUS
<1> HIDE DEF r
<1>4. ASSUME NEW i \in 1..Len(s), NEW j \in 1..Len(s), i < j
      PROVE  s[i] < s[j]
  <2>1. i \in 1..Len(r) /\ j \in 1..Len(r) /\ r[i] = s[i] /\ r[j] = s[j]
    BY <1>1, <1>2
  <2>2. r[i] < r[j]
    BY <1>3, <1>4, <2>1 DEF Increasing
  <2> QED
    BY <2>1, <2>2
<1>5. ASSUME NEW i \in 1..Len(s), NEW j \in 1..Len(t)
      PROVE  s[i] < t[j]
  <2>1. /\ i \in 1..Len(r) /\ Len(s) + j \in 1..Len(r) /\ i < Len(s) + j
        /\ r[i] = s[i]
    BY <1>1, <1>2
  <2>2. ~(Len(s) + j <= Len(s)) /\ (Len(s) + j) - Len(s) = j
    BY <1>1
  <2>3. r[Len(s) + j] = t[j]
    BY <1>2, <2>1, <2>2
  <2>4. r[i] < r[Len(s) + j]
    BY <1>3, <2>1 DEF Increasing
  <2> QED
    BY <2>1, <2>3, <2>4
<1> QED
  BY <1>1, <1>4, <1>5 DEF Increasing, Range

-----------------------------------------------------------------------------
(* The decoder.                                                            *)

\* The one number that is in a set and above all of it is its maximum.
LEMMA MaxIs ==
    ASSUME NEW S, S \subseteq Nat, NEW m \in S, \A y \in S : y <= m
    PROVE  Max(S) = m
<1>1. \A x \in S : (\A y \in S : y <= x) => x = m
  <2> TAKE x \in S
  <2>1. x \in Nat /\ m \in Nat
    OBVIOUS
  <2> QED
    BY <2>1
<1> QED
  BY <1>1 DEF Max

\* A finite set with a member has a maximum.
LEMMA MaxFacts ==
    ASSUME NEW S, S \subseteq Nat, IsFiniteSet(S), S # {}
    PROVE  Max(S) \in S /\ Max(S) \in Nat /\ \A y \in S : y <= Max(S)
<1> DEFINE s == Ascending(S)
<1>1. /\ s \in Seq(Nat) /\ Len(s) \in Nat /\ DOMAIN s = 1..Len(s)
      /\ Range(s) = S /\ Increasing(s)
  BY AscendingFacts
<1> HIDE DEF s
<1>2. Len(s) \in 1..Len(s)
  BY <1>1 DEF Range
<1>3. s[Len(s)] \in S
  BY <1>1, <1>2 DEF Range
<1>4. ASSUME NEW y \in S PROVE y <= s[Len(s)]
  <2>0. y \in Range(s)
    BY <1>1
  <2>1. PICK i \in 1..Len(s) : y = s[i]
    BY <2>0, <1>1 DEF Range
  <2>2. i = Len(s) \/ i < Len(s)
    <3>1. Len(s) \in Nat
      BY <1>1
    <3> QED
      BY <3>1
  <2>3. i < Len(s) => s[i] < s[Len(s)]
    BY <1>1, <1>2 DEF Increasing
  <2>4. s[Len(s)] \in Nat /\ y \in Nat
    BY <1>3
  <2> QED
    BY <2>1, <2>2, <2>3, <2>4
<1> QED
  BY <1>3, <1>4, MaxIs

\* Where the line before position i starts.
LineStarts(bytes, i) == {0} \cup {j \in LineEnds(bytes) : j < i}

\* A line is the bytes between the last LF before it, or the start, and its end.
LEMMA LineFacts ==
    ASSUME NEW bytes \in Seq(Bytes)
    PROVE  /\ LineEnds(bytes) = {i \in 1..Len(bytes) : bytes[i] = LF}
           /\ LineEnds(bytes) \subseteq Nat /\ IsFiniteSet(LineEnds(bytes))
           /\ \A i \in 1..(Len(bytes) + 1) :
                LET m == Max(LineStarts(bytes, i)) IN
                /\ m \in LineStarts(bytes, i) /\ m \in 0..(i - 1)
                /\ \A j \in LineStarts(bytes, i) : j <= m
                /\ Line(bytes, i) = SubSeq(bytes, m + 1, i - 1)
                /\ Line(bytes, i) \in Seq(Bytes)
                /\ Len(Line(bytes, i)) = i - 1 - m
                /\ \A k \in 1..(i - 1 - m) : Line(bytes, i)[k] = bytes[m + k]
<1>1. LineEnds(bytes) = {i \in 1..Len(bytes) : bytes[i] = LF}
  BY DEF LineEnds
<1>2. Len(bytes) \in Nat /\ LineEnds(bytes) \subseteq 1..Len(bytes)
  BY <1>1
<1>3. LineEnds(bytes) \subseteq Nat /\ IsFiniteSet(LineEnds(bytes))
  <2>1. IsFiniteSet(1..Len(bytes))
    BY <1>2, FS_Interval
  <2> QED
    BY <1>2, <2>1, FS_Subset
<1>4. ASSUME NEW i \in 1..(Len(bytes) + 1)
      PROVE  LET m == Max(LineStarts(bytes, i)) IN
             /\ m \in LineStarts(bytes, i) /\ m \in 0..(i - 1)
             /\ \A j \in LineStarts(bytes, i) : j <= m
             /\ Line(bytes, i) = SubSeq(bytes, m + 1, i - 1)
             /\ Line(bytes, i) \in Seq(Bytes)
             /\ Len(Line(bytes, i)) = i - 1 - m
             /\ \A k \in 1..(i - 1 - m) : Line(bytes, i)[k] = bytes[m + k]
  <2> DEFINE S == LineStarts(bytes, i)
             m == Max(S)
  <2>1. S \subseteq 0..(i - 1) /\ S # {}
    BY <1>2 DEF LineStarts
  <2>2. S \subseteq Nat /\ IsFiniteSet(S)
    <3>1. IsFiniteSet(0..(i - 1))
      BY <1>2, FS_Interval
    <3>2. 0..(i - 1) \subseteq Nat
      BY <1>2
    <3> QED
      BY <2>1, <3>1, <3>2, FS_Subset
  <2>4. Line(bytes, i) = SubSeq(bytes, m + 1, i - 1)
    BY DEF Line, LineStarts
  <2> HIDE DEF S
  <2>3. m \in S /\ m \in Nat /\ \A j \in S : j <= m
    BY <2>1, <2>2, MaxFacts
  <2>8. m \in 0..(i - 1)
    BY <2>1, <2>3
  <2> HIDE DEF m
  <2>5. m + 1 \in Int /\ i - 1 \in Int
    BY <1>2, <2>3
  <2>6. \A j \in (m + 1)..(i - 1) : bytes[j] \in Bytes
    <3> TAKE j \in (m + 1)..(i - 1)
    <3>1. j \in 1..Len(bytes)
      BY <1>2, <2>3, <2>5
    <3> QED
      BY <3>1, ElementOfSeq
  <2>7. PICK a \in Int, b \in Int : a = m + 1 /\ b = i - 1
    BY <2>5
  <2>9. /\ SubSeq(bytes, a, b) \in Seq(Bytes)
        /\ Len(SubSeq(bytes, a, b)) = IF a <= b THEN b - a + 1 ELSE 0
        /\ \A k \in 1..(b - a + 1) : SubSeq(bytes, a, b)[k] = bytes[a + k - 1]
    BY <2>6, <2>7, SubSeqProperties
  <2>10. (IF a <= b THEN b - a + 1 ELSE 0) = i - 1 - m /\ b - a + 1 = i - 1 - m
    BY <2>7, <2>8, <1>2
  <2>11. \A k \in 1..(i - 1 - m) : a + k - 1 = m + k
    BY <2>7, <2>8, <1>2
  <2>12. Line(bytes, i) \in Seq(Bytes) /\ Len(Line(bytes, i)) = i - 1 - m
    BY <2>4, <2>7, <2>9, <2>10
  <2>13. \A k \in 1..(i - 1 - m) : Line(bytes, i)[k] = bytes[m + k]
    BY <2>4, <2>7, <2>9, <2>10, <2>11
  <2> QED
    BY <2>3, <2>4, <2>8, <2>12, <2>13 DEF m, S
<1> QED
  BY <1>1, <1>3, <1>4

\* What a line is made of: the number of a record is the one of its bytes.
LEMMA RecordFacts ==
    ASSUME NEW raw \in Seq(Bytes), IsRecord(StripCR(raw))
    PROVE  raw[1][1] \in Numbers
<1> DEFINE s == StripCR(raw)
<1>0. Len(raw) \in Nat /\ DOMAIN raw = 1..Len(raw)
      /\ \A i \in 1..Len(raw) : raw[i] \in Bytes
  BY ElementOfSeq
<1>1. s \in Seq(Bytes) /\ (s # << >> => s[1] = raw[1])
  <2>1. CASE raw # << >> /\ Last(raw) = CR
    <3>1. s = SubSeq(raw, 1, Len(raw) - 1)
      BY <2>1 DEF StripCR, Front
    <3>2. /\ s \in Seq(Bytes)
          /\ Len(s) = IF 1 <= Len(raw) - 1 THEN Len(raw) - 1 - 1 + 1 ELSE 0
          /\ \A i \in 1..(Len(raw) - 1 - 1 + 1) : s[i] = raw[1 + i - 1]
      <4>0. Len(raw) \in Nat
        BY <1>0
      <4>1. PICK n \in Int : n = Len(raw) - 1
        BY <4>0
      <4>2. \A i \in 1..n : raw[i] \in Bytes
        BY <1>0, <4>1
      <4> QED
        BY <3>1, <4>1, <4>2, SubSeqProperties
    <3> HIDE DEF s
    <3>3. s # << >> => Len(s) \in Nat \ {0}
      BY <3>2, EmptySeq
    <3>4. s # << >> => 1 \in 1..(Len(raw) - 1 - 1 + 1) /\ 1 + 1 - 1 = 1
      <4>1. Len(raw) \in Nat
            /\ Len(s) = IF 1 <= Len(raw) - 1 THEN Len(raw) - 1 - 1 + 1 ELSE 0
        BY <1>0, <3>2
      <4> QED
        BY <3>3, <4>1
    <3> QED
      BY <3>2, <3>4
  <2>2. CASE ~(raw # << >> /\ Last(raw) = CR)
    BY <2>2 DEF StripCR
  <2> QED
    BY <2>1, <2>2
<1>2. PICK b \in Range(s) \ {LF, CR} : s = <<<<b[1], 1>>, <<b[1], 2>>>>
  BY DEF IsRecord
<1> HIDE DEF s
<1>3. b \in Numbers \X {1, 2}
  <2>1. Range(s) \subseteq Bytes
    BY <1>1, RangeOfSeq
  <2> QED
    BY <1>2, <2>1 DEF Bytes
<1>4. s # << >> /\ s[1][1] = b[1]
  BY <1>2
<1> QED
  BY <1>1, <1>3, <1>4

\* Decoded is a sequence of numbers of records, one for each line that is one.
LEMMA DecodedFacts ==
    ASSUME NEW bytes \in Seq(Bytes)
    PROVE  LET ends == Ascending(RecordEnds(bytes))
               d    == Decoded(bytes)
           IN  /\ RecordEnds(bytes) \subseteq 1..Len(bytes)
               /\ RecordEnds(bytes) \subseteq Nat
               /\ IsFiniteSet(RecordEnds(bytes))
               /\ d \in Seq(Numbers) /\ Len(d) = Len(ends) /\ Len(d) \in Nat
               /\ \A k \in 1..Len(d) : /\ ends[k] \in RecordEnds(bytes)
                                       /\ d[k] = Line(bytes, ends[k])[1][1]
<1> DEFINE ends == Ascending(RecordEnds(bytes))
           d    == Decoded(bytes)
<1>1. RecordEnds(bytes) \subseteq 1..Len(bytes)
      /\ RecordEnds(bytes) \subseteq LineEnds(bytes)
  BY LineFacts DEF RecordEnds
<1>2. RecordEnds(bytes) \subseteq Nat /\ IsFiniteSet(RecordEnds(bytes))
  BY <1>1, LineFacts, FS_Subset
<1>3. /\ Len(ends) \in Nat /\ DOMAIN ends = 1..Len(ends)
      /\ ends \in Seq(RecordEnds(bytes))
  BY <1>2, AscendingFacts
<1>4. d = [k \in DOMAIN ends |-> Line(bytes, ends[k])[1][1]]
  BY DEF Decoded
<1> HIDE DEF ends, d
<1>5. ASSUME NEW k \in 1..Len(ends)
      PROVE  /\ ends[k] \in RecordEnds(bytes)
             /\ Line(bytes, ends[k])[1][1] \in Numbers
  <2>1. ends[k] \in RecordEnds(bytes)
    BY <1>3, ElementOfSeq
  <2>2. IsRecord(StripCR(Line(bytes, ends[k])))
    BY <2>1 DEF RecordEnds
  <2>3. Line(bytes, ends[k]) \in Seq(Bytes)
    <3>1. ends[k] \in 1..(Len(bytes) + 1)
      <4>1. Len(bytes) \in Nat
        OBVIOUS
      <4> QED
        BY <1>1, <2>1, <4>1
    <3> QED
      BY <3>1, LineFacts
  <2> QED
    BY <2>1, <2>2, <2>3, RecordFacts
<1>6. d \in [1..Len(ends) -> Numbers]
  BY <1>3, <1>4, <1>5
<1>7. d \in Seq(Numbers) /\ Len(d) = Len(ends)
  BY <1>3, <1>6
<1>8. \A k \in 1..Len(d) : /\ ends[k] \in RecordEnds(bytes)
                           /\ d[k] = Line(bytes, ends[k])[1][1]
  BY <1>3, <1>4, <1>5, <1>7
<1> QED
  BY <1>1, <1>2, <1>3, <1>7, <1>8 DEF ends, d

\* Bytes that end with a line.
Whole(bytes) == bytes # << >> => bytes[Len(bytes)] = LF

\* The lines of whole lines are not touched by what follows them, and do not
\* touch it.
LEMMA ConcatLines ==
    ASSUME NEW p \in Seq(Bytes), NEW q \in Seq(Bytes), Whole(p)
    PROVE  LET r == p \o q IN
           /\ r \in Seq(Bytes) /\ Len(r) = Len(p) + Len(q)
           /\ LineEnds(r) = LineEnds(p) \cup {Len(p) + j : j \in LineEnds(q)}
           /\ \A i \in 1..Len(p) : Line(r, i) = Line(p, i)
           /\ \A i \in 1..(Len(q) + 1) : Line(r, Len(p) + i) = Line(q, i)
<1> DEFINE r == p \o q
<1>1. Len(p) \in Nat /\ Len(q) \in Nat
  OBVIOUS
<1>2. /\ r \in Seq(Bytes) /\ Len(r) = Len(p) + Len(q)
      /\ \A i \in 1..(Len(p) + Len(q)) :
           r[i] = IF i <= Len(p) THEN p[i] ELSE q[i - Len(p)]
  BY ConcatProperties
<1> HIDE DEF r
<1>3. LineEnds(p) = {i \in 1..Len(p) : p[i] = LF}
      /\ LineEnds(q) = {i \in 1..Len(q) : q[i] = LF}
      /\ LineEnds(r) = {i \in 1..Len(r) : r[i] = LF}
  BY <1>2, LineFacts
<1>4. /\ \A i \in 1..Len(p) : r[i] = p[i]
      /\ \A i \in 1..Len(q) : r[Len(p) + i] = q[i]
  <2>1. ASSUME NEW i \in 1..Len(p) PROVE r[i] = p[i]
    BY <1>1, <1>2
  <2>2. ASSUME NEW i \in 1..Len(q) PROVE r[Len(p) + i] = q[i]
    <3>1. Len(p) + i \in 1..(Len(p) + Len(q)) /\ ~(Len(p) + i <= Len(p))
          /\ (Len(p) + i) - Len(p) = i
      BY <1>1
    <3> QED
      BY <1>2, <3>1
  <2> QED
    BY <2>1, <2>2
<1>5. LineEnds(r) = LineEnds(p) \cup {Len(p) + j : j \in LineEnds(q)}
  <2>1. ASSUME NEW i \in LineEnds(r)
        PROVE  i \in LineEnds(p) \cup {Len(p) + j : j \in LineEnds(q)}
    <3>1. i \in 1..(Len(p) + Len(q)) /\ r[i] = LF
      BY <1>2, <1>3
    <3>2. CASE i <= Len(p)
      BY <1>1, <1>3, <1>4, <3>1, <3>2
    <3>3. CASE i > Len(p)
      <4>1. i - Len(p) \in 1..Len(q) /\ Len(p) + (i - Len(p)) = i
        BY <1>1, <3>1, <3>3
      <4>2. i - Len(p) \in LineEnds(q)
        BY <1>3, <1>4, <3>1, <4>1
      <4> QED
        BY <4>1, <4>2
    <3> QED
      BY <1>1, <3>1, <3>2, <3>3
  <2>2. ASSUME NEW i \in LineEnds(p) PROVE i \in LineEnds(r)
    <3>1. i \in 1..Len(p) /\ p[i] = LF /\ i \in 1..Len(r)
      BY <1>1, <1>2, <1>3
    <3> QED
      BY <1>3, <1>4, <3>1
  <2>3. ASSUME NEW j \in LineEnds(q) PROVE Len(p) + j \in LineEnds(r)
    <3>1. j \in 1..Len(q) /\ q[j] = LF /\ Len(p) + j \in 1..Len(r)
      BY <1>1, <1>2, <1>3
    <3> QED
      BY <1>3, <1>4, <3>1
  <2> QED
    BY <2>1, <2>2, <2>3
<1>6. ASSUME NEW i \in 1..Len(p) PROVE Line(r, i) = Line(p, i)
  <2>1. LineStarts(r, i) = LineStarts(p, i)
    <3>1. \A j \in LineEnds(q) : ~(Len(p) + j < i)
      BY <1>1, <1>3
    <3> QED
      BY <1>5, <3>1 DEF LineStarts
  <2>2. i \in 1..(Len(p) + 1) /\ i \in 1..(Len(r) + 1)
    BY <1>1, <1>2
  <2> DEFINE m == Max(LineStarts(p, i))
             a == Line(p, i)
             b == Line(r, i)
  <2>3. /\ m \in 0..(i - 1) /\ a \in Seq(Bytes) /\ Len(a) = i - 1 - m
        /\ \A k \in 1..(i - 1 - m) : a[k] = p[m + k]
    BY <2>2, LineFacts
  <2>4. /\ b \in Seq(Bytes) /\ Len(b) = i - 1 - m
        /\ \A k \in 1..(i - 1 - m) : b[k] = r[m + k]
    BY <1>2, <2>1, <2>2, LineFacts
  <2> HIDE DEF a, b, m
  <2>5. \A k \in 1..(i - 1 - m) : m + k \in 1..Len(p)
    BY <1>1, <2>3
  <2>6. \A k \in 1..Len(a) : a[k] = b[k]
    BY <1>4, <2>3, <2>4, <2>5
  <2> QED
    BY <2>3, <2>4, <2>6, SeqEqual DEF a, b
<1>7. ASSUME NEW i \in 1..(Len(q) + 1)
      PROVE  Line(r, Len(p) + i) = Line(q, i)
  <2> DEFINE n == Len(p) + i
             S == LineStarts(q, i)
             R == LineStarts(r, n)
             m == Max(S)
  <2>1. n \in 1..(Len(r) + 1)
    BY <1>1, <1>2
  <2>2. /\ m \in S /\ m \in 0..(i - 1) /\ \A j \in S : j <= m
        /\ Line(q, i) \in Seq(Bytes) /\ Len(Line(q, i)) = i - 1 - m
        /\ \A k \in 1..(i - 1 - m) : Line(q, i)[k] = q[m + k]
    BY LineFacts
  <2>3. /\ Max(R) \in R /\ Max(R) \in Nat /\ \A j \in R : j <= Max(R)
        /\ Line(r, n) \in Seq(Bytes) /\ Len(Line(r, n)) = n - 1 - Max(R)
        /\ \A k \in 1..(n - 1 - Max(R)) : Line(r, n)[k] = r[Max(R) + k]
    <3> HIDE DEF n
    <3>1. /\ Max(R) \in R /\ Max(R) \in 0..(n - 1) /\ \A j \in R : j <= Max(R)
          /\ Line(r, n) \in Seq(Bytes) /\ Len(Line(r, n)) = n - 1 - Max(R)
          /\ \A k \in 1..(n - 1 - Max(R)) : Line(r, n)[k] = r[Max(R) + k]
      BY <1>2, <2>1, LineFacts
    <3>2. Max(R) \in Nat
      BY <3>1
    <3> QED
      BY <3>1, <3>2
  <2> HIDE DEF m
  <2>4. Len(p) + m \in R
    <3>1. CASE m = 0
      <4>1. Len(p) = 0 \/ Len(p) \in LineEnds(p)
        BY <1>1, <1>3, EmptySeq DEF Whole
      <4>2. Len(p) < n /\ Len(p) + m = Len(p)
        BY <1>1, <3>1
      <4> QED
        BY <1>5, <4>1, <4>2 DEF LineStarts
    <3>2. CASE m # 0
      <4>1. m \in LineEnds(q) /\ m < i
        BY <2>2, <3>2 DEF LineStarts
      <4>2. Len(p) + m < n
        BY <1>1, <2>2, <4>1
      <4> QED
        BY <1>5, <4>1, <4>2 DEF LineStarts
    <3> QED
      BY <3>1, <3>2
  <2>5. ASSUME NEW x \in R PROVE x <= Len(p) + m
    <3>1. CASE x = 0
      BY <1>1, <2>2, <3>1
    <3>2. CASE x \in LineEnds(p)
      BY <1>1, <1>3, <2>2, <3>2
    <3>3. ASSUME NEW j \in LineEnds(q), x = Len(p) + j, x < n
          PROVE  x <= Len(p) + m
      <4>1. j \in Nat /\ j < i
        BY <1>1, <1>3, <3>3
      <4>2. j \in S
        BY <4>1 DEF LineStarts
      <4>3. j <= m
        BY <2>2, <4>2
      <4> QED
        BY <1>1, <2>2, <3>3, <4>1, <4>3
    <3> QED
      BY <1>5, <3>1, <3>2, <3>3 DEF LineStarts
  <2>6. Max(R) = Len(p) + m
    <3>1. Max(R) <= Len(p) + m /\ Len(p) + m <= Max(R)
      BY <2>3, <2>4, <2>5
    <3>2. m \in Nat /\ Max(R) \in Nat
      BY <2>2, <2>3
    <3> HIDE DEF R
    <3> QED
      BY <1>1, <3>1, <3>2
  <2> DEFINE a == Line(q, i)
             b == Line(r, n)
  <2>7. n - 1 - Max(R) = i - 1 - m
    BY <1>1, <2>2, <2>6
  <2> HIDE DEF a, b, n
  <2>8. Len(b) = Len(a) /\ Len(a) = i - 1 - m
    BY <2>2, <2>3, <2>7 DEF a, b
  <2>9. ASSUME NEW k \in 1..(i - 1 - m) PROVE a[k] = b[k]
    <3>1. m + k \in 1..Len(q) /\ Len(p) + m + k = Len(p) + (m + k)
      BY <1>1, <2>2
    <3>2. a[k] = q[m + k]
      BY <2>2 DEF a
    <3>3. b[k] = r[Len(p) + m + k]
      BY <2>3, <2>6, <2>7 DEF b
    <3> QED
      BY <1>4, <3>1, <3>2, <3>3
  <2>10. a = b
    BY <2>2, <2>3, <2>8, <2>9, SeqEqual DEF a, b
  <2> QED
    BY <2>10 DEF a, b, n
<1> QED
  BY <1>2, <1>5, <1>6, <1>7 DEF r

\* The records of a stream whose first part is whole lines are those of that
\* part, then those of the rest.
LEMMA DecodedConcat ==
    ASSUME NEW p \in Seq(Bytes), NEW q \in Seq(Bytes), Whole(p)
    PROVE  /\ Decoded(p \o q) = Decoded(p) \o Decoded(q)
           /\ Rest(p \o q) = Rest(q)
<1> DEFINE r == p \o q
           P == RecordEnds(p)
           Q == RecordEnds(q)
           R == RecordEnds(r)
           shifted == {Len(p) + j : j \in Q}
           e == Ascending(P)
           f == Ascending(Q)
           g == Ascending(shifted)
           h == Ascending(R)
<1>1. Len(p) \in Nat /\ Len(q) \in Nat
  OBVIOUS
<1>2. /\ r \in Seq(Bytes) /\ Len(r) = Len(p) + Len(q)
      /\ LineEnds(r) = LineEnds(p) \cup {Len(p) + j : j \in LineEnds(q)}
      /\ \A i \in 1..Len(p) : Line(r, i) = Line(p, i)
      /\ \A i \in 1..(Len(q) + 1) : Line(r, Len(p) + i) = Line(q, i)
  BY ConcatLines
<1>3. LineEnds(p) \subseteq 1..Len(p) /\ LineEnds(q) \subseteq 1..Len(q)
  BY LineFacts
<1> HIDE DEF r
<1>4. \A j \in LineEnds(q) : j \in 1..(Len(q) + 1)
  BY <1>1, <1>3
<1>5. R = P \cup shifted
  BY <1>2, <1>3, <1>4 DEF RecordEnds
<1>6. /\ P \subseteq Nat /\ IsFiniteSet(P) /\ P \subseteq 1..Len(p)
      /\ Len(Decoded(p)) = Len(e) /\ Len(e) \in Nat
      /\ Decoded(p) \in Seq(Numbers)
      /\ \A k \in 1..Len(e) : /\ e[k] \in P
                              /\ Decoded(p)[k] = Line(p, e[k])[1][1]
  BY DecodedFacts
<1>7. /\ Q \subseteq Nat /\ IsFiniteSet(Q) /\ Q \subseteq 1..Len(q)
      /\ Len(Decoded(q)) = Len(f) /\ Len(f) \in Nat
      /\ Decoded(q) \in Seq(Numbers)
      /\ \A k \in 1..Len(f) : /\ f[k] \in Q
                              /\ Decoded(q)[k] = Line(q, f[k])[1][1]
  BY DecodedFacts
<1>8. /\ Len(Decoded(r)) = Len(h) /\ R \subseteq Nat /\ IsFiniteSet(R)
      /\ Decoded(r) \in Seq(Numbers)
      /\ \A k \in 1..Len(h) : Decoded(r)[k] = Line(r, h[k])[1][1]
  BY <1>2, DecodedFacts
<1>9. /\ g \in Seq(Nat) /\ Len(g) = Len(f)
      /\ \A k \in 1..Len(f) : g[k] = Len(p) + f[k]
  BY <1>1, <1>7, AscendingShift
<1>10. e \in Seq(Nat)
  BY <1>6, AscendingFacts
<1> HIDE DEF P, Q, R, e, f
<1>11. h = e \o g
  <2>1. shifted \subseteq R
    BY <1>5
  <2>2. shifted \subseteq Nat /\ IsFiniteSet(shifted)
    BY <1>8, <2>1, FS_Subset
  <2>3. \A x \in P, y \in shifted : x < y
    BY <1>1, <1>6, <1>7
  <2> HIDE DEF shifted
  <2> QED
    BY <1>5, <1>6, <2>2, <2>3, AscendingConcat DEF e
<1> HIDE DEF g, h
<1>12. /\ Len(h) = Len(e) + Len(f)
       /\ \A k \in 1..Len(h) : h[k] = IF k <= Len(e) THEN e[k] ELSE g[k - Len(e)]
  <2>1. /\ Len(e \o g) = Len(e) + Len(g)
        /\ \A k \in 1..(Len(e) + Len(g)) :
             (e \o g)[k] = IF k <= Len(e) THEN e[k] ELSE g[k - Len(e)]
    <3>1. e \in Seq(Nat) /\ g \in Seq(Nat)
      BY <1>9, <1>10
    <3> QED
      BY <3>1, ConcatProperties
  <2> QED
    BY <1>9, <1>11, <2>1
<1> DEFINE d == Decoded(p) \o Decoded(q)
<1>13. /\ d \in Seq(Numbers) /\ Len(d) = Len(e) + Len(f)
       /\ \A k \in 1..Len(d) :
            d[k] = IF k <= Len(e) THEN Decoded(p)[k] ELSE Decoded(q)[k - Len(e)]
  <2>1. /\ d \in Seq(Numbers) /\ Len(d) = Len(Decoded(p)) + Len(Decoded(q))
        /\ \A k \in 1..(Len(Decoded(p)) + Len(Decoded(q))) :
             d[k] = IF k <= Len(Decoded(p)) THEN Decoded(p)[k]
                    ELSE Decoded(q)[k - Len(Decoded(p))]
    <3>1. Decoded(p) \in Seq(Numbers) /\ Decoded(q) \in Seq(Numbers)
      BY <1>6, <1>7
    <3> QED
      BY <3>1, ConcatProperties
  <2> HIDE DEF d
  <2> QED
    BY <1>6, <1>7, <2>1
<1> HIDE DEF d
<1>14. ASSUME NEW k \in 1..Len(d) PROVE Decoded(r)[k] = d[k]
  <2>1. k \in 1..Len(h) /\ Decoded(r)[k] = Line(r, h[k])[1][1]
    BY <1>8, <1>12, <1>13
  <2>2. CASE k <= Len(e)
    <3>1. k \in 1..Len(e) /\ h[k] = e[k] /\ e[k] \in 1..Len(p)
      <4>1. k \in 1..Len(e)
        BY <1>6, <2>1, <2>2
      <4>2. h[k] = e[k]
        BY <1>12, <2>1, <2>2
      <4> QED
        BY <1>6, <4>1, <4>2
    <3>2. d[k] = Line(p, e[k])[1][1]
      BY <1>6, <1>13, <2>2, <3>1
    <3> QED
      BY <1>2, <2>1, <3>1, <3>2
  <2>3. CASE k > Len(e)
    <3> DEFINE j == k - Len(e)
    <3>1. j \in 1..Len(f) /\ ~(k <= Len(e))
      BY <1>6, <1>7, <1>12, <2>1, <2>3
    <3>2. h[k] = g[j] /\ d[k] = Decoded(q)[j]
      BY <1>12, <1>13, <2>1, <3>1
    <3> HIDE DEF j
    <3>3. g[j] = Len(p) + f[j] /\ Decoded(q)[j] = Line(q, f[j])[1][1]
          /\ f[j] \in 1..Len(q)
      BY <1>7, <1>9, <3>1
    <3>4. f[j] \in 1..(Len(q) + 1)
      BY <1>1, <3>3
    <3>5. Line(r, Len(p) + f[j]) = Line(q, f[j])
      BY <1>2, <3>4
    <3> QED
      BY <2>1, <3>2, <3>3, <3>5
  <2> QED
    BY <1>6, <2>1, <2>2, <2>3
<1>15. Decoded(r) = d
  BY <1>8, <1>12, <1>13, <1>14, SeqEqual
<1>16. Rest(r) = Rest(q)
  <2>1. Len(q) + 1 \in 1..(Len(q) + 1) /\ Len(r) + 1 = Len(p) + (Len(q) + 1)
    BY <1>1, <1>2
  <2> QED
    BY <1>2, <2>1 DEF Rest
<1> QED
  BY <1>15, <1>16 DEF d, r

\* What is left over is the end of the bytes, and no line ends in it.
LEMMA RestFacts ==
    ASSUME NEW bytes \in Seq(Bytes)
    PROVE  /\ Rest(bytes) \in Seq(Bytes)
           /\ LineEnds(Rest(bytes)) = {} /\ Decoded(Rest(bytes)) = << >>
           /\ \E p \in Seq(Bytes) : Whole(p) /\ bytes = p \o Rest(bytes)
<1> DEFINE n == Len(bytes)
           m == Max(LineStarts(bytes, n + 1))
           s == Rest(bytes)
           p == SubSeq(bytes, 1, m)
<1>1. n \in Nat /\ n + 1 \in 1..(n + 1) /\ n + 1 - 1 = n
  OBVIOUS
<1>2. /\ m \in LineStarts(bytes, n + 1) /\ m \in 0..(n + 1 - 1)
      /\ \A j \in LineStarts(bytes, n + 1) : j <= m
      /\ s \in Seq(Bytes) /\ Len(s) = n + 1 - 1 - m
      /\ \A k \in 1..(n + 1 - 1 - m) : s[k] = bytes[m + k]
  BY <1>1, LineFacts DEF Rest
<1>3. m \in 0..n /\ Len(s) = n - m /\ \A k \in 1..(n - m) : s[k] = bytes[m + k]
  <2> HIDE DEF m, s, n
  <2>1. n + 1 - 1 = n /\ n + 1 - 1 - m = n - m
    BY <1>1, <1>2
  <2> QED
    BY <1>2, <2>1
<1>4. /\ p \in Seq(Bytes) /\ Len(p) = m
      /\ \A k \in 1..m : p[k] = bytes[k]
  <2> HIDE DEF m
  <2>1. \A k \in 1..m : bytes[k] \in Bytes
    <3>1. \A k \in 1..m : k \in 1..Len(bytes)
      BY <1>1, <1>3
    <3> QED
      BY <3>1, ElementOfSeq
  <2>2. m \in Nat /\ m \in Int /\ 1 \in Int
    BY <1>3
  <2>3. /\ SubSeq(bytes, 1, m) \in Seq(Bytes)
        /\ Len(SubSeq(bytes, 1, m)) = IF 1 <= m THEN m - 1 + 1 ELSE 0
        /\ \A k \in 1..(m - 1 + 1) : SubSeq(bytes, 1, m)[k] = bytes[1 + k - 1]
    BY <2>1, <2>2, SubSeqProperties
  <2>4. (IF 1 <= m THEN m - 1 + 1 ELSE 0) = m /\ m - 1 + 1 = m
        /\ \A k \in 1..m : 1 + k - 1 = k
    BY <2>2
  <2> QED
    BY <2>3, <2>4
<1> HIDE DEF p, s, m, n
<1>5. bytes = p \o s
  <2>1. /\ p \o s \in Seq(Bytes) /\ Len(p \o s) = m + (n - m)
        /\ \A i \in 1..(m + (n - m)) :
             (p \o s)[i] = IF i <= m THEN p[i] ELSE s[i - m]
    BY <1>2, <1>3, <1>4, ConcatProperties
  <2>2. m + (n - m) = n
    BY <1>1, <1>3
  <2>3. ASSUME NEW i \in 1..n PROVE (p \o s)[i] = bytes[i]
    <3>1. CASE i <= m
      BY <1>1, <1>3, <1>4, <2>1, <2>2, <3>1
    <3>2. CASE i > m
      <4>1. i - m \in 1..(n - m) /\ m + (i - m) = i /\ ~(i <= m)
        BY <1>1, <1>3, <3>2
      <4> QED
        BY <1>3, <2>1, <2>2, <4>1
    <3>3. i \in Nat /\ m \in Nat
      BY <1>3
    <3>4. i <= m \/ i > m
      BY <3>3
    <3> QED
      BY <3>1, <3>2, <3>4
  <2> QED
    BY <2>1, <2>2, <2>3, SeqEqual DEF n
<1>6. Whole(p)
  <2>1. CASE m = 0
    BY <1>4, <2>1, EmptySeq DEF Whole
  <2>2. CASE m # 0
    <3>1. m \in LineEnds(bytes) /\ m \in 1..m
      BY <1>2, <1>3, <2>2 DEF LineStarts
    <3>2. bytes[m] = LF
      BY <3>1 DEF LineEnds
    <3> QED
      BY <1>4, <3>1, <3>2 DEF Whole
  <2> QED
    BY <2>1, <2>2
<1>7. LineEnds(s) = {}
  <2> SUFFICES ASSUME NEW k \in LineEnds(s) PROVE FALSE
    OBVIOUS
  <2>1. k \in 1..(n - m) /\ s[k] = LF
    BY <1>2, <1>3, LineFacts
  <2>2. m + k \in 1..n /\ m + k < n + 1 /\ ~(m + k <= m)
    BY <1>1, <1>3, <2>1
  <2>3. m + k \in LineEnds(bytes)
    BY <1>3, <2>1, <2>2, LineFacts DEF n
  <2>4. m + k \in LineStarts(bytes, n + 1)
    BY <2>2, <2>3 DEF LineStarts
  <2> QED
    BY <1>2, <2>2, <2>4
<1>8. Decoded(s) = << >>
  <2>1. RecordEnds(s) = {}
    BY <1>7 DEF RecordEnds
  <2>2. Len(Decoded(s)) = Len(Ascending({})) /\ Decoded(s) \in Seq(Numbers)
    BY <1>2, <2>1, DecodedFacts
  <2> QED
    BY <2>2, AscendingSmall, EmptySeq
<1> QED
  BY <1>2, <1>4, <1>5, <1>6, <1>7, <1>8 DEF s

\* feed() called with one piece after the other decodes what it would have
\* decoded at once.
THEOREM FeedInPieces ==
    ASSUME NEW a \in Seq(Bytes), NEW b \in Seq(Bytes)
    PROVE  /\ Decoded(a \o b) = Decoded(a) \o Decoded(Rest(a) \o b)
           /\ Rest(a \o b) = Rest(Rest(a) \o b)
<1> DEFINE s == Rest(a)
<1>1. s \in Seq(Bytes) /\ Decoded(s) = << >>
  BY RestFacts
<1>2. PICK p \in Seq(Bytes) : Whole(p) /\ a = p \o s
  BY RestFacts
<1> HIDE DEF s
<1>3. a \o b = p \o (s \o b) /\ s \o b \in Seq(Bytes)
  BY <1>1, <1>2, ConcatAssociative, ConcatProperties
<1>4. Decoded(a) = Decoded(p) \o << >>
  BY <1>1, <1>2, DecodedConcat
<1>5. Decoded(a) = Decoded(p)
  BY <1>4, DecodedFacts, ConcatEmptySeq
<1>6. Decoded(a \o b) = Decoded(p) \o Decoded(s \o b)
      /\ Rest(a \o b) = Rest(s \o b)
  BY <1>2, <1>3, DecodedConcat
<1> QED
  BY <1>5, <1>6 DEF s

\* Nothing is left over of a stream of whole lines, and of no other.
LEMMA RestWhole ==
    ASSUME NEW bytes \in Seq(Bytes)
    PROVE  Rest(bytes) = << >> <=> Whole(bytes)
<1>1. ASSUME Rest(bytes) = << >> PROVE Whole(bytes)
  <2>1. PICK p \in Seq(Bytes) : Whole(p) /\ bytes = p \o << >>
    BY <1>1, RestFacts
  <2> QED
    BY <2>1, ConcatEmptySeq
<1>2. ASSUME Whole(bytes) PROVE Rest(bytes) = << >>
  <2>1. << >> \in Seq(Bytes) /\ bytes \o << >> = bytes
    BY EmptySeq, ConcatEmptySeq
  <2>2. Rest(bytes) = Rest(<< >>)
    BY <1>2, <2>1, DecodedConcat
  <2>3. PICK p \in Seq(Bytes) : << >> = p \o Rest(<< >>)
    BY <2>1, RestFacts
  <2>4. p \o Rest(<< >>) = << >> /\ Rest(<< >>) \in Seq(Bytes)
    BY <2>1, <2>3, RestFacts
  <2>5. Rest(<< >>) = << >>
    BY <2>4, ConcatEqualIffEmpty
  <2> QED
    BY <2>2, <2>5
<1> QED
  BY <1>1, <1>2

\* A line without an LF of its own is decoded by itself.
LEMMA OneLine ==
    ASSUME NEW raw \in Seq(Bytes), \A i \in 1..Len(raw) : raw[i] # LF
    PROVE  LET e == Append(raw, LF) IN
           /\ e \in Seq(Bytes) /\ Whole(e)
           /\ Decoded(e) = IF IsRecord(StripCR(raw)) THEN <<raw[1][1]>>
                           ELSE << >>
<1> DEFINE e == Append(raw, LF)
           n == Len(raw) + 1
<1>1. Len(raw) \in Nat /\ n \in Nat /\ LF \in Bytes
  BY DEF Bytes
<1>2. /\ e \in Seq(Bytes) /\ Len(e) = n /\ e # << >>
      /\ \A i \in 1..Len(raw) : e[i] = raw[i]
      /\ e[n] = LF
  BY <1>1, AppendProperties
<1> HIDE DEF e
<1>3. LineEnds(e) = {n}
  <2>1. \A i \in 1..n : i = n \/ i \in 1..Len(raw)
    BY <1>1
  <2>2. n \in 1..n
    BY <1>1
  <2> HIDE DEF n
  <2>3. LineEnds(e) = {i \in 1..n : e[i] = LF}
    BY <1>2, LineFacts
  <2>4. \A i \in 1..n : e[i] = LF <=> i = n
    BY <1>2, <2>1
  <2> QED
    BY <2>2, <2>3, <2>4
<1>4. LineStarts(e, n) = {0} /\ Max({0}) = 0
  <2>1. \A j \in {n} : ~(j < n)
    BY <1>1
  <2>2. Max({0}) = 0
    <3>1. {0} \subseteq Nat /\ 0 \in {0} /\ \A y \in {0} : y <= 0
      OBVIOUS
    <3> QED
      BY <3>1, MaxIs
  <2> QED
    BY <1>3, <2>1, <2>2 DEF LineStarts
<1>5. Line(e, n) = raw
  <2> DEFINE l == Line(e, n)
  <2>1. n \in 1..(Len(e) + 1)
    BY <1>1, <1>2
  <2>2. /\ l \in Seq(Bytes) /\ Len(l) = n - 1 - 0
        /\ \A k \in 1..(n - 1 - 0) : l[k] = e[0 + k]
    <3>1. LET m == Max(LineStarts(e, n)) IN
          /\ l \in Seq(Bytes) /\ Len(l) = n - 1 - m
          /\ \A k \in 1..(n - 1 - m) : l[k] = e[m + k]
      BY <1>2, <2>1, LineFacts
    <3>2. Max(LineStarts(e, n)) = 0
      BY <1>4
    <3> HIDE DEF l, n
    <3> QED
      BY <3>1, <3>2
  <2> HIDE DEF l
  <2>3. n - 1 - 0 = Len(raw) /\ \A k \in 1..Len(raw) : 0 + k = k
    BY <1>1
  <2>4. Len(l) = Len(raw) /\ \A k \in 1..Len(raw) : l[k] = raw[k]
    BY <1>2, <2>2, <2>3
  <2> QED
    BY <2>2, <2>4, SeqEqual DEF l
<1>6. Whole(e)
  BY <1>2 DEF Whole
<1>7. CASE IsRecord(StripCR(raw))
  <2>1. RecordEnds(e) = {n}
    BY <1>3, <1>5, <1>7 DEF RecordEnds
  <2>2. Ascending({n}) = <<n>>
    BY <1>1, AscendingSmall
  <2>3. Decoded(e) = [k \in DOMAIN <<n>> |-> Line(e, <<n>>[k])[1][1]]
    BY <2>1, <2>2 DEF Decoded
  <2> HIDE DEF n
  <2>4. DOMAIN <<n>> = 1..1 /\ <<n>>[1] = n
    OBVIOUS
  <2>5. Decoded(e) = [k \in 1..1 |-> raw[1][1]]
    BY <1>5, <2>3, <2>4
  <2>6. [k \in 1..1 |-> raw[1][1]] = <<raw[1][1]>>
    OBVIOUS
  <2> QED
    BY <1>2, <1>6, <1>7, <2>5, <2>6 DEF e
<1>8. CASE ~IsRecord(StripCR(raw))
  <2>1. RecordEnds(e) = {}
    BY <1>3, <1>5, <1>8 DEF RecordEnds
  <2>2. Len(Decoded(e)) = Len(Ascending({})) /\ Decoded(e) \in Seq(Numbers)
    BY <1>2, <2>1, DecodedFacts
  <2>3. Decoded(e) = << >>
    BY <2>2, AscendingSmall, EmptySeq
  <2> QED
    BY <1>2, <1>6, <1>8, <2>3 DEF e
<1> QED
  BY <1>7, <1>8

\* A record of pi is decoded to its number, with or without the CR and the
\* empty line before it, and what is no JSON to nothing.
LEMMA EncodeFacts ==
    ASSUME NEW n \in Numbers, NEW type
    PROVE  LET e == Encode(n, type) IN
           /\ e \in Seq(Bytes) /\ Whole(e)
           /\ Decoded(e) = IF type = "junk" THEN << >> ELSE <<n>>
<1> DEFINE body == IF type = "junk" THEN [i \in 1..MaxBuffer-1 |-> <<n, 1>>]
                   ELSE <<<<n, 1>>, <<n, 2>>>>
           e == Encode(n, type)
           d == IF type = "junk" THEN << >> ELSE <<n>>
<1>0. n \in Nat /\ LF # CR /\ {LF, CR} \cap (Nat \X {1, 2}) = {}
      /\ <<n, 1>> \in Nat \X {1, 2} /\ <<n, 2>> \in Nat \X {1, 2}
      /\ <<n, 1>> \in Bytes /\ <<n, 2>> \in Bytes /\ LF \in Bytes /\ CR \in Bytes
  BY DecoderAssumption DEF Numbers, Bytes
<1>1. /\ body \in Seq(Bytes)
      /\ \A i \in 1..Len(body) : body[i] # LF /\ body[i] # CR
      /\ IsRecord(body) <=> type # "junk"
      /\ type # "junk" => body # << >> /\ body[1] = <<n, 1>>
  <2>1. CASE type = "junk"
    <3>1. body = [i \in 1..MaxBuffer-1 |-> <<n, 1>>]
      BY <2>1
    <3> HIDE DEF body
    <3>2. body \in Seq(Bytes) /\ Len(body) = IF MaxBuffer = 0 THEN 0 ELSE MaxBuffer - 1
      <4>1. CASE MaxBuffer = 0
        <5>1. 1..MaxBuffer-1 = 1..0
          BY <4>1
        <5>2. body = << >>
          BY <3>1, <5>1
        <5> QED
          BY <4>1, <5>2
      <4>2. CASE MaxBuffer # 0
        <5>1. MaxBuffer - 1 \in Nat
          BY <4>2, DecoderAssumption
        <5>2. body \in [1..MaxBuffer-1 -> Bytes]
          BY <1>0, <3>1
        <5> QED
          BY <4>2, <5>1, <5>2
      <4> QED
        BY <4>1, <4>2
    <3>3. \A i \in 1..Len(body) : body[i] = <<n, 1>>
      <4>1. MaxBuffer \in Nat
        BY DecoderAssumption
      <4>2. \A i \in 1..Len(body) : i \in 1..MaxBuffer-1
        BY <3>2, <4>1
      <4> QED
        BY <3>1, <4>2
    <3>4. ~IsRecord(body)
      <4> SUFFICES ASSUME NEW b, body = <<<<b[1], 1>>, <<b[1], 2>>>> PROVE FALSE
        BY DEF IsRecord
      <4>1. Len(body) = 2 /\ body[2] = <<b[1], 2>>
        OBVIOUS
      <4>2. body[2] = <<n, 1>>
        BY <3>3, <4>1
      <4> QED
        BY <4>1, <4>2
    <3> QED
      BY <1>0, <2>1, <3>2, <3>3, <3>4
  <2>2. CASE type # "junk"
    <3>1. body = <<<<n, 1>>, <<n, 2>>>>
      BY <2>2
    <3> HIDE DEF body
    <3>2. body \in Seq(Bytes) /\ Len(body) = 2 /\ body[1] = <<n, 1>>
          /\ body[2] = <<n, 2>> /\ DOMAIN body = 1..2
      BY <1>0, <3>1
    <3>3. \A i \in 1..2 : i = 1 \/ i = 2
      OBVIOUS
    <3>4. \A i \in 1..Len(body) : body[i] # LF /\ body[i] # CR
      BY <1>0, <3>2, <3>3
    <3>5. <<n, 1>> \in Range(body) \ {LF, CR} /\ <<n, 1>>[1] = n
      BY <1>0, <3>2 DEF Range
    <3>6. IsRecord(body)
      BY <3>1, <3>5 DEF IsRecord
    <3> QED
      BY <2>2, <3>2, <3>4, <3>6
  <2> QED
    BY <2>1, <2>2
<1>2. e = IF n % 2 = 0 THEN <<LF>> \o body \o <<CR, LF>> ELSE Append(body, LF)
  BY DEF Encode
<1>3. IsRecord(body) => body[1][1] = n
  BY <1>1
<1> HIDE DEF body, e
<1>4. StripCR(body) = body
  <2>1. body # << >> => body[Len(body)] # CR
    BY <1>1, EmptySeq
  <2> QED
    BY <2>1 DEF StripCR, Last
<1>5. CASE n % 2 # 0
  <2>1. e = Append(body, LF)
    BY <1>2, <1>5
  <2>2. e \in Seq(Bytes) /\ Whole(e)
        /\ Decoded(e) = IF IsRecord(StripCR(body)) THEN <<body[1][1]>> ELSE << >>
    BY <1>1, <2>1, OneLine
  <2>3. Decoded(e) = d
    BY <1>1, <1>3, <1>4, <2>2
  <2> QED
    BY <2>2, <2>3 DEF e
<1>6. CASE n % 2 = 0
  <2> DEFINE raw == Append(body, CR)
             tail == Append(raw, LF)
             blank == Append(<< >>, LF)
  <2>1. /\ raw \in Seq(Bytes) /\ Len(raw) = Len(body) + 1 /\ raw # << >>
        /\ \A i \in 1..Len(body) : raw[i] = body[i]
        /\ raw[Len(body) + 1] = CR /\ Len(body) \in Nat
    BY <1>0, <1>1, AppendProperties
  <2>2. \A i \in 1..Len(raw) : raw[i] # LF
    <3> HIDE DEF raw
    <3> TAKE i \in 1..Len(raw)
    <3>1. i \in 1..Len(body) \/ i = Len(body) + 1
      BY <2>1
    <3> QED
      BY <1>0, <1>1, <2>1, <3>1
  <2>3. StripCR(raw) = body
    <3>1. Front(raw) = SubSeq(raw, 1, Len(body))
      BY <2>1 DEF Front
    <3>2. SubSeq(raw, 1, Len(body)) = body
      BY <1>0, <1>1, <2>1
    <3> QED
      BY <2>1, <3>1, <3>2 DEF StripCR, Last
  <2>4. tail \in Seq(Bytes) /\ Whole(tail)
        /\ Decoded(tail) = IF IsRecord(StripCR(raw)) THEN <<raw[1][1]>> ELSE << >>
    BY <2>1, <2>2, OneLine
  <2>5. Decoded(tail) = d
    <3>1. type # "junk" => raw[1][1] = n
      <4>1. type # "junk" => 1 \in 1..Len(body)
        BY <1>1, EmptySeq
      <4> QED
        BY <1>1, <2>1, <4>1
    <3> QED
      BY <1>1, <2>3, <2>4, <3>1
  <2>6. blank \in Seq(Bytes) /\ Whole(blank) /\ Decoded(blank) = << >>
        /\ blank = <<LF>>
    <3>1. << >> \in Seq(Bytes) /\ Len(<< >>) = 0
      BY EmptySeq
    <3>2. ~IsRecord(StripCR(<< >>))
      BY DEF IsRecord, StripCR, Range
    <3>3. \A i \in 1..Len(<< >>) : << >>[i] # LF
      OBVIOUS
    <3>4. blank \in Seq(Bytes) /\ Whole(blank)
          /\ Decoded(blank) = IF IsRecord(StripCR(<< >>)) THEN <<(<< >>)[1][1]>>
                              ELSE << >>
      BY <3>1, <3>3, OneLine
    <3>5. blank = <<LF>>
      OBVIOUS
    <3> QED
      BY <3>2, <3>4, <3>5
  <2>7. tail = body \o <<CR, LF>>
    BY <1>0, <1>1
  <2>8. e = blank \o tail
    <3>1. <<LF>> \in Seq(Bytes) /\ <<CR, LF>> \in Seq(Bytes)
      BY <1>0
    <3>2. e = <<LF>> \o body \o <<CR, LF>>
      BY <1>2, <1>6
    <3>3. (<<LF>> \o body) \o <<CR, LF>> = <<LF>> \o (body \o <<CR, LF>>)
      BY <1>1, <3>1, ConcatAssociative
    <3> QED
      BY <2>6, <2>7, <3>2, <3>3
  <2> HIDE DEF tail, blank, raw
  <2>9. Decoded(e) = << >> \o Decoded(tail) /\ Rest(e) = Rest(tail)
    BY <2>4, <2>6, <2>8, DecodedConcat
  <2>10. e \in Seq(Bytes)
    BY <2>4, <2>6, <2>8, ConcatProperties
  <2>11. Whole(e)
    BY <2>4, <2>9, <2>10, RestWhole
  <2>12. Decoded(e) = Decoded(tail)
    BY <2>4, <2>9, DecodedFacts, ConcatEmptySeq
  <2> QED
    BY <2>5, <2>10, <2>11, <2>12 DEF e
<1> QED
  BY <1>5, <1>6

-----------------------------------------------------------------------------
(* What Append, Tail and list.remove do to the members of a sequence.      *)

\* Putting an item, or calling on_event(), adds that and nothing else.
LEMMA AppendFacts ==
    ASSUME NEW T, NEW s \in Seq(T), NEW x \in T
    PROVE  LET r == Append(s, x) IN
           /\ r \in Seq(T) /\ r # << >> /\ Len(r) = Len(s) + 1
           /\ Len(s) \in Nat /\ DOMAIN s = 1..Len(s) /\ DOMAIN r = 1..Len(r)
           /\ \A i \in DOMAIN s : i \in DOMAIN r /\ r[i] = s[i]
           /\ r[Len(r)] = x
           /\ Range(r) = Range(s) \cup {x}
<1> DEFINE r == Append(s, x)
<1>1. /\ r \in Seq(T) /\ r # << >> /\ Len(r) = Len(s) + 1
      /\ Len(s) \in Nat /\ DOMAIN s = 1..Len(s) /\ DOMAIN r = 1..Len(r)
      /\ \A i \in 1..Len(s) : r[i] = s[i]
      /\ r[Len(s) + 1] = x
  OBVIOUS
<1> HIDE DEF r
<1>2. 1..Len(r) = 1..Len(s) \cup {Len(s) + 1}
  BY <1>1
<1>3. Range(r) = Range(s) \cup {x}
  BY <1>1, <1>2 DEF Range
<1> QED
  BY <1>1, <1>2, <1>3 DEF r

\* Taking the head leaves the rest.
LEMMA TailFacts ==
    ASSUME NEW T, NEW s \in Seq(T), s # << >>
    PROVE  LET r == Tail(s) IN
           /\ r \in Seq(T) /\ Len(r) = Len(s) - 1
           /\ Len(s) \in Nat \ {0}
           /\ DOMAIN s = 1..Len(s) /\ DOMAIN r = 1..Len(r)
           /\ \A i \in DOMAIN r : i + 1 \in DOMAIN s /\ r[i] = s[i + 1]
           /\ Head(s) = s[1] /\ Head(s) \in T /\ 1 \in DOMAIN s
           /\ Range(r) \subseteq Range(s)
<1> DEFINE r == Tail(s)
<1>1. /\ r \in Seq(T) /\ Len(r) = Len(s) - 1
      /\ Len(s) \in Nat \ {0}
      /\ DOMAIN s = 1..Len(s) /\ DOMAIN r = 1..Len(r)
      /\ \A i \in 1..Len(r) : r[i] = s[i + 1]
      /\ Head(s) = s[1] /\ Head(s) \in T
  OBVIOUS
<1> HIDE DEF r
<1>2. \A i \in 1..Len(r) : i + 1 \in 1..Len(s)
  BY <1>1
<1>3. Range(r) \subseteq Range(s)
  BY <1>1, <1>2 DEF Range
<1>4. 1 \in 1..Len(s)
  BY <1>1
<1> QED
  BY <1>1, <1>2, <1>3, <1>4 DEF r

\* list.remove() of a handler that is subscribed once (rpc.py:184-188): it is
\* gone, and the others stay in their order.
LEMMA RemoveFacts ==
    ASSUME NEW T, NEW s \in Seq(T), IsInjective(s), NEW x
    PROVE  LET r == RemoveFirst(s, x) IN
           /\ r \in Seq(T) /\ IsInjective(r)
           /\ x \notin Range(r) /\ Range(r) \subseteq Range(s)
<1> DEFINE r == RemoveFirst(s, x)
<1>0. Len(s) \in Nat /\ DOMAIN s = 1..Len(s)
  OBVIOUS
<1>1. CASE \A i \in 1..Len(s) : s[i] # x
  <2>1. r = s
    BY <1>1 DEF RemoveFirst
  <2>2. x \notin Range(s)
    BY <1>0, <1>1 DEF Range
  <2> HIDE DEF r
  <2> QED
    BY <2>1, <2>2 DEF r
<1>2. CASE \E i \in 1..Len(s) : s[i] = x
  <2>1. PICK k \in 1..Len(s) : s[k] = x
    BY <1>2
  <2>2. {i \in 1..Len(s) : s[i] = x} = {k}
    BY <1>0, <2>1 DEF IsInjective
  <2>3. Min({k}) = k
    BY <1>0, <2>1 DEF Min
  <2>4. r = SubSeq(s, 1, k - 1) \o SubSeq(s, k + 1, Len(s))
    <3>1. SelectInSeq(s, LAMBDA v : v = x) = k
      BY <2>2, <2>3 DEF SelectInSeq
    <3> QED
      BY <1>2, <3>1 DEF RemoveFirst, RemoveAt
  <2>5. /\ r \in Seq(T) /\ Len(r) = Len(s) - 1 /\ DOMAIN r = 1..Len(r)
        /\ \A i \in 1..Len(r) : r[i] = IF i < k THEN s[i] ELSE s[i + 1]
    <3> DEFINE p == SubSeq(s, 1, k - 1)
               q == SubSeq(s, k + 1, Len(s))
    <3>1. /\ p \in Seq(T) /\ Len(p) = k - 1
          /\ \A i \in 1..(k - 1) : p[i] = s[i]
      BY <1>0, <2>1, SubSeqProperties
    <3>2. /\ q \in Seq(T) /\ Len(q) = Len(s) - k
          /\ \A i \in 1..(Len(s) - k) : q[i] = s[k + i]
      <4>1. /\ k + 1 \in Int /\ Len(s) \in Int
            /\ \A i \in (k + 1)..Len(s) : s[i] \in T
        BY <1>0, <2>1
      <4>3. PICK m \in Int, n \in Int : m = k + 1 /\ n = Len(s)
        BY <4>1
      <4>4. \A i \in m..n : s[i] \in T
        BY <4>1, <4>3
      <4>2. /\ SubSeq(s, m, n) \in Seq(T)
            /\ Len(SubSeq(s, m, n)) = IF m <= n THEN n - m + 1 ELSE 0
            /\ \A i \in 1..(n - m + 1) : SubSeq(s, m, n)[i] = s[m + i - 1]
        BY <4>4, SubSeqProperties
      <4>5. q = SubSeq(s, m, n)
        BY <4>3
      <4> HIDE DEF q
      <4>6. q \in Seq(T) /\ Len(q) = Len(s) - k
        <5>1. q \in Seq(T) /\ Len(q) = IF m <= n THEN n - m + 1 ELSE 0
          BY <4>2, <4>5
        <5>2. Len(s) \in Nat /\ k \in Int /\ k <= Len(s)
          BY <1>0, <2>1
        <5>3. (IF m <= n THEN n - m + 1 ELSE 0) = Len(s) - k
          BY <5>2, <4>3
        <5> QED
          BY <5>1, <5>3
      <4>7. ASSUME NEW i \in 1..(Len(s) - k) PROVE q[i] = s[k + i]
        <5>1. i \in 1..(n - m + 1) /\ m + i - 1 = k + i
          BY <1>0, <2>1, <4>3
        <5> QED
          BY <4>2, <4>5, <5>1
      <4> QED
        BY <4>6, <4>7
    <3> HIDE DEF p, q, r
    <3>3. r = p \o q
      BY <2>4 DEF p, q
    <3>4. /\ r \in Seq(T) /\ Len(r) = Len(p) + Len(q)
          /\ \A i \in 1..(Len(p) + Len(q)) :
               r[i] = IF i <= Len(p) THEN p[i] ELSE q[i - Len(p)]
      BY <3>1, <3>2, <3>3, ConcatProperties
    <3>5. Len(r) = Len(s) - 1 /\ DOMAIN r = 1..Len(r)
      BY <1>0, <2>1, <3>1, <3>2, <3>4
    <3>6. ASSUME NEW i \in 1..Len(r)
          PROVE  r[i] = IF i < k THEN s[i] ELSE s[i + 1]
      <4>1. i \in Nat /\ k \in Nat /\ i \in 1..(Len(p) + Len(q))
        BY <1>0, <2>1, <3>4
      <4>2. CASE i < k
        BY <4>1, <4>2, <2>1, <3>1, <3>4
      <4>3. CASE i >= k
        <5>1. ~(i <= Len(p)) /\ i - Len(p) = i - k + 1
          BY <4>1, <4>3, <2>1, <3>1
        <5>2. i - k + 1 \in 1..(Len(s) - k) /\ k + (i - k + 1) = i + 1
          BY <4>1, <4>3, <1>0, <2>1, <3>5
        <5> QED
          BY <4>1, <4>3, <5>1, <5>2, <3>2, <3>4
      <4> QED
        BY <4>1, <4>2, <4>3
    <3> QED
      BY <3>4, <3>5, <3>6
  <2> HIDE DEF r
  <2>6. \A i \in 1..Len(r) : \E j \in 1..Len(s) :
          /\ r[i] = s[j] /\ j # k
          /\ (i < k /\ j = i) \/ (i >= k /\ j = i + 1)
    <3> TAKE i \in 1..Len(r)
    <3>1. i \in 1..Len(s) /\ i + 1 \in 1..Len(s) /\ k \in Nat /\ i \in Nat
      BY <1>0, <2>1, <2>5
    <3>2. CASE i < k
      BY <2>5, <3>1, <3>2
    <3>3. CASE i >= k
      BY <2>5, <3>1, <3>3
    <3> QED
      BY <3>1, <3>2, <3>3
  <2>7. IsInjective(r)
    <3> SUFFICES ASSUME NEW a \in 1..Len(r), NEW b \in 1..Len(r), r[a] = r[b]
                 PROVE  a = b
      BY <2>5 DEF IsInjective
    <3>1. PICK i \in 1..Len(s) :
            /\ r[a] = s[i]
            /\ (a < k /\ i = a) \/ (a >= k /\ i = a + 1)
      BY <2>6
    <3>2. PICK j \in 1..Len(s) :
            /\ r[b] = s[j]
            /\ (b < k /\ j = b) \/ (b >= k /\ j = b + 1)
      BY <2>6
    <3>3. i = j
      BY <1>0, <3>1, <3>2 DEF IsInjective
    <3> QED
      BY <1>0, <2>1, <2>5, <3>1, <3>2, <3>3
  <2>8. x \notin Range(r) /\ Range(r) \subseteq Range(s)
    <3>1. ASSUME NEW i \in DOMAIN r PROVE r[i] \in Range(s) /\ r[i] # x
      <4>1. PICK j \in 1..Len(s) : r[i] = s[j] /\ j # k
        BY <2>5, <2>6
      <4>2. s[j] # s[k]
        BY <1>0, <4>1 DEF IsInjective
      <4> QED
        BY <1>0, <2>1, <4>1, <4>2 DEF Range
    <3> QED
      BY <3>1 DEF Range
  <2> QED
    BY <2>5, <2>7, <2>8 DEF r
<1> QED
  BY <1>0, <1>1, <1>2

-----------------------------------------------------------------------------
(* The types.                                                              *)

IInv == DeliveredInOrder /\ HandlersSeeAll /\ DialogsAnswered

PromptRecord ==
    [at : {"idle", "response", "agent_end", "returned", "raised"},
     reply : {"none", "pending", "value", "error"}, done : BOOLEAN]

WaiterRecord ==
    [at : {"idle", "wait", "got", "returned", "raised"},
     event : Numbers \cup {0}]

\* pipe and buffer, and what feed() makes of them.
LEMMA BytesFacts ==
    TypeOK => /\ buffer \o pipe \in Seq(Bytes)
              /\ Decoded(buffer \o pipe) \in Seq(Numbers)
<1> SUFFICES ASSUME TypeOK
             PROVE  /\ buffer \o pipe \in Seq(Bytes)
                    /\ Decoded(buffer \o pipe) \in Seq(Numbers)
  OBVIOUS
<1>1. buffer \o pipe \in Seq(Bytes)
  BY ConcatProperties DEF TypeOK
<1> QED
  BY <1>1, DecodedFacts

\* What a read takes off the pipe.
LEMMA ChunkFacts ==
    ASSUME TypeOK, pipe # << >>, NEW size \in Chunks
    PROVE  LET k == Min({size, Len(pipe)})
               c == SubSeq(pipe, 1, k)
               q == SubSeq(pipe, k + 1, Len(pipe))
           IN  /\ c \in Seq(Bytes) /\ q \in Seq(Bytes) /\ pipe = c \o q
               /\ buffer \o c \in Seq(Bytes)
               /\ buffer \o pipe = (buffer \o c) \o q
               /\ Rest(buffer \o c) \in Seq(Bytes)
               /\ Decoded(buffer \o c) \in Seq(Numbers)
<1> DEFINE k == Min({size, Len(pipe)})
           c == SubSeq(pipe, 1, k)
           q == SubSeq(pipe, k + 1, Len(pipe))
<1>1. pipe \in Seq(Bytes) /\ buffer \in Seq(Bytes)
  BY DEF TypeOK
<1>2. Len(pipe) \in Nat \ {0} /\ size \in Nat \ {0}
  BY <1>1, EmptySeq, EventsAssumption
<1>3. k \in 1..Len(pipe)
  <2>1. \E x \in {size, Len(pipe)} : \A y \in {size, Len(pipe)} : x <= y
    BY <1>2
  <2>2. k \in {size, Len(pipe)} /\ \A y \in {size, Len(pipe)} : k <= y
    BY <2>1 DEF Min
  <2> QED
    BY <1>2, <2>2
<1> HIDE DEF k
<1>4. 1 \in 1..(Len(pipe) + 1) /\ k \in (1 - 1)..Len(pipe)
      /\ Len(pipe) \in k..Len(pipe)
  BY <1>2, <1>3
<1>5. c \o q = SubSeq(pipe, 1, Len(pipe))
  BY <1>1, <1>4, ConcatAdjacentSubSeq
<1>6. pipe = c \o q
  BY <1>1, <1>5, SubSeqFull
<1>7. c \in Seq(Bytes)
  <2>1. \A i \in 1..k : pipe[i] \in Bytes
    <3>1. \A i \in 1..k : i \in 1..Len(pipe)
      BY <1>2, <1>3
    <3> QED
      BY <1>1, <3>1, ElementOfSeq
  <2>2. 1 \in Int /\ k \in Int
    BY <1>3
  <2> QED
    BY <2>1, <2>2, SubSeqProperties
<1>8. q \in Seq(Bytes)
  <2>1. PICK a \in Int, b \in Int : a = k + 1 /\ b = Len(pipe)
    BY <1>2, <1>3
  <2>2. \A i \in a..b : pipe[i] \in Bytes
    <3>1. \A i \in a..b : i \in 1..Len(pipe)
      BY <1>2, <1>3, <2>1
    <3> QED
      BY <1>1, <3>1, ElementOfSeq
  <2> QED
    BY <2>1, <2>2, SubSeqProperties
<1> HIDE DEF c, q
<1>9. buffer \o c \in Seq(Bytes) /\ buffer \o pipe = (buffer \o c) \o q
  BY <1>1, <1>6, <1>7, <1>8, ConcatAssociative, ConcatProperties
<1>10. Rest(buffer \o c) \in Seq(Bytes) /\ Decoded(buffer \o c) \in Seq(Numbers)
  BY <1>9, RestFacts, DecodedFacts
<1> QED
  BY <1>6, <1>7, <1>8, <1>9, <1>10 DEF c, q, k

\* What _fail_pending leaves of the prompts.
LEMMA FailPendingFacts ==
    ASSUME TypeOK, FailPending
    PROVE  /\ prompts' \in [Prompts -> PromptRecord]
           /\ \A p \in Prompts : prompts'[p].at = prompts[p].at
<1>1. prompts \in [Prompts -> PromptRecord]
  BY DEF TypeOK, PromptRecord
<1>2. ASSUME NEW p \in Prompts
      PROVE  /\ prompts'[p] \in PromptRecord
             /\ prompts'[p].at = prompts[p].at
  <2>1. prompts[p] \in PromptRecord
    BY <1>1
  <2>2. prompts'[p] = IF ~closed /\ prompts[p].reply = "pending"
                      THEN [prompts[p] EXCEPT !.reply = "error"] ELSE prompts[p]
    BY DEF FailPending
  <2> QED
    BY <2>1, <2>2 DEF PromptRecord
<1> QED
  BY <1>2 DEF FailPending

\* The invariant holds at the start.
LEMMA TypeInit == Init => IInv
<1> SUFFICES ASSUME Init PROVE IInv
  OBVIOUS
<1>1. << >> \in Seq(Bytes) /\ << >> \o << >> = << >> /\ Whole(<< >>)
      /\ DOMAIN << >> = {} /\ Len(<< >>) = 0
  BY DEF Whole
<1>2. TypeOK
  BY EventsAssumption DEF Init, TypeOK, Never, Numbers
<1>3. Rest(<< >>) = << >>
  BY <1>1, RestWhole
<1>4. LineEnds(<< >>) = {}
  BY <1>1 DEF LineEnds
<1>5. RecordEnds(<< >>) = {}
  BY <1>4 DEF RecordEnds
<1>6. Decoded(<< >>) = << >>
  <2>1. Len(Decoded(<< >>)) = 0 /\ Decoded(<< >>) \in Seq(Numbers)
    BY <1>1, <1>5, DecodedFacts, AscendingSmall
  <2> QED
    BY <2>1, EmptySeq
<1>7. Valid = << >>
  <2>1. {n \in DOMAIN written : Type(n) # "junk"} = {}
    BY <1>1 DEF Init
  <2> QED
    BY <2>1, AscendingSmall DEF Valid
<1>8. DeliveredInOrder
  BY <1>1, <1>2, <1>3, <1>6, <1>7 DEF Init, DeliveredInOrder
<1>9. HandlersSeeAll
  <2>1. Range(handlers) = {} /\ IsInjective(handlers) /\ ~Dispatching
    BY <1>1 DEF Init, Range, IsInjective, Dispatching
  <2>2. \A h \in Prompts \cup Subscribers : seen[h] = << >>
    BY DEF Init
  <2> QED
    BY <2>1, <2>2 DEF HandlersSeeAll, CalledOnce
<1>10. DialogsAnswered
  BY <1>1 DEF Init, DialogsAnswered, Range, IsInjective, Dispatching
<1> QED
  BY <1>8, <1>9, <1>10 DEF IInv

\* What the invariant says of the reader when it has something in hand.
LEMMA InHand ==
    IInv => /\ TypeOK
            /\ Dispatching => handled # << >> /\ Last(handled) \in Numbers
            /\ reader.at = "inHandler" => reader.todo # << >>
<1> SUFFICES ASSUME IInv
             PROVE  /\ TypeOK
                    /\ Dispatching => handled # << >> /\ Last(handled) \in Numbers
                    /\ reader.at = "inHandler" => reader.todo # << >>
  OBVIOUS
<1>1. TypeOK /\ CalledOnce
  BY DEF IInv, DeliveredInOrder, HandlersSeeAll
<1>2. Dispatching => handled # << >>
  BY <1>1 DEF CalledOnce
<1>3. handled # << >> => Last(handled) \in Numbers
  <2>1. handled \in Seq(Numbers)
    BY <1>1 DEF TypeOK
  <2>2. handled # << >> => Len(handled) \in 1..Len(handled)
    BY <2>1, EmptySeq
  <2> QED
    BY <2>1, <2>2, ElementOfSeq DEF Last
<1> QED
  BY <1>1, <1>2, <1>3 DEF CalledOnce, Dispatching

\* on_event() keeps the types.
LEMMA InstallType ==
    ASSUME TypeOK, NEW h \in Prompts \cup Subscribers, Install(h)
    PROVE  /\ handlers' \in Seq(Prompts \cup Subscribers)
           /\ base' \in [Prompts \cup Subscribers -> Nat]
BY DEF TypeOK, Install

\* ... and so does its unsubscribe.
LEMMA UninstallType ==
    ASSUME IInv, NEW h, Uninstall(h)
    PROVE  handlers' \in Seq(Prompts \cup Subscribers)
<1>1. handlers \in Seq(Prompts \cup Subscribers) /\ IsInjective(handlers)
  BY DEF IInv, DeliveredInOrder, TypeOK, HandlersSeeAll, CalledOnce
<1> QED
  BY <1>1, RemoveFacts DEF Uninstall

\* Every step keeps the types.
LEMMA TypeStep == IInv /\ [Next]_vars => TypeOK'
<1> SUFFICES ASSUME IInv, [Next]_vars PROVE TypeOK'
  OBVIOUS
<1>1. TypeOK
  BY InHand
<1>2. ASSUME NEW r \in Records, PiWrites(r) PROVE TypeOK'
  <2>1. Len(written) + 1 \in Numbers /\ Len(written') = Len(written) + 1
        /\ written' \in Seq(Records)
    BY <1>1, <1>2, EventsAssumption DEF TypeOK, PiWrites, Numbers
  <2>2. pipe' \in Seq(Bytes)
    <3>1. Encode(Len(written) + 1, r.type) \in Seq(Bytes)
      BY <2>1, EncodeFacts
    <3> QED
      BY <1>1, <1>2, <3>1, ConcatProperties DEF TypeOK, PiWrites
  <2> QED
    BY <1>1, <1>2, <2>1, <2>2
       DEF TypeOK, PiWrites, Numbers, readerVars, subVars
<1>3. CASE PiExits
  BY <1>1, <1>3 DEF TypeOK, PiExits, readerVars, subVars
<1>4. CASE ReadChunk
  <2>1. PICK size \in Chunks :
          LET k   == Min({size, Len(pipe)})
              fed == Feed(buffer, SubSeq(pipe, 1, k))
          IN  /\ pipe' = SubSeq(pipe, k + 1, Len(pipe))
              /\ buffer' = fed.buffer
              /\ IF fed.raised
                 THEN /\ reader' = [reader EXCEPT !.at = "dead"]
                      /\ FailPending
                 ELSE /\ reader' = [reader EXCEPT !.at = "record",
                                                  !.records = fed.records]
                      /\ UNCHANGED prompts
    BY <1>4 DEF ReadChunk
  <2> DEFINE k == Min({size, Len(pipe)})
             c == SubSeq(pipe, 1, k)
             q == SubSeq(pipe, k + 1, Len(pipe))
  <2>2. /\ q \in Seq(Bytes) /\ buffer \o c \in Seq(Bytes)
        /\ Rest(buffer \o c) \in Seq(Bytes)
        /\ Decoded(buffer \o c) \in Seq(Numbers)
    BY <1>1, <1>4, ChunkFacts DEF ReadChunk
  <2>3. pipe' \in Seq(Bytes) /\ buffer' \in Seq(Bytes)
    BY <2>1, <2>2 DEF Feed
  <2>4. reader' \in [at : {"read", "record", "handlers", "inHandler", "inUi",
                           "stopped", "dead"},
                     records : Seq(Numbers),
                     todo : Seq(Prompts \cup Subscribers)]
    BY <1>1, <2>1, <2>2 DEF Feed, TypeOK
  <2>5. prompts' \in [Prompts -> PromptRecord]
    BY <1>1, <2>1, FailPendingFacts DEF TypeOK, PromptRecord
  <2>6. UNCHANGED <<written, alive, handled, subVars, queue, waiters, closing,
                    answers>>
    BY <1>4 DEF ReadChunk
  <2> QED
    BY <1>1, <2>3, <2>4, <2>5, <2>6 DEF TypeOK, PromptRecord, subVars
<1>5. CASE ReadEof
  <2>1. prompts' \in [Prompts -> PromptRecord]
    BY <1>1, <1>5, FailPendingFacts DEF ReadEof
  <2> QED
    BY <1>1, <1>5, <2>1 DEF TypeOK, PromptRecord, ReadEof, piVars, subVars
<1>6. CASE ChunkDone
  BY <1>1, <1>6 DEF TypeOK, ChunkDone, piVars, subVars
<1>7. CASE HandleResponse
  <2>1. /\ reader.records \in Seq(Numbers) /\ reader.records # << >>
        /\ Head(reader.records) \in Numbers /\ Tail(reader.records) \in Seq(Numbers)
    BY <1>1, <1>7, TailFacts DEF TypeOK, HandleResponse, Handles
  <2>2. handled' \in Seq(Numbers)
    BY <1>1, <1>7, <2>1 DEF TypeOK, HandleResponse, Handles
  <2>3. prompts' \in [Prompts -> PromptRecord]
    <3>1. prompts \in [Prompts -> PromptRecord]
      BY <1>1 DEF TypeOK, PromptRecord
    <3> DEFINE x == written[Head(reader.records)].of
    <3>2. prompts' = [prompts EXCEPT ![x].reply =
                        IF @ = "pending" THEN "value" ELSE @]
      BY <1>7 DEF HandleResponse
    <3> HIDE DEF x
    <3>3. \A p \in Prompts : prompts'[p] \in PromptRecord
      BY <3>1, <3>2 DEF PromptRecord
    <3>4. prompts' = [p \in Prompts |-> prompts'[p]]
      BY <3>1, <3>2
    <3> QED
      BY <3>3, <3>4
  <2> QED
    BY <1>1, <1>7, <2>1, <2>2, <2>3
       DEF TypeOK, PromptRecord, HandleResponse, piVars, subVars
<1>8. CASE HandleEvent
  <2>1. /\ reader.records \in Seq(Numbers) /\ reader.records # << >>
        /\ Head(reader.records) \in Numbers /\ Tail(reader.records) \in Seq(Numbers)
    BY <1>1, <1>8, TailFacts DEF TypeOK, HandleEvent, Handles
  <2>2. handled' \in Seq(Numbers) /\ queue' \in Seq(Numbers)
    BY <1>1, <1>8, <2>1 DEF TypeOK, HandleEvent, Handles
  <2> QED
    BY <1>1, <1>8, <2>1, <2>2 DEF TypeOK, HandleEvent, piVars, subVars
<1>9. CASE CallHandler
  <2>1. /\ reader.todo \in Seq(Prompts \cup Subscribers) /\ reader.todo # << >>
        /\ Head(reader.todo) \in Prompts \cup Subscribers
        /\ Tail(reader.todo) \in Seq(Prompts \cup Subscribers)
    BY <1>1, <1>9, TailFacts DEF TypeOK, CallHandler
  <2>2. Last(handled) \in Numbers
    BY <1>9, InHand DEF CallHandler, Dispatching
  <2>3. seen' \in [Prompts \cup Subscribers -> Seq(Numbers)]
    BY <1>1, <1>9, <2>1, <2>2 DEF TypeOK, CallHandler
  <2>4. prompts' \in [Prompts -> PromptRecord]
    BY <1>1, <1>9 DEF TypeOK, CallHandler, PromptRecord
  <2> QED
    BY <1>1, <1>9, <2>1, <2>3, <2>4
       DEF TypeOK, PromptRecord, CallHandler, piVars
<1>10. CASE HandlerEnds
  <2>1. Tail(reader.todo) \in Seq(Prompts \cup Subscribers)
    BY <1>1, <1>10, InHand, TailFacts DEF TypeOK, HandlerEnds
  <2> QED
    BY <1>1, <1>10, <2>1 DEF TypeOK, HandlerEnds, piVars, subVars
<1>11. CASE DispatchDone
  BY <1>1, <1>11 DEF TypeOK, DispatchDone, piVars, subVars
<1>12. CASE AnswerDialog
  <2>1. Last(handled) \in Numbers
    BY <1>12, InHand DEF AnswerDialog, Dispatching
  <2>2. answers' \in Seq(Numbers)
    <3>1. answers \in Seq(Numbers) /\ Append(answers, Last(handled)) \in Seq(Numbers)
      BY <1>1, <2>1 DEF TypeOK
    <3>2. answers' = Append(answers, Last(handled)) \/ answers' = answers
      BY <1>12 DEF AnswerDialog
    <3> QED
      BY <3>1, <3>2
  <2>3. prompts' \in [Prompts -> PromptRecord]
    <3>1. CASE FailPending
      BY <1>1, <3>1, FailPendingFacts
    <3> QED
      BY <1>1, <1>12, <3>1 DEF TypeOK, AnswerDialog, PromptRecord
  <2> QED
    BY <1>1, <1>12, <2>2, <2>3
       DEF TypeOK, PromptRecord, AnswerDialog, piVars, subVars
<1>13. ASSUME NEW s \in Subscribers, Subscribe(s) PROVE TypeOK'
  <2>1. /\ handlers' \in Seq(Prompts \cup Subscribers)
        /\ base' \in [Prompts \cup Subscribers -> Nat]
    BY <1>1, <1>13, InstallType DEF Subscribe
  <2> QED
    BY <1>1, <1>13, <2>1 DEF TypeOK, Subscribe, piVars, readerVars
<1>14. ASSUME NEW s \in Subscribers, Unsubscribe(s) PROVE TypeOK'
  <2>1. handlers' \in Seq(Prompts \cup Subscribers)
    BY <1>14, UninstallType DEF Unsubscribe
  <2> QED
    BY <1>1, <1>14, <2>1 DEF TypeOK, Unsubscribe, piVars, readerVars
<1>15. ASSUME NEW p \in Prompts, BeginPrompt(p) PROVE TypeOK'
  <2>1. /\ handlers' \in Seq(Prompts \cup Subscribers)
        /\ base' \in [Prompts \cup Subscribers -> Nat]
    <3>1. CASE Install(p)
      BY <1>1, <3>1, InstallType
    <3> QED
      BY <1>1, <1>15, <3>1 DEF BeginPrompt, TypeOK
  <2>2. prompts' \in [Prompts -> PromptRecord]
    <3>1. prompts[p] \in PromptRecord /\ prompts \in [Prompts -> PromptRecord]
      BY <1>1 DEF TypeOK, PromptRecord
    <3>2. \/ prompts' = [prompts EXCEPT ![p] =
               [at |-> "response", reply |-> "pending", done |-> prompts[p].done]]
          \/ prompts' = [prompts EXCEPT ![p].at = "raised"]
      BY <1>15, <3>1 DEF BeginPrompt, PromptRecord
    <3> QED
      BY <3>1, <3>2 DEF PromptRecord
  <2> QED
    BY <1>1, <1>15, <2>1, <2>2
       DEF TypeOK, PromptRecord, BeginPrompt, piVars, readerVars
<1>16. ASSUME NEW p \in Prompts, PromptReplied(p) PROVE TypeOK'
  <2>1. handlers' \in Seq(Prompts \cup Subscribers)
    <3>1. CASE Uninstall(p)
      BY <3>1, UninstallType
    <3> QED
      BY <1>1, <1>16, <3>1 DEF PromptReplied, TypeOK
  <2>2. prompts' \in [Prompts -> PromptRecord]
    BY <1>1, <1>16 DEF TypeOK, PromptReplied, PromptRecord
  <2> QED
    BY <1>1, <1>16, <2>1, <2>2
       DEF TypeOK, PromptRecord, PromptReplied, piVars, readerVars
<1>17. ASSUME NEW p \in Prompts, PromptDone(p) PROVE TypeOK'
  <2>1. handlers' \in Seq(Prompts \cup Subscribers)
    BY <1>17, UninstallType DEF PromptDone
  <2>2. prompts' \in [Prompts -> PromptRecord]
    BY <1>1, <1>17 DEF TypeOK, PromptDone, PromptRecord
  <2> QED
    BY <1>1, <1>17, <2>1, <2>2
       DEF TypeOK, PromptRecord, PromptDone, piVars, readerVars
<1>18. ASSUME NEW p \in Prompts, PromptTimesOut(p) PROVE TypeOK'
  <2>1. handlers' \in Seq(Prompts \cup Subscribers)
    BY <1>18, UninstallType DEF PromptTimesOut
  <2>2. prompts' \in [Prompts -> PromptRecord]
    <3>1. prompts[p] \in PromptRecord /\ prompts \in [Prompts -> PromptRecord]
      BY <1>1 DEF TypeOK, PromptRecord
    <3>2. CASE prompts[p].reply = "pending"
      <4>1. prompts' = [prompts EXCEPT ![p] =
               [at |-> "raised", reply |-> "error", done |-> prompts[p].done]]
        BY <1>18, <3>1, <3>2 DEF PromptTimesOut, PromptRecord
      <4> QED
        BY <3>1, <4>1 DEF PromptRecord
    <3>3. CASE prompts[p].reply # "pending"
      <4>1. prompts' = [prompts EXCEPT ![p].at = "raised"]
        BY <1>18, <3>1, <3>3 DEF PromptTimesOut, PromptRecord
      <4> QED
        BY <3>1, <4>1 DEF PromptRecord
    <3> QED
      BY <3>2, <3>3
  <2> QED
    BY <1>1, <1>18, <2>1, <2>2
       DEF TypeOK, PromptRecord, PromptTimesOut, piVars, readerVars
<1>19. ASSUME NEW w \in Waiters,
              \/ BeginWait(w) \/ WaiterGets(w) \/ WaiterReturns(w)
              \/ WaiterSeesClose(w) \/ WaiterGivesUp(w)
       PROVE  TypeOK'
  <2>1. /\ UNCHANGED <<piVars, readerVars, subVars, prompts, closing, answers>>
        /\ waiters' \in [Waiters -> WaiterRecord] /\ queue' \in Seq(Numbers)
    <3>0. waiters \in [Waiters -> WaiterRecord]
      BY <1>1 DEF TypeOK, WaiterRecord
    <3>1. CASE BeginWait(w)
      BY <1>1, <3>0, <3>1 DEF TypeOK, WaiterRecord, BeginWait
    <3>2. CASE WaiterGets(w)
      <4>1. Head(queue) \in Numbers /\ Tail(queue) \in Seq(Numbers)
        BY <1>1, <3>2, TailFacts DEF TypeOK, WaiterGets
      <4> QED
        BY <3>0, <3>2, <4>1 DEF WaiterRecord, WaiterGets
    <3>3. CASE WaiterReturns(w)
      BY <1>1, <3>0, <3>3 DEF TypeOK, WaiterRecord, WaiterReturns
    <3>4. CASE WaiterSeesClose(w)
      BY <1>1, <3>0, <3>4 DEF TypeOK, WaiterRecord, WaiterSeesClose
    <3>5. CASE WaiterGivesUp(w)
      BY <1>1, <3>0, <3>5 DEF TypeOK, WaiterRecord, WaiterGivesUp
    <3> QED
      BY <1>19, <3>1, <3>2, <3>3, <3>4, <3>5
  <2> QED
    BY <1>1, <2>1 DEF TypeOK, WaiterRecord, piVars, readerVars, subVars
<1>20. CASE BeginClose
  BY <1>1, <1>20 DEF TypeOK, BeginClose, piVars, readerVars, subVars
<1>21. CASE CancelReader
  BY <1>1, <1>21 DEF TypeOK, CancelReader, subVars
<1>22. CASE FinishClose
  <2>1. prompts' \in [Prompts -> PromptRecord]
    BY <1>1, <1>22 DEF TypeOK, FinishClose, PromptRecord
  <2> QED
    BY <1>1, <1>22, <2>1
       DEF TypeOK, PromptRecord, FinishClose, piVars, readerVars, subVars
<1>23. CASE UNCHANGED vars
  BY <1>1, <1>23 DEF TypeOK, vars, piVars, readerVars, subVars
<1> QED
  BY <1>2, <1>3, <1>4, <1>5, <1>6, <1>7, <1>8, <1>9, <1>10, <1>11, <1>12,
     <1>13, <1>14, <1>15, <1>16, <1>17, <1>18, <1>19, <1>20, <1>21, <1>22,
     <1>23 DEF Next, ReaderStep, PromptStep, CloseStep

-----------------------------------------------------------------------------
(* The order of the records.                                               *)

\* What pi wrote is ascending, and so is what was handled of it; what comes
\* next is larger.
LEMMA OrderFacts ==
    IInv => /\ handled \in Seq(Nat) /\ Increasing(handled) /\ IsInjective(handled)
            /\ Range(handled) \subseteq DOMAIN written
            /\ DOMAIN written = 1..Len(written) /\ Len(written) \in Nat
            /\ Valid \in Seq(Nat)
            /\ reader.records # << >> =>
                 /\ Head(reader.records) \in DOMAIN written
                 /\ Type(Head(reader.records)) # "junk"
                 /\ \A x \in Range(handled) : x < Head(reader.records)
<1> SUFFICES ASSUME IInv
             PROVE  /\ handled \in Seq(Nat) /\ Increasing(handled)
                    /\ IsInjective(handled)
                    /\ Range(handled) \subseteq DOMAIN written
                    /\ DOMAIN written = 1..Len(written) /\ Len(written) \in Nat
                    /\ Valid \in Seq(Nat)
                    /\ reader.records # << >> =>
                         /\ Head(reader.records) \in DOMAIN written
                         /\ Type(Head(reader.records)) # "junk"
                         /\ \A x \in Range(handled) : x < Head(reader.records)
  OBVIOUS
<1> DEFINE s == reader.records
           d == Decoded(buffer \o pipe)
           W == {n \in DOMAIN written : Type(n) # "junk"}
<1>1. /\ TypeOK /\ handled \o s \o d = Valid
  BY DEF IInv, DeliveredInOrder
<1>2. /\ handled \in Seq(Numbers) /\ s \in Seq(Numbers)
      /\ DOMAIN written = 1..Len(written) /\ Len(written) \in Nat
  BY <1>1 DEF TypeOK
<1>3. Numbers \subseteq Nat
  BY DEF Numbers
<1>4. /\ handled \in Seq(Nat) /\ s \in Seq(Nat) /\ d \in Seq(Nat)
  BY <1>1, <1>2, <1>3, BytesFacts, SeqMonotonic
<1> HIDE DEF s, d, W
<1>5. W \subseteq 1..Len(written) /\ W \subseteq Nat /\ IsFiniteSet(W)
  <2>1. W \subseteq 1..Len(written)
    BY <1>2 DEF W
  <2>2. IsFiniteSet(1..Len(written)) /\ 1..Len(written) \subseteq Nat
    BY <1>2, FS_Interval
  <2> QED
    BY <2>1, <2>2, FS_Subset
<1>6. Valid \in Seq(Nat) /\ Increasing(Valid) /\ Range(Valid) = W
  BY <1>5, AscendingFacts DEF Valid, W
<1>7. handled \o s \in Seq(Nat) /\ s \o d \in Seq(Nat)
      /\ handled \o (s \o d) = Valid
  <2>1. (handled \o s) \o d = handled \o (s \o d)
    BY <1>4, ConcatAssociative
  <2>2. handled \o s \in Seq(Nat) /\ s \o d \in Seq(Nat)
    BY <1>4, ConcatProperties
  <2> QED
    BY <1>1, <2>1, <2>2 DEF s, d
<1>8. Range(Valid) = Range(handled) \cup (Range(s) \cup Range(d))
  <2>1. Range(handled \o (s \o d)) = Range(handled) \cup Range(s \o d)
    <3>1. PICK t : t = s \o d
      OBVIOUS
    <3>2. t \in Seq(Nat) /\ handled \in Seq(Nat)
      BY <1>4, <1>7, <3>1
    <3>3. Range(handled \o t) = Range(handled) \cup Range(t)
      BY <3>2, RangeConcatenation
    <3> QED
      BY <3>1, <3>3
  <2>2. Range(s \o d) = Range(s) \cup Range(d)
    BY <1>4, RangeConcatenation
  <2> QED
    BY <1>7, <2>1, <2>2
<1>9. Increasing(handled) /\ \A x \in Range(handled), y \in Range(s \o d) : x < y
  BY <1>4, <1>6, <1>7, IncreasingPrefix
<1>10. Range(handled) \subseteq DOMAIN written
  BY <1>6, <1>8 DEF W
<1>11. IsInjective(handled)
  <2>1. \A a \in 1..Len(handled) : handled[a] \in Nat
    BY <1>4, ElementOfSeq
  <2>2. ASSUME NEW a \in 1..Len(handled), NEW b \in 1..Len(handled),
               handled[a] = handled[b]
        PROVE  a = b
    <3>1. (a < b => handled[a] < handled[b]) /\ (b < a => handled[b] < handled[a])
      BY <1>9 DEF Increasing
    <3>2. handled[a] \in Nat /\ handled[b] \in Nat
      BY <2>1
    <3>3. Len(handled) \in Nat
      BY <1>4
    <3> QED
      BY <2>2, <3>1, <3>2, <3>3
  <2>3. DOMAIN handled = 1..Len(handled)
    BY <1>4
  <2> QED
    BY <2>2, <2>3 DEF IsInjective
<1>12. ASSUME s # << >>
       PROVE  /\ Head(s) \in W
              /\ \A x \in Range(handled) : x < Head(s)
  <2>1. Head(s) \in Range(s)
    BY <1>4, <1>12, TailFacts DEF Range
  <2>2. Head(s) \in Range(s \o d)
    BY <1>4, <2>1, RangeConcatenation
  <2> QED
    BY <1>6, <1>8, <1>9, <2>1, <2>2
<1> QED
  BY <1>2, <1>4, <1>6, <1>9, <1>10, <1>11, <1>12 DEF s, W

\* What pi writes is appended to what is valid.
LEMMA WriteValid ==
    ASSUME IInv, NEW r \in Records, PiWrites(r)
    PROVE  LET n == Len(written) + 1 IN
           /\ n \in Numbers
           /\ \A m \in DOMAIN written : Type(m)' = Type(m)
           /\ Valid' = Valid \o IF r.type = "junk" THEN << >> ELSE <<n>>
<1> DEFINE W == {m \in DOMAIN written : Type(m) # "junk"}
<1>0. PICK n : n = Len(written) + 1
  OBVIOUS
<1>1. written \in Seq(Records) /\ Len(written) \in Nat
      /\ DOMAIN written = 1..Len(written) /\ Len(written) < MaxWrites
  BY InHand, EventsAssumption DEF TypeOK, PiWrites
<1>2. n \in Numbers /\ n \in Nat
  BY <1>0, <1>1, EventsAssumption DEF Numbers
<1>3. /\ written' = Append(written, r) /\ DOMAIN written' = 1..n
      /\ \A m \in 1..Len(written) : written'[m] = written[m]
      /\ written'[n] = r
  BY <1>0, <1>1 DEF PiWrites
<1>4. \A m \in DOMAIN written : Type(m)' = Type(m)
  BY <1>1, <1>3 DEF Type
<1>5. Type(n)' = r.type
  BY <1>3 DEF Type
<1>6. {m \in DOMAIN written' : Type(m)' # "junk"} =
        IF r.type = "junk" THEN W ELSE W \cup {n}
  <2>1. DOMAIN written' = DOMAIN written \cup {n}
    BY <1>0, <1>1, <1>3
  <2> QED
    BY <1>4, <1>5, <2>1
<1>7. W \subseteq Nat /\ IsFiniteSet(W) /\ \A x \in W : x < n
  <2>1. W \subseteq 1..Len(written)
    BY <1>1
  <2>2. IsFiniteSet(1..Len(written)) /\ 1..Len(written) \subseteq Nat
        /\ \A x \in 1..Len(written) : x < n
    <3>1. Len(written) \in Int
      BY <1>1
    <3>2. IsFiniteSet(1..Len(written))
      BY <3>1, FS_Interval
    <3>3. \A x \in 1..Len(written) : x < n
      BY <1>0, <3>1
    <3> QED
      BY <3>2, <3>3
  <2> HIDE DEF W
  <2> QED
    BY <2>1, <2>2, FS_Subset
<1>8. Valid' = Ascending(IF r.type = "junk" THEN W ELSE W \cup {n})
  BY <1>6 DEF Valid
<1>9. Valid = Ascending(W) /\ Valid \in Seq(Nat)
  BY OrderFacts DEF Valid
<1> HIDE DEF W
<1>10. Valid' = Valid \o IF r.type = "junk" THEN << >> ELSE <<n>>
  <2>1. CASE r.type = "junk"
    BY <1>8, <1>9, <2>1, ConcatEmptySeq
  <2>2. CASE r.type # "junk"
    <3>1. Valid' = Append(Ascending(W), n)
      BY <1>2, <1>7, <1>8, <2>2, AscendingAppend
    <3> QED
      BY <1>2, <1>9, <2>2, <3>1, AppendIsConcat
  <2> QED
    BY <2>1, <2>2
<1> QED
  BY <1>0, <1>2, <1>4, <1>10

\* What pi writes is in the bytes to come, behind the rest.
LEMMA WriteDelivered ==
    ASSUME IInv, NEW r \in Records, PiWrites(r)
    PROVE  /\ (handled \o reader.records \o Decoded(buffer \o pipe) = Valid)'
           /\ (Rest(buffer \o pipe) = << >>)'
<1> DEFINE n == Len(written) + 1
           enc == Encode(n, r.type)
           x == IF r.type = "junk" THEN << >> ELSE <<n>>
           all == buffer \o pipe
           D == Decoded(all)
<1>1. /\ TypeOK /\ handled \o reader.records \o D = Valid /\ Rest(all) = << >>
  BY DEF IInv, DeliveredInOrder
<1>2. n \in Numbers /\ Valid' = Valid \o x
  BY WriteValid
<1>3. enc \in Seq(Bytes) /\ Whole(enc) /\ Decoded(enc) = x
  BY <1>2, EncodeFacts
<1>4. /\ buffer \in Seq(Bytes) /\ pipe \in Seq(Bytes) /\ handled \in Seq(Numbers)
      /\ reader.records \in Seq(Numbers)
  BY <1>1 DEF TypeOK
<1>5. all \in Seq(Bytes) /\ D \in Seq(Numbers)
  BY <1>1, BytesFacts
<1>6. pipe' = pipe \o enc /\ buffer' = buffer /\ UNCHANGED <<reader, handled>>
  BY DEF PiWrites, readerVars
<1> HIDE DEF enc, x
<1>7. (buffer \o pipe)' = all \o enc
  BY <1>3, <1>4, <1>6, ConcatAssociative
<1>8. Whole(all)
  BY <1>1, <1>5, RestWhole
<1> HIDE DEF all
<1>9. Decoded(all \o enc) = D \o x /\ Rest(all \o enc) = Rest(enc)
  BY <1>3, <1>5, <1>8, DecodedConcat
<1>10. Rest(enc) = << >>
  BY <1>3, RestWhole
<1> HIDE DEF D
<1>11. handled \o reader.records \o (D \o x) = Valid \o x
  <2>1. x \in Seq(Numbers)
    BY <1>2 DEF x
  <2>2. handled \o reader.records \in Seq(Numbers)
    BY <1>4, ConcatProperties
  <2> QED
    <3>1. ((handled \o reader.records) \o D) \o x
          = (handled \o reader.records) \o (D \o x)
      <4>1. PICK hs : hs = handled \o reader.records
        OBVIOUS
      <4>2. hs \in Seq(Numbers)
        BY <2>2, <4>1
      <4>3. (hs \o D) \o x = hs \o (D \o x)
        BY <1>5, <2>1, <4>2, ConcatAssociative
      <4> QED
        BY <4>1, <4>3
    <3> QED
      BY <1>1, <3>1
<1> QED
  BY <1>2, <1>6, <1>7, <1>9, <1>10, <1>11

\* Handling a record moves it from what is in hand to what is handled.
LEMMA HandleDelivered ==
    ASSUME NEW h \in Seq(Numbers), NEW s \in Seq(Numbers), s # << >>
    PROVE  Append(h, Head(s)) \o Tail(s) = h \o s
<1>1. Head(s) \in Numbers /\ Tail(s) \in Seq(Numbers)
  BY HeadTailProperties
<1>2. <<Head(s)>> \o Tail(s) = s
  <2>1. /\ Len(s) \in Nat \ {0} /\ Len(Tail(s)) = Len(s) - 1
        /\ Head(s) = s[1] /\ \A i \in 1..Len(Tail(s)) : Tail(s)[i] = s[i + 1]
    BY TailFacts
  <2>2. <<Head(s)>> \in Seq(Numbers) /\ Len(<<Head(s)>>) = 1
    BY <1>1
  <2>3. /\ <<Head(s)>> \o Tail(s) \in Seq(Numbers)
        /\ Len(<<Head(s)>> \o Tail(s)) = 1 + (Len(s) - 1)
        /\ \A i \in 1..(1 + (Len(s) - 1)) : (<<Head(s)>> \o Tail(s))[i] =
             IF i <= 1 THEN <<Head(s)>>[i] ELSE Tail(s)[i - 1]
    BY <1>1, <2>1, <2>2, ConcatProperties
  <2>4. 1 + (Len(s) - 1) = Len(s)
    BY <2>1
  <2>5. ASSUME NEW i \in 1..Len(s)
        PROVE  (<<Head(s)>> \o Tail(s))[i] = s[i]
    <3>1. CASE i = 1
      BY <2>1, <2>3, <2>4, <3>1
    <3>2. CASE i # 1
      <4>1. i - 1 \in 1..Len(Tail(s)) /\ (i - 1) + 1 = i /\ ~(i <= 1)
        BY <2>1, <3>2
      <4> QED
        BY <2>1, <2>3, <2>4, <4>1
    <3> QED
      BY <3>1, <3>2
  <2> QED
    BY <2>3, <2>4, <2>5, SeqEqual
<1>3. Append(h, Head(s)) = h \o <<Head(s)>>
  BY <1>1, AppendIsConcat
<1>4. <<Head(s)>> \in Seq(Numbers)
  BY <1>1
<1> QED
  BY <1>1, <1>2, <1>3, <1>4, ConcatAssociative

\* What a read decodes goes from the bytes to the records in hand.
LEMMA ReadDelivered ==
    ASSUME IInv, ReadChunk
    PROVE  /\ (handled \o reader.records \o Decoded(buffer \o pipe) = Valid)'
           /\ (Rest(buffer \o pipe) = << >>)'
           /\ reader'.at \in {"record", "dead"}
           /\ reader'.at = "dead" => Len(buffer') > MaxBuffer
<1>1. /\ TypeOK /\ handled \o reader.records \o Decoded(buffer \o pipe) = Valid
      /\ Rest(buffer \o pipe) = << >>
      /\ reader.records = << >>
  BY DEF IInv, DeliveredInOrder, ReadChunk
<1>2. PICK size \in Chunks :
        LET k   == Min({size, Len(pipe)})
            fed == Feed(buffer, SubSeq(pipe, 1, k))
        IN  /\ pipe' = SubSeq(pipe, k + 1, Len(pipe))
            /\ buffer' = fed.buffer
            /\ IF fed.raised
               THEN /\ reader' = [reader EXCEPT !.at = "dead"]
                    /\ FailPending
               ELSE /\ reader' = [reader EXCEPT !.at = "record",
                                                !.records = fed.records]
                    /\ UNCHANGED prompts
  BY DEF ReadChunk
<1> DEFINE k == Min({size, Len(pipe)})
           c == SubSeq(pipe, 1, k)
           q == SubSeq(pipe, k + 1, Len(pipe))
           a == buffer \o c
<1>3. /\ q \in Seq(Bytes) /\ a \in Seq(Bytes) /\ buffer \o pipe = a \o q
      /\ Rest(a) \in Seq(Bytes) /\ Decoded(a) \in Seq(Numbers)
  BY <1>1, ChunkFacts DEF ReadChunk
<1>4. /\ pipe' = q
      /\ \/ /\ Len(a) > MaxBuffer /\ buffer' = a
            /\ reader' = [reader EXCEPT !.at = "dead"]
         \/ /\ buffer' = Rest(a)
            /\ reader' = [reader EXCEPT !.at = "record", !.records = Decoded(a)]
  BY <1>2 DEF Feed
<1>5. reader.records \in Seq(Numbers) /\ handled \in Seq(Numbers)
  BY <1>1 DEF TypeOK
<1>6. reader \in [at : {"read", "record", "handlers", "inHandler", "inUi",
                        "stopped", "dead"},
                  records : Seq(Numbers), todo : Seq(Prompts \cup Subscribers)]
  BY <1>1 DEF TypeOK
<1>7. handled' = handled /\ Valid' = Valid
  BY DEF ReadChunk, Valid, Type
<1> HIDE DEF a, q
<1>8. handled \o Decoded(a \o q) = Valid /\ Rest(a \o q) = << >>
  BY <1>1, <1>3, <1>5, ConcatEmptySeq
<1>9. CASE Len(a) > MaxBuffer /\ buffer' = a
           /\ reader' = [reader EXCEPT !.at = "dead"]
  <2>1. reader'.at = "dead" /\ reader'.records = << >>
    BY <1>1, <1>6, <1>9
  <2>2. handled \o << >> = handled
    BY <1>5, ConcatEmptySeq
  <2> QED
    BY <1>4, <1>7, <1>8, <1>9, <2>1, <2>2
<1>10. CASE buffer' = Rest(a)
            /\ reader' = [reader EXCEPT !.at = "record", !.records = Decoded(a)]
  <2>1. reader'.at = "record" /\ reader'.records = Decoded(a)
    BY <1>6, <1>10
  <2>2. Decoded(a \o q) = Decoded(a) \o Decoded(Rest(a) \o q)
        /\ Rest(a \o q) = Rest(Rest(a) \o q)
    BY <1>3, FeedInPieces
  <2>3. Rest(a) \o q \in Seq(Bytes)
    BY <1>3, ConcatProperties
  <2>4. Decoded(Rest(a) \o q) \in Seq(Numbers)
    BY <2>3, DecodedFacts
  <2>5. handled \o (Decoded(a) \o Decoded(Rest(a) \o q))
        = (handled \o Decoded(a)) \o Decoded(Rest(a) \o q)
    <3>1. PICK d, e : d = Decoded(a) /\ e = Decoded(Rest(a) \o q)
      OBVIOUS
    <3>2. d \in Seq(Numbers) /\ e \in Seq(Numbers)
      BY <1>3, <2>4, <3>1
    <3>3. handled \o (d \o e) = (handled \o d) \o e
      BY <1>5, <3>2, ConcatAssociative
    <3> QED
      BY <3>1, <3>3
  <2> QED
    BY <1>4, <1>7, <1>8, <1>10, <2>1, <2>2, <2>5
<1> QED
  BY <1>4, <1>9, <1>10

\* The reader handles a record: the rest stays as it is.
LEMMA HandlesFacts ==
    ASSUME IInv, NEW types, Handles(types),
           UNCHANGED <<piVars, buffer>>, reader'.records = Tail(reader.records)
    PROVE  (handled \o reader.records \o Decoded(buffer \o pipe) = Valid)'
<1>1. /\ TypeOK /\ handled \o reader.records \o Decoded(buffer \o pipe) = Valid
  BY DEF IInv, DeliveredInOrder
<1>2. handled \in Seq(Numbers) /\ reader.records \in Seq(Numbers)
      /\ reader.records # << >>
      /\ handled' = Append(handled, Head(reader.records))
  BY <1>1 DEF TypeOK, Handles
<1>3. handled' \o reader'.records = handled \o reader.records
  BY <1>2, HandleDelivered
<1>4. Valid' = Valid /\ pipe' = pipe /\ buffer' = buffer
  BY DEF Valid, Type, piVars
<1> QED
  BY <1>1, <1>3, <1>4

\* Every step keeps the order of the records.
LEMMA DeliveredStep == IInv /\ [Next]_vars => DeliveredInOrder'
<1> SUFFICES ASSUME IInv, [Next]_vars PROVE DeliveredInOrder'
  OBVIOUS
<1>1. /\ TypeOK /\ TypeOK' /\ DeliveredInOrder /\ CalledOnce
  BY TypeStep DEF IInv, DeliveredInOrder, HandlersSeeAll
<1>2. reader \in [at : {"read", "record", "handlers", "inHandler", "inUi",
                        "stopped", "dead"},
                  records : Seq(Numbers), todo : Seq(Prompts \cup Subscribers)]
  BY <1>1 DEF TypeOK
<1>3. ASSUME NEW r \in Records, PiWrites(r) PROVE DeliveredInOrder'
  <2>1. UNCHANGED <<reader, buffer, handled, alive>>
    BY <1>3 DEF PiWrites, readerVars
  <2>2. handled # << >> => Type(Last(handled))' = Type(Last(handled))
    <3>1. handled # << >> => Last(handled) \in Range(handled)
      <4>1. handled # << >> => Len(handled) \in 1..Len(handled)
                               /\ DOMAIN handled = 1..Len(handled)
        BY OrderFacts, EmptySeq
      <4> QED
        BY <4>1 DEF Last, Range
    <3>2. handled # << >> => Last(handled) \in DOMAIN written
      BY <3>1, OrderFacts
    <3>3. PICK m : m = Last(handled)
      OBVIOUS
    <3>4. Last(handled)' = m
      BY <2>1, <3>3
    <3> QED
      BY <1>3, <2>1, <3>2, <3>3, <3>4, WriteValid DEF Type
  <2> QED
    BY <1>1, <1>3, <2>1, <2>2, WriteDelivered DEF DeliveredInOrder
<1>4. CASE ReadChunk
  <2>1. /\ (handled \o reader.records \o Decoded(buffer \o pipe) = Valid)'
        /\ (Rest(buffer \o pipe) = << >>)'
        /\ reader'.at \in {"record", "dead"}
        /\ reader'.at = "dead" => Len(buffer') > MaxBuffer
    BY <1>4, ReadDelivered
  <2> QED
    BY <1>1, <2>1 DEF DeliveredInOrder
<1>5. CASE HandleResponse
  <2>1. /\ UNCHANGED <<piVars, buffer>> /\ reader'.at = "record"
        /\ reader'.records = Tail(reader.records)
    BY <1>2, <1>5 DEF HandleResponse, Handles
  <2>2. (handled \o reader.records \o Decoded(buffer \o pipe) = Valid)'
    BY <1>5, <2>1, HandlesFacts DEF HandleResponse
  <2> QED
    BY <1>1, <2>1, <2>2 DEF DeliveredInOrder, piVars
<1>6. CASE HandleEvent
  <2>1. /\ UNCHANGED <<piVars, buffer>> /\ reader'.at = "handlers"
        /\ reader'.records = Tail(reader.records)
    BY <1>2, <1>6 DEF HandleEvent
  <2>2. (handled \o reader.records \o Decoded(buffer \o pipe) = Valid)'
    BY <1>6, <2>1, HandlesFacts DEF HandleEvent
  <2> QED
    BY <1>1, <2>1, <2>2 DEF DeliveredInOrder, piVars
<1>7. CASE CancelReader
  BY <1>1, <1>2, <1>7 DEF DeliveredInOrder, CancelReader, Valid, Type
<1>8. CASE PiExits
  BY <1>1, <1>8 DEF DeliveredInOrder, PiExits, readerVars, Valid, Type
<1>9. ASSUME UNCHANGED <<piVars, buffer, handled>>,
             reader'.records = reader.records,
             reader'.at = "read" => reader.records = << >>,
             reader'.at = "dead" /\ reader.at # "dead" =>
               handled # << >> /\ Type(Last(handled)) = "dialog"
      PROVE  DeliveredInOrder'
  <2>1. Valid' = Valid /\ Type(Last(handled))' = Type(Last(handled))
        /\ UNCHANGED <<written, pipe, alive, buffer, handled>>
    BY <1>9 DEF piVars, Valid, Type
  <2> QED
    BY <1>1, <1>9, <2>1 DEF DeliveredInOrder
<1>10. CASE ReadEof
  BY <1>2, <1>9, <1>10 DEF ReadEof
<1>11. CASE ChunkDone
  BY <1>2, <1>9, <1>11 DEF ChunkDone
<1>12. CASE CallHandler
  BY <1>2, <1>9, <1>12 DEF CallHandler
<1>13. CASE HandlerEnds
  BY <1>2, <1>9, <1>13 DEF HandlerEnds
<1>14. CASE DispatchDone
  <2>1. reader'.records = reader.records /\ reader'.at \in {"inUi", "record"}
    BY <1>2, <1>14 DEF DispatchDone
  <2> QED
    BY <1>9, <1>14, <2>1 DEF DispatchDone
<1>15. CASE AnswerDialog
  <2>1. handled # << >> /\ Type(Last(handled)) = "dialog"
    BY <1>1, <1>15 DEF AnswerDialog, CalledOnce, Dispatching
  <2> QED
    BY <1>2, <1>9, <1>15, <2>1 DEF AnswerDialog
<1>16. ASSUME UNCHANGED <<piVars, readerVars>> PROVE DeliveredInOrder'
  BY <1>1, <1>9, <1>16 DEF readerVars, DeliveredInOrder
<1>17. ASSUME NEW s \in Subscribers, Subscribe(s) \/ Unsubscribe(s)
       PROVE  DeliveredInOrder'
  BY <1>16, <1>17 DEF Subscribe, Unsubscribe
<1>18. ASSUME NEW p \in Prompts, PromptStep(p) \/ PromptTimesOut(p)
       PROVE  DeliveredInOrder'
  BY <1>16, <1>18 DEF PromptStep, BeginPrompt, PromptReplied, PromptDone,
                      PromptTimesOut
<1>19. ASSUME NEW w \in Waiters,
              \/ BeginWait(w) \/ WaiterGets(w) \/ WaiterReturns(w)
              \/ WaiterSeesClose(w) \/ WaiterGivesUp(w)
       PROVE  DeliveredInOrder'
  BY <1>16, <1>19 DEF BeginWait, WaiterGets, WaiterReturns, WaiterSeesClose,
                      WaiterGivesUp
<1>20. CASE BeginClose \/ FinishClose
  BY <1>16, <1>20 DEF BeginClose, FinishClose
<1>21. CASE UNCHANGED vars
  BY <1>16, <1>21 DEF vars
<1> QED
  BY <1>3, <1>4, <1>5, <1>6, <1>7, <1>8, <1>10, <1>11, <1>12, <1>13, <1>14,
     <1>15, <1>17, <1>18, <1>19, <1>20, <1>21 DEF Next, ReaderStep, CloseStep

-----------------------------------------------------------------------------
(* The handlers.                                                           *)

\* No more is handled than was written.
LEMMA HandledBound == IInv => Len(handled) \in Nat /\ Len(handled) <= MaxWrites
<1> SUFFICES ASSUME IInv PROVE Len(handled) \in Nat /\ Len(handled) <= MaxWrites
  OBVIOUS
<1>1. /\ handled \in Seq(Nat) /\ Increasing(handled)
      /\ Range(handled) \subseteq 1..Len(written) /\ Len(written) \in Nat
  BY OrderFacts
<1>2. IsFiniteSet(1..Len(written)) /\ Cardinality(1..Len(written)) = Len(written)
  <2>1. PICK n \in Nat : n = Len(written)
    BY <1>1
  <2>2. IsFiniteSet(1..n) /\ Cardinality(1..n) = IF 1 > n THEN 0 ELSE n - 1 + 1
    BY FS_Interval
  <2> QED
    BY <2>1, <2>2
<1>3. Cardinality(Range(handled)) <= Len(written)
  BY <1>1, <1>2, FS_Subset
<1>4. Cardinality(Range(handled)) = Len(handled)
  BY <1>1, IncreasingRanks
<1>5. Len(written) <= MaxWrites
  BY InHand DEF TypeOK
<1>6. Len(handled) \in Nat
  BY <1>1
<1> QED
  BY <1>1, <1>3, <1>4, <1>5, <1>6, EventsAssumption

\* What was handled stays, and so does its type.
LEMMA Kept ==
    ASSUME IInv, [Next]_vars
    PROVE  /\ \/ handled' = handled
              \/ /\ reader.records # << >>
                 /\ handled' = Append(handled, Head(reader.records))
           /\ Len(handled) \in Nat /\ Len(handled') \in Nat
           /\ Len(handled) <= Len(handled')
           /\ \A k \in 1..Len(handled) :
                /\ handled'[k] = handled[k]
                /\ handled[k] \in DOMAIN written
           /\ \A n \in DOMAIN written : n \in DOMAIN written' /\ Type(n)' = Type(n)
<1>1. TypeOK
  BY InHand
<1>2. \/ handled' = handled
      \/ /\ reader.records # << >>
         /\ handled' = Append(handled, Head(reader.records))
  BY DEF Next, ReaderStep, CloseStep, PromptStep, vars, readerVars, piVars,
         PiWrites, PiExits, ReadChunk, ReadEof, ChunkDone, HandleResponse,
         HandleEvent, Handles, CallHandler, HandlerEnds, DispatchDone,
         AnswerDialog, Subscribe, Unsubscribe, BeginPrompt, PromptReplied,
         PromptDone, PromptTimesOut, BeginWait, WaiterGets, WaiterReturns,
         WaiterSeesClose, WaiterGivesUp, BeginClose, CancelReader, FinishClose
<1>3. written' = written \/ \E r \in Records : PiWrites(r)
  BY DEF Next, ReaderStep, CloseStep, PromptStep, vars, piVars,
         PiExits, ReadChunk, ReadEof, ChunkDone, HandleResponse,
         HandleEvent, CallHandler, HandlerEnds, DispatchDone,
         AnswerDialog, Subscribe, Unsubscribe, BeginPrompt, PromptReplied,
         PromptDone, PromptTimesOut, BeginWait, WaiterGets, WaiterReturns,
         WaiterSeesClose, WaiterGivesUp, BeginClose, CancelReader, FinishClose
<1>4. \A n \in DOMAIN written : n \in DOMAIN written' /\ Type(n)' = Type(n)
  <2>1. CASE written' = written
    BY <2>1 DEF Type
  <2>2. ASSUME NEW r \in Records, PiWrites(r)
        PROVE  \A n \in DOMAIN written : n \in DOMAIN written' /\ Type(n)' = Type(n)
    <3>1. \A n \in DOMAIN written : Type(n)' = Type(n)
      BY <2>2, WriteValid
    <3>2. \A n \in DOMAIN written : n \in DOMAIN written'
      BY <1>1, <2>2, AppendFacts DEF TypeOK, PiWrites
    <3> QED
      BY <3>1, <3>2
  <2> QED
    BY <1>3, <2>1, <2>2
<1>5. handled \in Seq(Numbers) /\ reader.records \in Seq(Numbers)
  BY <1>1 DEF TypeOK
<1>6. /\ Len(handled) \in Nat /\ Len(handled') \in Nat
      /\ Len(handled) <= Len(handled')
      /\ \A k \in 1..Len(handled) : handled'[k] = handled[k]
  <2>1. CASE handled' = handled
    BY <1>5, <2>1
  <2>2. CASE reader.records # << >> /\ handled' = Append(handled, Head(reader.records))
    <3>1. Head(reader.records) \in Numbers
      BY <1>5, <2>2, HeadTailProperties
    <3> QED
      BY <1>5, <2>2, <3>1, AppendProperties
  <2> QED
    BY <1>2, <2>1, <2>2
<1>7. \A k \in 1..Len(handled) : handled[k] \in DOMAIN written
  <2>1. \A k \in 1..Len(handled) : handled[k] \in Range(handled)
    BY <1>5 DEF Range
  <2> QED
    BY <2>1, OrderFacts
<1> QED
  BY <1>2, <1>4, <1>6, <1>7

\* The handlers change by on_event() of one that was never there, and by the
\* removal of one; neither touches the reader.
LEMMA HandlersChange ==
    ASSUME IInv, [Next]_vars
    PROVE  \/ UNCHANGED <<handlers, base>>
           \/ /\ UNCHANGED <<written, reader, handled, seen>>
              /\ \E h \in Prompts \cup Subscribers :
                   ~Installed(h) /\ Install(h) /\ Installed(h)'
           \/ /\ UNCHANGED <<written, reader, handled, seen, base>>
              /\ \E h \in Prompts \cup Subscribers : Uninstall(h)
<1>0. TypeOK
  BY InHand
<1>1. ASSUME NEW s \in Subscribers, Subscribe(s)
      PROVE  ~Installed(s) /\ Install(s) /\ Installed(s)'
             /\ UNCHANGED <<written, reader, handled, seen>>
  <2>1. s \notin Prompts /\ Install(s) /\ base[s] = Never
        /\ UNCHANGED <<written, reader, handled, seen>>
    BY <1>1, EventsAssumption DEF Subscribe, piVars, readerVars
  <2>2. base'[s] = Len(handled)
    BY <1>0, <2>1 DEF Install, TypeOK
  <2>3. Len(handled) # Never
    BY HandledBound, EventsAssumption DEF Never
  <2> QED
    BY <2>1, <2>2, <2>3 DEF Installed, Never
<1>2. ASSUME NEW p \in Prompts, BeginPrompt(p)
      PROVE  \/ UNCHANGED <<handlers, base>>
             \/ ~Installed(p) /\ Install(p) /\ Installed(p)'
                /\ UNCHANGED <<written, reader, handled, seen>>
  <2>1. CASE Install(p) /\ prompts' = [prompts EXCEPT ![p].at = "response",
                                                      ![p].reply = "pending"]
    <3>1. prompts'[p].at = "response"
      BY <1>0, <2>1 DEF TypeOK
    <3> QED
      BY <1>2, <2>1, <3>1 DEF BeginPrompt, Installed, piVars, readerVars
  <2> QED
    BY <1>2, <2>1 DEF BeginPrompt
<1>3. ASSUME NEW s \in Subscribers, Unsubscribe(s)
      PROVE  Uninstall(s) /\ UNCHANGED <<written, reader, handled, seen, base>>
  BY <1>3 DEF Unsubscribe, piVars, readerVars
<1>4. ASSUME NEW p \in Prompts,
             PromptReplied(p) \/ PromptDone(p) \/ PromptTimesOut(p)
      PROVE  \/ UNCHANGED <<handlers, base>>
             \/ Uninstall(p) /\ UNCHANGED <<written, reader, handled, seen, base>>
  BY <1>4 DEF PromptReplied, PromptDone, PromptTimesOut, piVars, readerVars
<1>5. ASSUME NEW w \in Waiters,
             \/ BeginWait(w) \/ WaiterGets(w) \/ WaiterReturns(w)
             \/ WaiterSeesClose(w) \/ WaiterGivesUp(w)
      PROVE  UNCHANGED <<handlers, base>>
  BY <1>5 DEF BeginWait, WaiterGets, WaiterReturns, WaiterSeesClose,
              WaiterGivesUp, subVars
<1>6. CASE \/ \E r \in Records : PiWrites(r)
           \/ PiExits \/ ReaderStep \/ CloseStep \/ UNCHANGED vars
  <2>1. UNCHANGED <<handlers, base>>
    BY <1>6 DEF ReaderStep, CloseStep, vars, subVars, PiWrites,
         PiExits, ReadChunk, ReadEof, ChunkDone, HandleResponse,
         HandleEvent, CallHandler, HandlerEnds, DispatchDone,
         AnswerDialog, BeginClose, CancelReader, FinishClose
  <2> QED
    BY <2>1
<1> QED
  BY <1>1, <1>2, <1>3, <1>4, <1>5, <1>6 DEF Next, PromptStep

\* What was installed once is not forgotten.
LEMMA StaysInstalled ==
    ASSUME IInv, [Next]_vars, NEW h \in Prompts \cup Subscribers, Installed(h)
    PROVE  Installed(h)' /\ base'[h] = base[h]
<1>0. /\ prompts \in [Prompts -> PromptRecord]
      /\ base \in [Prompts \cup Subscribers -> Nat]
  BY InHand DEF TypeOK, PromptRecord
<1>1. base'[h] = base[h]
  <2>1. CASE UNCHANGED base
    BY <2>1
  <2>2. ASSUME NEW g \in Prompts \cup Subscribers, ~Installed(g), Install(g)
        PROVE  base'[h] = base[h]
    <3>1. g # h
      BY <2>2
    <3> QED
      BY <1>0, <2>2, <3>1 DEF Install
  <2> QED
    BY <2>1, <2>2, HandlersChange
<1>2. ASSUME NEW p \in Prompts, prompts[p].at # "idle"
      PROVE  prompts'[p].at # "idle"
  <2>1. ASSUME NEW q \in Prompts, PromptStep(q) \/ PromptTimesOut(q)
        PROVE  prompts'[p].at # "idle"
    BY <1>0, <1>2, <2>1 DEF PromptStep, BeginPrompt, PromptReplied, PromptDone,
                            PromptTimesOut, PromptRecord
  <2>2. CASE ReadChunk \/ ReadEof \/ AnswerDialog
    <3>1. UNCHANGED prompts \/ FailPending
      BY <2>2 DEF ReadChunk, ReadEof, AnswerDialog
    <3> QED
      BY <1>2, <3>1, InHand, FailPendingFacts
  <2>3. CASE HandleResponse
    <3>1. PICK x : prompts' = [prompts EXCEPT ![x].reply =
                                 IF @ = "pending" THEN "value" ELSE @]
      BY <2>3 DEF HandleResponse
    <3> QED
      BY <1>0, <1>2, <3>1 DEF PromptRecord
  <2>4. CASE CallHandler
    <3>1. PICK x : \/ prompts' = [prompts EXCEPT ![x].done = TRUE]
                   \/ prompts' = prompts
      BY <2>4 DEF CallHandler
    <3> QED
      BY <1>0, <1>2, <3>1 DEF PromptRecord
  <2>5. CASE FinishClose
    BY <1>0, <1>2, <2>5 DEF FinishClose, PromptRecord
  <2>6. CASE UNCHANGED prompts
    BY <1>2, <2>6
  <2>7. ASSUME NEW s \in Subscribers, Subscribe(s) \/ Unsubscribe(s)
        PROVE  UNCHANGED prompts
    BY <2>7 DEF Subscribe, Unsubscribe
  <2>8. ASSUME NEW w \in Waiters,
               \/ BeginWait(w) \/ WaiterGets(w) \/ WaiterReturns(w)
               \/ WaiterSeesClose(w) \/ WaiterGivesUp(w)
        PROVE  UNCHANGED prompts
    BY <2>8 DEF BeginWait, WaiterGets, WaiterReturns, WaiterSeesClose,
                WaiterGivesUp
  <2>9. CASE \/ \E r \in Records : PiWrites(r)
             \/ PiExits \/ ChunkDone \/ HandleEvent \/ HandlerEnds
             \/ DispatchDone \/ BeginClose \/ CancelReader \/ UNCHANGED vars
    <3>1. UNCHANGED prompts
      BY <2>9 DEF PiWrites, PiExits, ChunkDone, HandleEvent, HandlerEnds,
                  DispatchDone, BeginClose, CancelReader, vars
    <3> QED
      BY <2>6, <3>1
  <2> QED
    BY <2>1, <2>2, <2>3, <2>4, <2>5, <2>6, <2>7, <2>8, <2>9
       DEF Next, ReaderStep, CloseStep
<1>3. CASE h \in Prompts
  BY <1>1, <1>2, <1>3 DEF Installed
<1>4. CASE h \notin Prompts
  BY <1>1, <1>4 DEF Installed, Never
<1> QED
  BY <1>3, <1>4

\* Each handler is in the list once, was installed, and has seen nothing
\* before.
LEMMA HandlersStep ==
    ASSUME IInv, [Next]_vars
    PROVE  /\ IsInjective(handlers')
           /\ \A h \in Range(handlers') : Installed(h)' /\ base'[h] <= Len(handled')
           /\ \A h \in Prompts \cup Subscribers : Installed(h)' \/ seen'[h] = << >>
<1>1. /\ TypeOK /\ CalledOnce
  BY InHand DEF IInv, HandlersSeeAll
<1>2. /\ handlers \in Seq(Prompts \cup Subscribers)
      /\ base \in [Prompts \cup Subscribers -> Nat]
      /\ seen \in [Prompts \cup Subscribers -> Seq(Numbers)]
  BY <1>1 DEF TypeOK
<1>3. Range(handlers) \subseteq Prompts \cup Subscribers
  BY <1>2, RangeOfSeq
<1>4. Len(handled) \in Nat /\ Len(handled') \in Nat /\ Len(handled) <= Len(handled')
  BY Kept
<1>5. ASSUME NEW h \in Range(handlers)
      PROVE  Installed(h)' /\ base'[h] <= Len(handled')
  <2>1. /\ h \in Prompts \cup Subscribers /\ Installed(h) /\ base[h] <= Len(handled)
        /\ base[h] \in Nat
    BY <1>1, <1>2, <1>3 DEF CalledOnce
  <2>2. Installed(h)' /\ base'[h] = base[h]
    BY <2>1, StaysInstalled
  <2> QED
    BY <1>4, <2>1, <2>2
<1>6. IsInjective(handlers')
      /\ \A h \in Range(handlers') : Installed(h)' /\ base'[h] <= Len(handled')
  <2>1. CASE UNCHANGED handlers
    BY <1>1, <1>5, <2>1 DEF CalledOnce
  <2>2. ASSUME NEW g \in Prompts \cup Subscribers, ~Installed(g), Install(g),
               Installed(g)', UNCHANGED handled
        PROVE  IsInjective(handlers')
               /\ \A h \in Range(handlers') : Installed(h)' /\ base'[h] <= Len(handled')
    <3>1. g \notin Range(handlers)
      BY <1>1, <2>2 DEF CalledOnce
    <3>2. /\ Range(handlers') = Range(handlers) \cup {g}
          /\ Len(handlers) \in Nat /\ DOMAIN handlers = 1..Len(handlers)
          /\ DOMAIN handlers' = 1..(Len(handlers) + 1)
          /\ \A i \in 1..Len(handlers) : handlers'[i] = handlers[i]
          /\ handlers'[Len(handlers) + 1] = g
      BY <1>2, <2>2, AppendFacts DEF Install
    <3>3. base'[g] = Len(handled')
      BY <1>2, <2>2 DEF Install
    <3>4. ASSUME NEW a \in DOMAIN handlers', NEW b \in DOMAIN handlers',
                 handlers'[a] = handlers'[b]
          PROVE  a = b
      <4>1. \A i \in 1..(Len(handlers) + 1) :
              i \in 1..Len(handlers) \/ i = Len(handlers) + 1
        BY <3>2
      <4>2. \A i \in 1..Len(handlers) : handlers'[i] # g /\ handlers'[i] = handlers[i]
        BY <3>1, <3>2 DEF Range
      <4>3. \A i, j \in 1..Len(handlers) : handlers[i] = handlers[j] => i = j
        BY <1>1, <3>2 DEF CalledOnce, IsInjective
      <4> QED
        BY <3>2, <3>4, <4>1, <4>2, <4>3
    <3> QED
      BY <1>4, <1>5, <2>2, <3>2, <3>3, <3>4 DEF IsInjective
  <2>3. ASSUME NEW g, Uninstall(g)
        PROVE  IsInjective(handlers')
               /\ \A h \in Range(handlers') : Installed(h)' /\ base'[h] <= Len(handled')
    <3>1. IsInjective(handlers') /\ Range(handlers') \subseteq Range(handlers)
      BY <1>1, <1>2, <2>3, RemoveFacts DEF CalledOnce, Uninstall
    <3> QED
      BY <1>5, <3>1
  <2> QED
    BY <2>1, <2>2, <2>3, HandlersChange
<1>7. ASSUME NEW h \in Prompts \cup Subscribers
      PROVE  Installed(h)' \/ seen'[h] = << >>
  <2>1. CASE Installed(h)
    BY <2>1, StaysInstalled
  <2>2. CASE ~Installed(h)
    <3>1. seen[h] = << >>
      BY <1>1, <2>2 DEF CalledOnce
    <3>2. CASE UNCHANGED seen
      BY <3>1, <3>2
    <3>3. CASE CallHandler
      <4>1. /\ reader.todo \in Seq(Prompts \cup Subscribers)
            /\ reader.todo # << >> /\ Dispatching
            /\ seen' = [seen EXCEPT ![Head(reader.todo)] = Append(@, Last(handled))]
        BY <1>1, <3>3 DEF TypeOK, CallHandler, Dispatching
      <4>2. Head(reader.todo) \in Range(reader.todo)
        BY <4>1, TailFacts DEF Range
      <4>3. Installed(Head(reader.todo))
        BY <1>1, <4>1, <4>2 DEF CalledOnce
      <4>4. h # Head(reader.todo)
        BY <2>2, <4>3
      <4> QED
        BY <1>2, <3>1, <4>1, <4>4
    <3>4. UNCHANGED seen \/ CallHandler
      BY DEF Next, ReaderStep, CloseStep, PromptStep, vars, subVars,
         PiWrites, PiExits, ReadChunk, ReadEof, ChunkDone, HandleResponse,
         HandleEvent, HandlerEnds, DispatchDone,
         AnswerDialog, Subscribe, Unsubscribe, BeginPrompt, PromptReplied,
         PromptDone, PromptTimesOut, BeginWait, WaiterGets, WaiterReturns,
         WaiterSeesClose, WaiterGivesUp, BeginClose, CancelReader, FinishClose
    <3> QED
      BY <3>2, <3>3, <3>4
  <2> QED
    BY <2>1, <2>2
<1> QED
  BY <1>6, <1>7

\* The event in hand and the handlers still to be called with it.
InHandOK ==
    Dispatching =>
      /\ handled # << >> /\ Type(Last(handled)) \in {"agent_end", "dialog"}
      /\ IsInjective(reader.todo)
      /\ \A h \in Range(reader.todo) : Installed(h) /\ base[h] < Len(handled)
      /\ reader.at = "inHandler" => reader.todo # << >>
      /\ reader.at = "inUi" => Type(Last(handled)) = "dialog"

\* The record in hand is the last one that was handled.
LEMMA LastFacts ==
    ASSUME IInv, handled # << >>
    PROVE  /\ Len(handled) \in 1..Len(handled) /\ Last(handled) = handled[Len(handled)]
           /\ Last(handled) \in DOMAIN written /\ Last(handled) \in Range(handled)
<1>1. handled \in Seq(Nat) /\ DOMAIN handled = 1..Len(handled)
  BY OrderFacts
<1>2. Len(handled) \in 1..Len(handled)
  BY <1>1, EmptySeq
<1>3. Last(handled) = handled[Len(handled)]
  BY DEF Last
<1>4. Last(handled) \in Range(handled)
  BY <1>1, <1>2, <1>3 DEF Range
<1> QED
  BY <1>2, <1>3, <1>4, OrderFacts

\* A handler that is still to be called was there when the event was read.
LEMMA InHandStep ==
    ASSUME IInv, [Next]_vars
    PROVE  InHandOK'
<1>1. /\ TypeOK /\ CalledOnce /\ InHandOK
  BY InHand DEF IInv, HandlersSeeAll, CalledOnce, InHandOK
<1>2. /\ reader \in [at : {"read", "record", "handlers", "inHandler", "inUi",
                           "stopped", "dead"},
                     records : Seq(Numbers), todo : Seq(Prompts \cup Subscribers)]
      /\ handlers \in Seq(Prompts \cup Subscribers)
      /\ base \in [Prompts \cup Subscribers -> Nat]
  BY <1>1 DEF TypeOK
<1>3. reader.todo \in Seq(Prompts \cup Subscribers)
  BY <1>2
<1>4. CASE ~Dispatching'
  BY <1>4 DEF InHandOK, Dispatching
<1>5. ASSUME Dispatching, UNCHANGED handled,
             \/ reader'.todo = reader.todo
             \/ reader.todo # << >> /\ reader'.todo = Tail(reader.todo),
             reader'.at = "inHandler" => reader'.todo # << >>,
             reader'.at = "inUi" => Type(Last(handled)) = "dialog"
      PROVE  InHandOK'
  <2>1. handled # << >> /\ Type(Last(handled)) \in {"agent_end", "dialog"}
        /\ IsInjective(reader.todo)
        /\ \A h \in Range(reader.todo) : Installed(h) /\ base[h] < Len(handled)
    BY <1>1, <1>5 DEF InHandOK
  <2>2. Type(Last(handled))' = Type(Last(handled))
    <3>1. PICK n : n = Last(handled)
      OBVIOUS
    <3>2. Last(handled)' = n /\ n \in DOMAIN written
      BY <1>5, <2>1, <3>1, LastFacts
    <3> QED
      BY <3>1, <3>2, Kept DEF Type
  <2>3. IsInjective(reader'.todo) /\ Range(reader'.todo) \subseteq Range(reader.todo)
    <3>1. CASE reader'.todo = reader.todo
      BY <2>1, <3>1
    <3>2. CASE reader.todo # << >> /\ reader'.todo = Tail(reader.todo)
      <4>1. /\ Range(reader'.todo) \subseteq Range(reader.todo)
            /\ DOMAIN reader.todo = 1..Len(reader.todo)
            /\ \A i \in DOMAIN reader'.todo :
                 i + 1 \in DOMAIN reader.todo /\ reader'.todo[i] = reader.todo[i + 1]
            /\ DOMAIN reader'.todo = 1..Len(reader'.todo)
        BY <1>3, <3>2, TailFacts
      <4>2. ASSUME NEW a \in DOMAIN reader'.todo, NEW b \in DOMAIN reader'.todo,
                   reader'.todo[a] = reader'.todo[b]
            PROVE  a = b
        <5>1. a + 1 = b + 1
          BY <2>1, <4>1, <4>2 DEF IsInjective
        <5> QED
          BY <4>1, <5>1
      <4> QED
        BY <4>1, <4>2 DEF IsInjective
    <3> QED
      BY <1>5, <3>1, <3>2
  <2>4. Range(reader.todo) \subseteq Prompts \cup Subscribers
    BY <1>3, RangeOfSeq
  <2>5. \A h \in Range(reader'.todo) : Installed(h)' /\ base'[h] < Len(handled')
    <3> TAKE h \in Range(reader'.todo)
    <3>1. h \in Prompts \cup Subscribers /\ Installed(h) /\ base[h] < Len(handled)
      BY <2>1, <2>3, <2>4
    <3>2. Installed(h)' /\ base'[h] = base[h]
      BY <3>1, StaysInstalled
    <3> QED
      BY <1>5, <3>1, <3>2
  <2> QED
    BY <1>5, <2>1, <2>2, <2>3, <2>5 DEF InHandOK
<1>6. CASE HandleEvent
  <2> DEFINE n == Head(reader.records)
  <2>1. /\ reader'.at = "handlers" /\ reader'.todo = handlers
        /\ reader.records # << >> /\ Type(n) \in {"agent_end", "dialog"}
        /\ handled' = Append(handled, n) /\ UNCHANGED <<written, base>>
    BY <1>2, <1>6 DEF HandleEvent, Handles, piVars, subVars
  <2>2. n \in Nat /\ n \in DOMAIN written /\ handled \in Seq(Nat)
    BY <2>1, OrderFacts
  <2> HIDE DEF n
  <2>3. handled' # << >> /\ Len(handled') = Len(handled) + 1
        /\ handled'[Len(handled')] = n /\ Len(handled) \in Nat
    BY <2>1, <2>2, AppendFacts
  <2>4. Last(handled)' = n
    BY <2>3 DEF Last
  <2>5. Type(Last(handled))' \in {"agent_end", "dialog"}
    BY <2>1, <2>4 DEF Type
  <2>6. IsInjective(handlers) /\ Range(handlers) \subseteq Prompts \cup Subscribers
    BY <1>1, <1>2, RangeOfSeq DEF CalledOnce
  <2>7. \A h \in Range(handlers) : Installed(h)' /\ base'[h] < Len(handled')
    <3> TAKE h \in Range(handlers)
    <3>1. /\ h \in Prompts \cup Subscribers /\ Installed(h)
          /\ base[h] <= Len(handled) /\ base[h] \in Nat
      BY <1>1, <1>2, <2>6 DEF CalledOnce
    <3>2. Installed(h)' /\ base'[h] = base[h]
      BY <3>1, StaysInstalled
    <3> QED
      BY <2>3, <3>1, <3>2
  <2> QED
    BY <2>1, <2>3, <2>5, <2>6, <2>7 DEF InHandOK
<1>7. CASE CallHandler
  BY <1>2, <1>5, <1>7 DEF CallHandler, Dispatching
<1>8. CASE HandlerEnds
  BY <1>1, <1>2, <1>5, <1>8 DEF HandlerEnds, Dispatching, InHandOK
<1>9. CASE DispatchDone
  BY <1>2, <1>5, <1>9 DEF DispatchDone, Dispatching
<1>10. CASE ReadChunk \/ ReadEof \/ ChunkDone \/ HandleResponse \/ AnswerDialog
            \/ CancelReader
  <2>1. reader'.at \in {"read", "record", "stopped", "dead"}
    <3>1. CASE ReadChunk
      BY <3>1, ReadDelivered
    <3> QED
      BY <1>2, <1>10, <3>1 DEF ReadEof, ChunkDone, HandleResponse, Handles,
                               AnswerDialog, CancelReader
  <2> QED
    BY <1>4, <2>1 DEF Dispatching
<1>11. CASE UNCHANGED <<reader, handled>>
  <2>1. CASE Dispatching
    BY <1>1, <1>5, <1>11, <2>1 DEF InHandOK
  <2>2. CASE ~Dispatching
    BY <1>4, <1>11, <2>2 DEF Dispatching
  <2> QED
    BY <2>1, <2>2
<1>12. ASSUME NEW s \in Subscribers, Subscribe(s) \/ Unsubscribe(s)
       PROVE  UNCHANGED <<reader, handled>>
  BY <1>12 DEF Subscribe, Unsubscribe, readerVars
<1>13. ASSUME NEW p \in Prompts, PromptStep(p) \/ PromptTimesOut(p)
       PROVE  UNCHANGED <<reader, handled>>
  BY <1>13 DEF PromptStep, BeginPrompt, PromptReplied, PromptDone,
               PromptTimesOut, readerVars
<1>14. ASSUME NEW w \in Waiters,
              \/ BeginWait(w) \/ WaiterGets(w) \/ WaiterReturns(w)
              \/ WaiterSeesClose(w) \/ WaiterGivesUp(w)
       PROVE  UNCHANGED <<reader, handled>>
  BY <1>14 DEF BeginWait, WaiterGets, WaiterReturns, WaiterSeesClose,
               WaiterGivesUp, readerVars
<1>15. CASE \/ \E r \in Records : PiWrites(r)
            \/ PiExits \/ BeginClose \/ FinishClose \/ UNCHANGED vars
  <2>1. UNCHANGED <<reader, handled>>
    BY <1>15 DEF PiWrites, PiExits, BeginClose, FinishClose, vars, readerVars
  <2> QED
    BY <1>11, <2>1
<1> QED
  BY <1>6, <1>7, <1>8, <1>9, <1>10, <1>11, <1>12, <1>13, <1>14, <1>15
     DEF Next, ReaderStep, CloseStep

\* EventsIn of some records and what was handled of them.
Among(w, s, i, j) ==
    Ascending({n \in {s[k] : k \in i..j} : w[n].type # "response"})

\* What is read later changes nothing about the events up to here.
LEMMA AmongKept ==
    ASSUME IInv, [Next]_vars, NEW i \in Nat \ {0}, NEW j \in Nat,
           j <= Len(handled)
    PROVE  Among(written', handled', i, j) = Among(written, handled, i, j)
<1>1. /\ \A k \in 1..Len(handled) : /\ handled'[k] = handled[k]
                                    /\ handled[k] \in DOMAIN written
      /\ \A n \in DOMAIN written : written'[n].type = written[n].type
      /\ Len(handled) \in Nat
  BY Kept DEF Type
<1>2. \A k \in i..j : k \in 1..Len(handled)
  BY <1>1
<1>3. {handled'[k] : k \in i..j} = {handled[k] : k \in i..j}
      /\ \A n \in {handled[k] : k \in i..j} : written'[n].type = written[n].type
  BY <1>1, <1>2
<1>4. {n \in {handled'[k] : k \in i..j} : written'[n].type # "response"}
        = {n \in {handled[k] : k \in i..j} : written[n].type # "response"}
  BY <1>3
<1> QED
  BY <1>4 DEF Among

\* A response is no event.
LEMMA AmongResponse ==
    ASSUME NEW w, NEW s, NEW i \in Nat, NEW j \in Nat, i <= j + 1,
           w[s[j + 1]].type = "response"
    PROVE  Among(w, s, i, j + 1) = Among(w, s, i, j)
<1>1. \A k \in i..(j + 1) : k \in i..j \/ k = j + 1
  OBVIOUS
<1>2. \A k \in i..j : k \in i..(j + 1)
  OBVIOUS
<1>3. {n \in {s[k] : k \in i..(j + 1)} : w[n].type # "response"}
        = {n \in {s[k] : k \in i..j} : w[n].type # "response"}
  BY <1>1, <1>2
<1> QED
  BY <1>3 DEF Among

\* An event that is handled is the last of the events so far.
LEMMA AmongGrows ==
    ASSUME NEW w, NEW s \in Seq(Nat), Increasing(s),
           NEW i \in Nat \ {0}, NEW j \in Nat, i <= j + 1, j + 1 <= Len(s),
           w[s[j + 1]].type # "response"
    PROVE  Among(w, s, i, j + 1) = Append(Among(w, s, i, j), s[j + 1])
<1> DEFINE S == {n \in {s[k] : k \in i..j} : w[n].type # "response"}
<1>1. /\ \A k \in i..(j + 1) : k \in i..j \/ k = j + 1
      /\ \A k \in i..j : k \in i..(j + 1) /\ k \in 1..Len(s) /\ k < j + 1
      /\ j + 1 \in i..(j + 1) /\ j + 1 \in 1..Len(s)
      /\ DOMAIN s = 1..Len(s) /\ \A k \in 1..Len(s) : s[k] \in Nat
  OBVIOUS
<1>2. {n \in {s[k] : k \in i..(j + 1)} : w[n].type # "response"}
        = S \cup {s[j + 1]}
  BY <1>1
<1>3. S \subseteq Nat /\ S \subseteq Range(s)
  BY <1>1 DEF Range
<1>4. IsFiniteSet(S)
  BY <1>3, IncreasingRanks, FS_Subset
<1>5. \A x \in S : x < s[j + 1]
  BY <1>1 DEF Increasing
<1>6. s[j + 1] \in Nat
  BY <1>1
<1> HIDE DEF S
<1>7. Ascending(S \cup {s[j + 1]}) = Append(Ascending(S), s[j + 1])
  BY <1>3, <1>4, <1>5, <1>6, AscendingAppend
<1> QED
  BY <1>2, <1>7 DEF Among, S

\* There are no events before the first.
LEMMA AmongNone ==
    ASSUME NEW w, NEW s, NEW i \in Nat, NEW j \in Int, j < i
    PROVE  Among(w, s, i, j) = << >>
<1>1. i..j = {}
  OBVIOUS
<1>2. {n \in {s[k] : k \in i..j} : w[n].type # "response"} = {}
  BY <1>1
<1> QED
  BY <1>2, AscendingSmall DEF Among

\* How far an installed handler has got.
LEMMA SeenOf ==
    ASSUME IInv, NEW h \in Range(handlers)
    PROVE  /\ h \in Prompts \cup Subscribers
           /\ base[h] \in Nat /\ base[h] <= Len(handled)
           /\ Len(handled) \in Nat
           /\ h \in Pending => base[h] < Len(handled)
           /\ ~ReaderGone =>
                seen[h] = Among(written, handled, base[h] + 1,
                                Len(handled) - IF h \in Pending THEN 1 ELSE 0)
<1>1. TypeOK /\ CalledOnce /\ InHandOK
  BY InHand DEF IInv, HandlersSeeAll, CalledOnce, InHandOK
<1>2. Range(handlers) \subseteq Prompts \cup Subscribers
  BY <1>1, RangeOfSeq DEF TypeOK
<1>3. h \in Prompts \cup Subscribers /\ base[h] \in Nat /\ base[h] <= Len(handled)
  BY <1>1, <1>2 DEF CalledOnce, TypeOK
<1>4. Len(handled) \in Nat
  BY HandledBound
<1>5. h \in Pending => base[h] < Len(handled)
  <2>1. reader.todo # << >> => Range(Tail(reader.todo)) \subseteq Range(reader.todo)
    <3>1. reader.todo \in Seq(Prompts \cup Subscribers)
      BY <1>1 DEF TypeOK
    <3> QED
      BY <3>1, TailFacts
  <2>2. h \in Pending => Dispatching /\ h \in Range(reader.todo)
    BY <1>1, <2>1 DEF Pending, InHandOK, Dispatching
  <2> QED
    BY <1>1, <2>2 DEF InHandOK
<1>6. ~ReaderGone =>
        seen[h] = EventsIn(base[h] + 1,
                           Len(handled) - IF h \in Pending THEN 1 ELSE 0)
  BY DEF IInv, HandlersSeeAll
<1> QED
  BY <1>3, <1>4, <1>5, <1>6 DEF EventsIn, Among, Type

\* A sequence without repetitions: the head is not in the rest.
LEMMA HeadAndTail ==
    ASSUME NEW T, NEW s \in Seq(T), s # << >>, IsInjective(s)
    PROVE  /\ Head(s) \in Range(s) /\ Head(s) \notin Range(Tail(s))
           /\ \A x \in Range(s) : x = Head(s) \/ x \in Range(Tail(s))
           /\ Range(Tail(s)) \subseteq Range(s)
<1> DEFINE r == Tail(s)
<1>1. /\ Len(r) = Len(s) - 1 /\ Len(s) \in Nat \ {0}
      /\ DOMAIN s = 1..Len(s) /\ DOMAIN r = 1..Len(r)
      /\ \A i \in DOMAIN r : i + 1 \in DOMAIN s /\ r[i] = s[i + 1]
      /\ Head(s) = s[1] /\ 1 \in DOMAIN s
      /\ Range(r) \subseteq Range(s)
  BY TailFacts
<1> HIDE DEF r
<1>2. Head(s) \in Range(s)
  BY <1>1 DEF Range
<1>3. ASSUME NEW i \in DOMAIN r, r[i] = s[1] PROVE FALSE
  BY <1>1, <1>3 DEF IsInjective
<1>4. Head(s) \notin Range(r)
  BY <1>1, <1>3 DEF Range
<1>5. ASSUME NEW i \in DOMAIN s, s[i] # s[1] PROVE s[i] \in Range(r)
  <2>1. i - 1 \in DOMAIN r /\ (i - 1) + 1 = i
    BY <1>1, <1>5
  <2>2. r[i - 1] = s[i]
    BY <1>1, <2>1
  <2> QED
    BY <2>1, <2>2 DEF Range
<1>6. \A x \in Range(s) : x = s[1] \/ x \in Range(r)
  BY <1>5 DEF Range
<1> QED
  BY <1>1, <1>2, <1>4, <1>6 DEF r

\* What HandlersSeeAll says of the events.
SeenAll ==
    ~ReaderGone =>
      \A h \in Range(handlers) :
        seen[h] = EventsIn(base[h] + 1,
                           Len(handled) - IF h \in Pending THEN 1 ELSE 0)

\* A reader that has ended does not come back.
LEMMA GoneStays ==
    ASSUME IInv, [Next]_vars, ~ReaderGone' PROVE ~ReaderGone
<1>1. reader.at = reader'.at \/ reader.at \notin {"stopped", "dead"} \/ CancelReader
  BY DEF Next, ReaderStep, CloseStep, PromptStep, vars, readerVars,
         PiWrites, PiExits, ReadChunk, ReadEof, ChunkDone, HandleResponse,
         HandleEvent, Handles, CallHandler, HandlerEnds, DispatchDone,
         AnswerDialog, Subscribe, Unsubscribe, BeginPrompt, PromptReplied,
         PromptDone, PromptTimesOut, BeginWait, WaiterGets, WaiterReturns,
         WaiterSeesClose, WaiterGivesUp, BeginClose, CancelReader, FinishClose
<1>2. CancelReader => reader'.at \in {"stopped", "dead"}
  BY InHand DEF CancelReader, TypeOK
<1> QED
  BY <1>1, <1>2 DEF ReaderGone

\* Every handler sees the event in hand when its turn comes, and misses none.
LEMMA SeenStep ==
    ASSUME IInv, [Next]_vars
    PROVE  SeenAll'
<1> SUFFICES ASSUME ~ReaderGone', NEW h \in Range(handlers')
             PROVE  seen'[h] = Among(written', handled', base'[h] + 1,
                      Len(handled') - IF h \in Pending' THEN 1 ELSE 0)
  BY DEF SeenAll, EventsIn, Among, Type
<1>0. /\ TypeOK /\ CalledOnce /\ InHandOK /\ ~ReaderGone
  BY InHand, GoneStays DEF IInv, HandlersSeeAll, CalledOnce, InHandOK
<1>1. /\ reader \in [at : {"read", "record", "handlers", "inHandler", "inUi",
                           "stopped", "dead"},
                     records : Seq(Numbers), todo : Seq(Prompts \cup Subscribers)]
      /\ handlers \in Seq(Prompts \cup Subscribers)
      /\ base \in [Prompts \cup Subscribers -> Nat]
      /\ seen \in [Prompts \cup Subscribers -> Seq(Numbers)]
      /\ Len(handled) \in Nat /\ reader.todo \in Seq(Prompts \cup Subscribers)
  BY <1>0, HandledBound DEF TypeOK
<1>2. CASE h \notin Range(handlers)
  <2>1. ~Installed(h) /\ Install(h) /\ UNCHANGED <<handled, seen>>
        /\ h \in Prompts \cup Subscribers
    <3>1. ASSUME NEW g \in Prompts \cup Subscribers, ~Installed(g), Install(g)
          PROVE  g = h
      BY <1>1, <1>2, <3>1, AppendFacts DEF Install
    <3>2. ASSUME NEW g, Uninstall(g) PROVE FALSE
      BY <1>0, <1>1, <1>2, <3>2, RemoveFacts DEF Uninstall, CalledOnce
    <3> QED
      BY <1>2, <3>1, <3>2, HandlersChange
  <2>2. seen'[h] = << >> /\ base'[h] = Len(handled')
    BY <1>0, <1>1, <2>1 DEF CalledOnce, Install
  <2>3. PICK j \in Int :
          j = Len(handled') - IF h \in Pending' THEN 1 ELSE 0
    <3>1. Len(handled') \in Nat
      BY <1>1, <2>1
    <3>2. CASE h \in Pending'
      BY <3>1, <3>2
    <3>3. CASE h \notin Pending'
      BY <3>1, <3>3
    <3> QED
      BY <3>2, <3>3
  <2>4. j < Len(handled') + 1 /\ Len(handled') + 1 \in Nat
    BY <1>1, <2>1, <2>3
  <2> QED
    BY <2>2, <2>3, <2>4, AmongNone
<1>3. CASE h \in Range(handlers)
  <2> DEFINE late == IF h \in Pending THEN 1 ELSE 0
  <2>1. /\ h \in Prompts \cup Subscribers
        /\ base[h] \in Nat /\ base[h] <= Len(handled)
        /\ h \in Pending => base[h] < Len(handled)
        /\ seen[h] = Among(written, handled, base[h] + 1, Len(handled) - late)
    BY <1>0, <1>3, SeenOf
  <2>2. PICK i \in Nat \ {0} : i = base[h] + 1
    BY <2>1
  <2>3. base'[h] + 1 = i /\ i <= Len(handled) + 1
        /\ (h \in Pending => i <= Len(handled))
    <3>1. Installed(h)
      BY <1>0, <1>3 DEF CalledOnce
    <3> QED
      BY <1>1, <2>1, <2>2, <3>1, StaysInstalled
  <2>4. PICK j \in Nat : j = Len(handled) - late /\ j <= Len(handled)
    BY <1>1, <2>1
  <2>5. seen[h] = Among(written, handled, i, j)
    BY <2>1, <2>2, <2>4
  <2>6. Among(written', handled', i, j) = Among(written, handled, i, j)
    BY <2>4, AmongKept
  <2>7. ASSUME UNCHANGED <<seen, handled>>, h \in Pending' <=> h \in Pending
        PROVE  seen'[h] = Among(written', handled', i,
                            Len(handled') - IF h \in Pending' THEN 1 ELSE 0)
    BY <2>4, <2>5, <2>6, <2>7
  <2>8. ASSUME UNCHANGED <<seen, handled, reader>>
        PROVE  seen'[h] = Among(written', handled', i,
                            Len(handled') - IF h \in Pending' THEN 1 ELSE 0)
    BY <2>7, <2>8 DEF Pending
  <2>9. CASE HandleEvent
    <3>1. /\ reader'.at = "handlers" /\ reader'.todo = handlers
          /\ reader.at = "record" /\ UNCHANGED seen
          /\ handled' = Append(handled, Head(reader.records))
      BY <1>1, <2>9 DEF HandleEvent, Handles, subVars
    <3>2. h \notin Pending /\ h \in Pending'
      BY <1>3, <3>1 DEF Pending
    <3>3. Len(handled') = Len(handled) + 1
      BY <1>0, <3>1 DEF TypeOK
    <3>4. Len(handled') - 1 = j
      BY <1>1, <2>4, <3>2, <3>3
    <3> QED
      BY <2>3, <2>5, <2>6, <3>1, <3>2, <3>4
  <2>10. CASE HandleResponse
    <3>1. /\ reader'.at = "record" /\ reader.at = "record" /\ UNCHANGED seen
          /\ handled' = Append(handled, Head(reader.records))
          /\ Type(Head(reader.records)) = "response"
          /\ reader.records # << >> /\ written' = written
      BY <1>1, <2>10 DEF HandleResponse, Handles, subVars, piVars
    <3>2. h \notin Pending /\ h \notin Pending'
      BY <3>1 DEF Pending
    <3>3. Len(handled') = Len(handled) + 1
          /\ handled'[Len(handled) + 1] = Head(reader.records)
      <4>1. handled \in Seq(Nat) /\ Head(reader.records) \in Nat
        BY <3>1, OrderFacts
      <4> QED
        BY <3>1, <4>1
    <3>4. Len(handled') = j + 1 /\ handled'[j + 1] = Head(reader.records)
      BY <1>1, <2>4, <3>2, <3>3
    <3>5. written'[handled'[j + 1]].type = "response"
      BY <3>1, <3>4 DEF Type
    <3>6. i <= j + 1
      BY <2>3, <2>4, <3>2
    <3>7. Among(written', handled', i, j + 1) = Among(written', handled', i, j)
      BY <3>5, <3>6, AmongResponse
    <3>8. Len(handled') - 0 = j + 1
      BY <3>4
    <3> QED
      BY <2>3, <2>5, <2>6, <3>1, <3>2, <3>7, <3>8
  <2>11. CASE CallHandler
    <3> DEFINE g == Head(reader.todo)
    <3>1. /\ reader.at = "handlers" /\ reader.todo # << >>
          /\ seen' = [seen EXCEPT ![g] = Append(@, Last(handled))]
          /\ UNCHANGED <<handled, handlers, base>>
          /\ \/ reader'.at = "handlers" /\ reader'.todo = Tail(reader.todo)
             \/ reader'.at = "inHandler" /\ reader'.todo = reader.todo
      BY <1>1, <2>11 DEF CallHandler
    <3>2. /\ Pending = Range(reader.todo) /\ Pending' = Range(Tail(reader.todo))
      BY <3>1 DEF Pending
    <3>3. /\ g \in Range(reader.todo)
          /\ g \notin Range(Tail(reader.todo))
          /\ \A x \in Range(reader.todo) : x = g \/ x \in Range(Tail(reader.todo))
          /\ Range(Tail(reader.todo)) \subseteq Range(reader.todo)
      <4>1. IsInjective(reader.todo)
        BY <1>0, <3>1 DEF InHandOK, Dispatching
      <4> QED
        BY <1>1, <3>1, <4>1, HeadAndTail
    <3>4. CASE h # g
      <4>1. seen'[h] = seen[h]
        BY <1>1, <2>1, <3>1, <3>4
      <4>2. h \in Pending' <=> h \in Pending
        BY <3>2, <3>3, <3>4
      <4> QED
        BY <2>3, <2>4, <2>5, <2>6, <3>1, <4>1, <4>2
    <3>5. CASE h = g
      <4>1. h \in Pending /\ h \notin Pending'
        BY <3>2, <3>3, <3>5
      <4>2. j + 1 = Len(handled) /\ i <= j + 1
        BY <1>1, <2>3, <2>4, <4>1
      <4>3. /\ handled # << >> /\ Type(Last(handled)) # "response"
            /\ handled[Len(handled)] = Last(handled)
        BY <1>0, <3>1 DEF InHandOK, Dispatching, Last
      <4>4. handled \in Seq(Nat) /\ Increasing(handled)
        BY OrderFacts
      <4>5. written[handled[j + 1]].type # "response" /\ handled[j + 1] = Last(handled)
        BY <4>2, <4>3 DEF Type
      <4>6. Among(written, handled, i, j + 1)
              = Append(Among(written, handled, i, j), Last(handled))
        BY <4>2, <4>4, <4>5, AmongGrows
      <4>7. seen'[h] = Append(seen[h], Last(handled))
        BY <1>1, <2>1, <3>1, <3>5
      <4>8. written' = written
        BY <2>11 DEF CallHandler, piVars
      <4>9. Len(handled') - 0 = j + 1
        BY <1>1, <3>1, <4>2
      <4> QED
        BY <2>3, <2>5, <3>1, <4>1, <4>6, <4>7, <4>8, <4>9
    <3> QED
      BY <3>4, <3>5
  <2>12. CASE HandlerEnds
    <3>1. Pending' = Pending /\ UNCHANGED <<seen, handled>>
      BY <1>1, <2>12 DEF HandlerEnds, Pending, subVars
    <3> QED
      BY <2>3, <2>7, <3>1
  <2>13. CASE DispatchDone
    <3>1. Pending' = {} /\ Pending = {} /\ UNCHANGED <<seen, handled>>
      BY <1>1, <2>13 DEF DispatchDone, Pending, subVars, Range
    <3> QED
      BY <2>3, <2>7, <3>1
  <2>14. CASE ReadChunk \/ ReadEof \/ ChunkDone \/ AnswerDialog \/ CancelReader
    <3>1. UNCHANGED <<seen, handled>>
      BY <2>14 DEF ReadChunk, ReadEof, ChunkDone, AnswerDialog, CancelReader,
                   subVars
    <3>2. CASE ReadChunk \/ ReadEof \/ ChunkDone \/ AnswerDialog
      <4>1. /\ reader.at \in {"read", "record", "inUi"}
            /\ reader'.at \in {"read", "record", "stopped", "dead"}
        <5>1. CASE ReadChunk
          BY <5>1, ReadDelivered DEF ReadChunk
        <5> QED
          BY <1>1, <3>2, <5>1 DEF ReadEof, ChunkDone, AnswerDialog
      <4>2. Pending' = {} /\ Pending = {}
        BY <4>1 DEF Pending
      <4> QED
        BY <2>3, <2>7, <3>1, <4>2
    <3>3. CASE CancelReader
      <4>1. ReaderGone'
        BY <1>1, <3>3 DEF CancelReader, ReaderGone
      <4> QED
        BY <4>1
    <3> QED
      BY <2>14, <3>2, <3>3
  <2>15. ASSUME NEW s \in Subscribers, Subscribe(s) \/ Unsubscribe(s)
         PROVE  UNCHANGED <<seen, reader, handled>>
    BY <2>15 DEF Subscribe, Unsubscribe, readerVars
  <2>16. ASSUME NEW p \in Prompts, PromptStep(p) \/ PromptTimesOut(p)
         PROVE  UNCHANGED <<seen, reader, handled>>
    BY <2>16 DEF PromptStep, BeginPrompt, PromptReplied, PromptDone,
                 PromptTimesOut, readerVars
  <2>17. ASSUME NEW w \in Waiters,
                \/ BeginWait(w) \/ WaiterGets(w) \/ WaiterReturns(w)
                \/ WaiterSeesClose(w) \/ WaiterGivesUp(w)
         PROVE  UNCHANGED <<seen, reader, handled>>
    BY <2>17 DEF BeginWait, WaiterGets, WaiterReturns, WaiterSeesClose,
                 WaiterGivesUp, readerVars, subVars
  <2>18. CASE \/ \E r \in Records : PiWrites(r)
              \/ PiExits \/ BeginClose \/ FinishClose \/ UNCHANGED vars
    <3>1. UNCHANGED <<seen, reader, handled>>
      BY <2>18 DEF PiWrites, PiExits, BeginClose, FinishClose, vars, readerVars,
                   subVars
    <3> QED
      BY <2>3, <2>8, <3>1
  <2>19. CASE UNCHANGED <<seen, reader, handled>>
    BY <2>3, <2>8, <2>19
  <2> QED
    BY <2>9, <2>10, <2>11, <2>12, <2>13, <2>14, <2>15, <2>16, <2>17, <2>18,
       <2>19 DEF Next, ReaderStep, CloseStep
<1> QED
  BY <1>2, <1>3

-----------------------------------------------------------------------------
(* The answers to the dialogs.                                             *)

\* A dialog is answered when its handlers were called, and not again: what is
\* read later has a larger number.  Behind the answer that ends the reader
\* nothing is handled.
LEMMA DialogsStep ==
    ASSUME IInv, [Next]_vars
    PROVE  DialogsAnswered'
<1> DEFINE Held == Dispatching \/ reader.at = "dead"
<1>1. /\ TypeOK /\ InHandOK /\ DialogsAnswered
  BY InHand DEF IInv, HandlersSeeAll, CalledOnce, InHandOK
<1>2. /\ reader \in [at : {"read", "record", "handlers", "inHandler", "inUi",
                           "stopped", "dead"},
                     records : Seq(Numbers), todo : Seq(Prompts \cup Subscribers)]
      /\ handled \in Seq(Numbers) /\ answers \in Seq(Numbers)
  BY <1>1 DEF TypeOK
<1>3. \A n \in Range(handled) : n \in DOMAIN written /\ Type(n)' = Type(n)
  BY OrderFacts, Kept
<1>4. IsInjective(answers) /\ Range(answers) \subseteq Range(handled)
  BY <1>1 DEF DialogsAnswered
<1>5. ASSUME UNCHANGED <<handled, answers>>, stdinOpen' => stdinOpen,
             Dispatching' => Dispatching,
             stdinOpen' /\ Held => Held' \/ Type(Last(handled)) # "dialog"
      PROVE  DialogsAnswered'
  <2>1. Dispatching' => Last(handled)' \notin Range(answers')
    BY <1>1, <1>5 DEF DialogsAnswered
  <2>2. ASSUME stdinOpen', NEW n \in Range(handled'), Type(n)' = "dialog"
        PROVE  n \in Range(answers') \/ (Held' /\ n = Last(handled)')
    <3>1. n \in Range(handled) /\ Type(n) = "dialog" /\ stdinOpen
      BY <1>3, <1>5, <2>2
    <3>2. n \in Range(answers) \/ (Held /\ n = Last(handled))
      BY <1>1, <3>1 DEF DialogsAnswered
    <3> QED
      BY <1>5, <2>2, <3>1, <3>2
  <2> QED
    BY <1>4, <1>5, <2>1, <2>2 DEF DialogsAnswered
<1>6. ASSUME NEW types, Handles(types), UNCHANGED <<answers, alive, closing>>,
             Dispatching' \/ Type(Head(reader.records)) # "dialog"
      PROVE  DialogsAnswered'
  <2>0. PICK n : n = Head(reader.records)
    OBVIOUS
  <2>1. /\ reader.at = "record" /\ reader.records # << >>
        /\ handled' = Append(handled, n)
    BY <1>6, <2>0 DEF Handles
  <2>2. n \in Numbers
    BY <1>2, <2>0, <2>1, HeadTailProperties
  <2>3. n \in DOMAIN written /\ \A x \in Range(handled) : x \in Nat /\ x < n
    BY <2>0, <2>1, OrderFacts, RangeOfSeq
  <2>4. n \in Nat
    BY <2>2 DEF Numbers
  <2>5. n \notin Range(answers)
    BY <1>4, <2>3, <2>4
  <2>6. Range(handled') = Range(handled) \cup {n} /\ Last(handled)' = n
    <3>1. /\ Range(handled') = Range(handled) \cup {n}
          /\ handled'[Len(handled')] = n
      BY <1>2, <2>1, <2>2, AppendFacts
    <3> QED
      BY <3>1 DEF Last
  <2>7. ASSUME stdinOpen', NEW m \in Range(handled'), Type(m)' = "dialog"
        PROVE  m \in Range(answers') \/ (Held' /\ m = Last(handled)')
    <3>1. CASE m = n
      <4>1. Type(m)' = Type(n)
        BY <2>3, <3>1, Kept
      <4> QED
        BY <1>6, <2>0, <2>6, <2>7, <3>1, <4>1
    <3>2. CASE m \in Range(handled)
      <4>1. stdinOpen /\ Type(m) = "dialog" /\ ~Held
        BY <1>3, <1>6, <2>1, <2>7, <3>2 DEF stdinOpen, closed, Dispatching
      <4>2. m \in Range(answers)
        BY <1>1, <3>2, <4>1 DEF DialogsAnswered
      <4> QED
        BY <1>6, <4>2
    <3> QED
      BY <2>6, <2>7, <3>1, <3>2
  <2> QED
    BY <1>4, <1>6, <2>5, <2>6, <2>7 DEF DialogsAnswered
<1>7. CASE HandleEvent
  <2>1. UNCHANGED <<answers, alive, closing>> /\ Dispatching'
    BY <1>2, <1>7 DEF HandleEvent, piVars, Dispatching
  <2> QED
    BY <1>6, <1>7, <2>1 DEF HandleEvent
<1>8. CASE HandleResponse
  <2>1. UNCHANGED <<answers, alive, closing>>
        /\ Type(Head(reader.records)) # "dialog"
    BY <1>8 DEF HandleResponse, Handles, piVars
  <2> QED
    BY <1>6, <1>8, <2>1 DEF HandleResponse
<1>9. CASE AnswerDialog
  <2>1. /\ reader.at = "inUi" /\ Dispatching
        /\ UNCHANGED <<written, alive, handled, closing>>
    BY <1>9 DEF AnswerDialog, piVars, Dispatching
  <2>2. ~Dispatching'
    BY <1>2, <1>9 DEF AnswerDialog, Dispatching
  <2>5. CASE reader'.at = "dead" /\ answers' = answers
    BY <1>5, <2>1, <2>2, <2>5 DEF stdinOpen, closed
  <2>3. CASE answers' = Append(answers, Last(handled)) /\ stdinOpen
    <3>1. PICK n : n = Last(handled)
      OBVIOUS
    <3>2. n \in Numbers /\ n \in Range(handled) /\ n \notin Range(answers)
      BY <1>1, <2>1, <3>1, InHand, LastFacts DEF DialogsAnswered
    <3>3. /\ Range(answers') = Range(answers) \cup {n}
          /\ DOMAIN answers = 1..Len(answers) /\ Len(answers) \in Nat
          /\ DOMAIN answers' = 1..(Len(answers) + 1)
          /\ \A i \in 1..Len(answers) : answers'[i] = answers[i]
          /\ answers'[Len(answers) + 1] = n
      BY <1>2, <2>3, <3>1, <3>2, AppendFacts
    <3>4. ASSUME NEW a \in DOMAIN answers', NEW b \in DOMAIN answers',
                 answers'[a] = answers'[b]
          PROVE  a = b
      <4>1. \A i \in 1..(Len(answers) + 1) :
              i \in 1..Len(answers) \/ i = Len(answers) + 1
        BY <3>3
      <4>2. \A i \in 1..Len(answers) : answers[i] # n /\ answers'[i] = answers[i]
        BY <3>2, <3>3 DEF Range
      <4>3. \A i, j \in 1..Len(answers) : answers[i] = answers[j] => i = j
        BY <1>4, <3>3 DEF IsInjective
      <4> QED
        BY <3>3, <3>4, <4>1, <4>2, <4>3
    <3>5. IsInjective(answers') /\ Range(answers') \subseteq Range(handled')
      BY <1>4, <2>1, <3>2, <3>3, <3>4 DEF IsInjective
    <3>6. ASSUME NEW m \in Range(handled'), Type(m)' = "dialog"
          PROVE  m \in Range(answers')
      <4>1. m \in Range(handled) /\ Type(m) = "dialog"
        BY <1>3, <2>1, <3>6
      <4>2. m \in Range(answers) \/ m = n
        BY <1>1, <2>3, <3>1, <4>1 DEF DialogsAnswered
      <4> QED
        BY <3>3, <4>2
    <3> QED
      BY <2>2, <3>5, <3>6 DEF DialogsAnswered
  <2>4. CASE answers' = answers /\ ~stdinOpen
    <3>1. ~stdinOpen'
      BY <2>1, <2>4 DEF stdinOpen, closed
    <3> QED
      BY <1>5, <2>1, <2>2, <2>4, <3>1
  <2> QED
    BY <1>2, <1>9, <2>3, <2>4, <2>5 DEF AnswerDialog, stdinOpen, closed
<1>10. CASE DispatchDone
  <2>1. /\ UNCHANGED <<handled, answers, alive, closing>> /\ Dispatching
        /\ reader'.at = IF Type(Last(handled)) = "dialog" THEN "inUi" ELSE "record"
    BY <1>2, <1>10 DEF DispatchDone, piVars, Dispatching
  <2>2. Dispatching' \/ Type(Last(handled)) # "dialog"
    BY <2>1 DEF Dispatching
  <2> QED
    BY <1>5, <2>1, <2>2 DEF stdinOpen, closed
<1>11. CASE CallHandler \/ HandlerEnds
  <2>1. /\ UNCHANGED <<handled, answers, alive, closing>>
        /\ Dispatching /\ Dispatching'
    BY <1>2, <1>11 DEF CallHandler, HandlerEnds, piVars, Dispatching
  <2> QED
    BY <1>5, <2>1 DEF stdinOpen, closed
<1>12. CASE ReadChunk \/ ReadEof \/ ChunkDone
  <2>1. /\ UNCHANGED <<handled, answers, alive, closing>>
        /\ reader.at \in {"read", "record"}
    BY <1>12 DEF ReadChunk, ReadEof, ChunkDone, piVars
  <2>2. reader'.at \in {"read", "record", "stopped", "dead"}
    <3>1. CASE ReadChunk
      BY <3>1, ReadDelivered
    <3> QED
      BY <1>2, <1>12, <3>1 DEF ReadEof, ChunkDone
  <2>3. ~Held /\ ~Dispatching'
    BY <2>1, <2>2 DEF Dispatching
  <2> QED
    BY <1>5, <2>1, <2>3 DEF stdinOpen, closed
<1>13. CASE CancelReader
  <2>1. /\ UNCHANGED <<handled, answers>> /\ ~stdinOpen'
        /\ reader'.at \in {"stopped", "dead"}
    BY <1>2, <1>13 DEF CancelReader, stdinOpen
  <2> QED
    BY <1>5, <2>1 DEF Dispatching
<1>14. ASSUME UNCHANGED <<handled, answers, reader>>, alive' => alive,
              closing' = "open" => closing = "open"
       PROVE  DialogsAnswered'
  BY <1>5, <1>14 DEF Dispatching, stdinOpen, closed
<1>15. CASE \/ \E r \in Records : PiWrites(r)
            \/ PiExits \/ BeginClose \/ FinishClose \/ UNCHANGED vars
  <2>1. /\ UNCHANGED <<handled, answers, reader>>
        /\ alive' => alive
        /\ closing' = "open" => closing = "open"
    BY <1>15 DEF PiWrites, PiExits, BeginClose, FinishClose, vars, readerVars,
                 piVars
  <2> QED
    BY <1>14, <2>1
<1>16. ASSUME NEW s \in Subscribers, Subscribe(s) \/ Unsubscribe(s)
       PROVE  UNCHANGED <<handled, answers, reader, alive, closing>>
  BY <1>16 DEF Subscribe, Unsubscribe, readerVars, piVars
<1>17. ASSUME NEW p \in Prompts, PromptStep(p) \/ PromptTimesOut(p)
       PROVE  UNCHANGED <<handled, answers, reader, alive, closing>>
  BY <1>17 DEF PromptStep, BeginPrompt, PromptReplied, PromptDone,
               PromptTimesOut, readerVars, piVars
<1>18. ASSUME NEW w \in Waiters,
              \/ BeginWait(w) \/ WaiterGets(w) \/ WaiterReturns(w)
              \/ WaiterSeesClose(w) \/ WaiterGivesUp(w)
       PROVE  UNCHANGED <<handled, answers, reader, alive, closing>>
  BY <1>18 DEF BeginWait, WaiterGets, WaiterReturns, WaiterSeesClose,
               WaiterGivesUp, readerVars, piVars
<1>19. CASE UNCHANGED <<handled, answers, reader, alive, closing>>
  BY <1>14, <1>19
<1> QED
  BY <1>7, <1>8, <1>9, <1>10, <1>11, <1>12, <1>13, <1>15, <1>16, <1>17, <1>18,
     <1>19 DEF Next, ReaderStep, CloseStep

-----------------------------------------------------------------------------
(* The specification.                                                      *)

\* The order of the records, what each handler has seen, and the answers are
\* one inductive invariant.
THEOREM EventsCorrect == Spec => []IInv
<1>1. Init => IInv
  BY TypeInit
<1>2. IInv /\ [Next]_vars => IInv'
  <2> SUFFICES ASSUME IInv, [Next]_vars PROVE IInv'
    OBVIOUS
  <2>1. DeliveredInOrder'
    BY DeliveredStep
  <2>2. CalledOnce'
    BY HandlersStep, InHandStep DEF CalledOnce, InHandOK
  <2>3. HandlersSeeAll'
    BY <2>2, SeenStep DEF HandlersSeeAll, SeenAll
  <2>4. DialogsAnswered'
    BY DialogsStep
  <2> QED
    BY <2>1, <2>3, <2>4 DEF IInv
<1> QED
  BY <1>1, <1>2, PTL DEF Spec

\* Whatever the sizes of the chunks, and whatever the handlers, the clients
\* and close() do in between, the reader handles the records of pi each once
\* and in the order pi wrote them, and nothing ends it but a full buffer and
\* the answer to a dialog (rpc.py:569-704, jsonl.py:52-96).
THEOREM EventsInOrder == Spec => []DeliveredInOrder
<1>1. IInv => DeliveredInOrder
  BY DEF IInv
<1> QED
  BY <1>1, EventsCorrect, PTL

\* Every handler that is installed sees every event since it was, once and in
\* order, whatever the others do (rpc.py:392-411, 641-657).
THEOREM EveryHandlerSeesAll == Spec => []HandlersSeeAll
<1>1. IInv => HandlersSeeAll
  BY DEF IInv
<1> QED
  BY <1>1, EventsCorrect, PTL

\* pi gets an answer to each dialog, and only one, while its stdin is open,
\* but for the one whose answer ends the reader (rpc.py:659-704).
THEOREM DialogsGetAnswers == Spec => []DialogsAnswered
<1>1. IInv => DialogsAnswered
  BY DEF IInv
<1> QED
  BY <1>1, EventsCorrect, PTL
=============================================================================
