--------------------------- MODULE ScheduleProofs ---------------------------
(***************************************************************************)
(* Proofs about Schedule, for every length of an epoch, every leader       *)
(* schedule, every lag of the RPC and every length of a window.            *)
(***************************************************************************)
EXTENDS Schedule, LeastElement, FiniteSetTheorems, SequenceTheorems

(* Epochs. *)

\* Where an epoch begins.
LEMMA EpochQuotient ==
  ASSUME NEW s \in Slots
  PROVE  \E q \in Nat : /\ q < Epochs /\ EpochStart(s) = EpochLen * q
                        /\ EpochStart(s) <= s /\ s < EpochStart(s) + EpochLen
<1> DEFINE q == s \div EpochLen
           r == s % EpochLen
<1>1. EpochLen \in Nat /\ EpochLen > 0 /\ Epochs \in Nat /\ Epochs > 0
  BY ScheduleAssumption
<1>2. s \in Nat /\ s < EpochLen * Epochs
  BY <1>1 DEF Slots
<1>3. q \in Nat /\ r \in Nat /\ s = EpochLen * q + r /\ r < EpochLen
  BY <1>1, <1>2, SMT
<1>4. EpochStart(s) = EpochLen * q /\ EpochStart(s) <= s /\ s < EpochStart(s) + EpochLen
  BY <1>1, <1>2, <1>3, SMT DEF EpochStart
<1> HIDE DEF q, r
<1>5. q < Epochs
  <2>1. SUFFICES ASSUME q >= Epochs PROVE FALSE
    BY <1>1, <1>3
  <2>2. EpochLen * q >= EpochLen * Epochs
    BY <1>1, <1>3, <2>1, SMT
  <2>3. QED
    BY <1>1, <1>2, <1>3, <2>2, SMT
<1>6. QED
  BY <1>3, <1>4, <1>5

LEMMA EpochBounds ==
  ASSUME NEW s \in Slots
  PROVE  /\ EpochStart(s) \in Slots /\ EpochStart(s) <= s
         /\ EpochEnd(s) \in Nat /\ s < EpochEnd(s) /\ EpochEnd(s) <= EpochLen * Epochs
         /\ EpochStart(EpochStart(s)) = EpochStart(s)
         /\ SlotsOfEpoch(EpochStart(s)) = SlotsOfEpoch(s)
<1>1. EpochLen \in Nat /\ EpochLen > 0 /\ Epochs \in Nat /\ Epochs > 0
  BY ScheduleAssumption
<1>2. PICK q \in Nat : /\ q < Epochs /\ EpochStart(s) = EpochLen * q
                       /\ EpochStart(s) <= s /\ s < EpochStart(s) + EpochLen
  BY EpochQuotient
<1> DEFINE e == EpochStart(s)
<1>3. s \in Nat /\ s < EpochLen * Epochs
  BY <1>1 DEF Slots
<1>4. e \in Nat /\ e <= s /\ s < e + EpochLen
  BY <1>1, <1>2, SMT
<1>5. e \in Slots
  BY <1>1, <1>3, <1>4 DEF Slots
<1>6. e + EpochLen <= EpochLen * Epochs
  <2>1. q + 1 <= Epochs
    BY <1>1, <1>2
  <2>2. EpochLen * (q + 1) <= EpochLen * Epochs
    BY <1>1, <2>1, SMT
  <2>3. QED
    BY <1>1, <1>2, <2>2, SMT
<1>7. EpochStart(e) = e
  <2>1. PICK p \in Nat : /\ EpochStart(e) = EpochLen * p
                         /\ EpochStart(e) <= e /\ e < EpochStart(e) + EpochLen
    BY <1>5, EpochQuotient
  <2>2. EpochLen * p <= EpochLen * q /\ EpochLen * q < EpochLen * (p + 1)
    BY <1>1, <1>2, <2>1, SMT
  <2>3. ~ (p > q)
    <3>1. SUFFICES ASSUME p >= q + 1 PROVE FALSE
      OBVIOUS
    <3>2. EpochLen * p >= EpochLen * (q + 1)
      BY <1>1, <3>1, SMT
    <3>3. QED
      BY <1>1, <2>2, <3>2, SMT
  <2>4. ~ (q > p)
    <3>1. SUFFICES ASSUME q >= p + 1 PROVE FALSE
      OBVIOUS
    <3>2. EpochLen * q >= EpochLen * (p + 1)
      BY <1>1, <3>1, SMT
    <3>3. QED
      BY <1>1, <2>2, <3>2, SMT
  <2>5. p = q
    BY <2>3, <2>4
  <2>6. QED
    BY <1>2, <2>1, <2>5
<1>8. QED
  BY <1>1, <1>4, <1>5, <1>6, <1>7 DEF EpochEnd, SlotsOfEpoch
-----------------------------------------------------------------------------
(* Sorting. *)

LEMMA Greatest ==
  ASSUME NEW b \in Nat, NEW S \in SUBSET (0..b), S # {}
  PROVE  \E m \in S : \A s \in S : s <= m
<1> DEFINE T == {b - s : s \in S}
<1>1. T \subseteq Nat /\ T # {}
  <2>1. \A s \in S : s \in 0..b /\ b - s \in Nat
    OBVIOUS
  <2>2. QED
    BY <2>1
<1>2. PICK t \in T : \A k \in T : t <= k
  BY <1>1, Least
<1>3. PICK m \in S : t = b - m
  BY <1>2
<1>4. ASSUME NEW s \in S PROVE s <= m
  <2>1. t <= b - s
    BY <1>2
  <2>2. QED
    BY <1>3, <2>1
<1>5. QED
  BY <1>4

Increasing(q, n) == \A i, j \in 1..n : i < j => q[i] < q[j]

\* Every set of slots can be put in order.
LEMMA Sortable ==
  ASSUME NEW b \in Nat, NEW S \in SUBSET (0..b)
  PROVE  \E q \in [1..Cardinality(S) -> S] : Increasing(q, Cardinality(S))
<1> DEFINE Unsorted(n) == \E U \in SUBSET (0..b) :
             Cardinality(U) = n /\ ~ \E q \in [1..n -> U] : Increasing(q, n)
           N == {n \in Nat : Unsorted(n)}
<1>1. \A U \in SUBSET (0..b) : IsFiniteSet(U) /\ Cardinality(U) \in Nat
  <2>1. IsFiniteSet(0..b)
    BY FS_Interval
  <2>2. QED
    BY <2>1, FS_Subset, FS_CardinalityType
<1>2. SUFFICES ASSUME N # {} PROVE FALSE
  BY <1>1
<1>3. PICK n \in N : \A k \in N : n <= k
  BY <1>2, Least
<1>4. PICK U \in SUBSET (0..b) :
        Cardinality(U) = n /\ ~ \E q \in [1..n -> U] : Increasing(q, n)
  BY <1>3
<1>5. n \in Nat /\ IsFiniteSet(U)
  BY <1>1
<1>6. CASE n = 0
  <2>1. [i \in 1..0 |-> 0] \in [1..0 -> U]
    OBVIOUS
  <2>2. Increasing([i \in 1..0 |-> 0], 0)
    BY DEF Increasing
  <2>3. QED
    BY <1>4, <1>6, <2>1, <2>2
<1>7. CASE n > 0
  <2>1. U # {}
    BY <1>4, <1>7, FS_EmptySet
  <2>2. PICK m \in U : \A s \in U : s <= m
    BY <2>1, Greatest
  <2> DEFINE V == U \ {m}
  <2>3. V \in SUBSET (0..b) /\ Cardinality(V) = n - 1 /\ n - 1 \in Nat
    BY <1>4, <1>5, <1>7, FS_RemoveElement
  <2>4. n - 1 \notin N
    BY <1>3, <1>5
  <2>5. PICK q \in [1..n-1 -> V] : Increasing(q, n - 1)
    BY <2>3, <2>4
  <2> DEFINE r == [i \in 1..n |-> IF i = n THEN m ELSE q[i]]
  <2>6. \A i \in 1..n : i # n => i \in 1..n-1
    BY <1>5
  <2>7. r \in [1..n -> U]
    BY <2>2, <2>5, <2>6
  <2>8. Increasing(r, n)
    <3> SUFFICES ASSUME NEW i \in 1..n, NEW j \in 1..n, i < j PROVE r[i] < r[j]
      BY DEF Increasing
    <3>1. i # n /\ i \in 1..n-1 /\ r[i] = q[i] /\ q[i] \in V
      BY <1>5, <2>5
    <3>2. CASE j = n
      <4>1. q[i] <= m /\ q[i] # m
        BY <2>2, <3>1
      <4>4. q[i] \in 0..b /\ m \in 0..b
        BY <2>2, <3>1
      <4>2. r[j] = m
        BY <3>2
      <4>3. QED
        BY <3>1, <4>1, <4>2, <4>4
    <3>3. CASE j # n
      BY <2>5, <2>6, <3>1, <3>3 DEF Increasing
    <3>4. QED
      BY <3>2, <3>3
  <2>9. QED
    BY <1>4, <2>7, <2>8
<1>8. QED
  BY <1>5, <1>6, <1>7

\* Sorted(S) is S in order.
LEMMA SortedIs ==
  ASSUME NEW b \in Nat, NEW S \in SUBSET (0..b)
  PROVE  /\ Sorted(S) \in Seq(S) /\ Len(Sorted(S)) \in Nat
         /\ Increasing(Sorted(S), Len(Sorted(S)))
         /\ S = {Sorted(S)[i] : i \in 1..Len(Sorted(S))}
<1> DEFINE n == Cardinality(S)
           q == Sorted(S)
<1>1. IsFiniteSet(S) /\ n \in Nat
  <2>1. IsFiniteSet(0..b)
    BY FS_Interval
  <2>2. QED
    BY <2>1, FS_Subset, FS_CardinalityType
<1>2. q \in [1..n -> S] /\ Increasing(q, n)
  BY Sortable DEF Sorted, Increasing
<1> HIDE DEF n, q
<1>3. q \in Seq(S) /\ Len(q) = n
  BY <1>1, <1>2, SeqDef, LenProperties
<1>4. q \in Injection(1..n, S)
  <2>1. \A i, j \in 1..n : i < j \/ j < i \/ i = j
    BY <1>1
  <2>2. \A i, j \in 1..n : q[i] = q[j] => i = j
    <3>1. \A i \in 1..n : q[i] \in Nat
      <4>1. \A s \in S : s \in Nat
        OBVIOUS
      <4>2. \A i \in 1..n : q[i] \in S
        BY <1>2
      <4>3. QED
        BY <4>1, <4>2
    <3>2. \A i, j \in 1..n : i < j => q[i] # q[j]
      BY <1>2, <3>1 DEF Increasing
    <3>3. QED
      BY <2>1, <3>2
  <2>3. QED
    BY <1>2, <2>2 DEF Injection, IsInjective
<1>5. IsFiniteSet(1..n) /\ Cardinality(1..n) = n
  BY <1>1, FS_Interval
<1>6. q \in Surjection(1..n, S)
  BY <1>1, <1>4, <1>5, FS_Injection DEF n
<1>7. \A s \in S : \E i \in 1..n : q[i] = s
  BY <1>6 DEF Surjection
<1>8. QED
  BY <1>1, <1>2, <1>3, <1>7 DEF q
-----------------------------------------------------------------------------
(* Runs. *)

Run == [first : Nat, last : Nat]

\* The loop of _runs is well defined.
LEMMA RunsUpToIs ==
  ASSUME NEW slots, Len(slots) \in Nat
  PROVE  /\ RunsUpTo(slots)[0] = <<>>
         /\ \A i \in 1..Len(slots) : RunsUpTo(slots)[i] = AddSlot(RunsUpTo(slots)[i-1], slots[i])
<1> DEFINE Loop(g, n) ==
             g = [i \in 0..n |-> IF i = 0 THEN <<>> ELSE AddSlot(g[i-1], slots[i])]
           N == {n \in Nat : ~ \E g : Loop(g, n)}
<1>1. N = {}
  <2>1. SUFFICES ASSUME N # {} PROVE FALSE
    OBVIOUS
  <2>2. PICK n \in N : \A k \in N : n <= k
    <3>1. N \subseteq Nat
      OBVIOUS
    <3> HIDE DEF N
    <3>2. QED
      BY <2>1, <3>1, Least
  <2>3. n \in Nat /\ ~ \E g : Loop(g, n)
    OBVIOUS
  <2>4. CASE n = 0
    <3> DEFINE g == [i \in 0..0 |-> <<>>]
    <3>1. Loop(g, 0)
      OBVIOUS
    <3>2. QED
      BY <2>3, <2>4, <3>1
  <2>5. CASE n > 0
    <3>1. n - 1 \in Nat /\ n - 1 \notin N
      <4>1. n - 1 \in Nat /\ ~ (n <= n - 1)
        BY <2>3, <2>5
      <4> HIDE DEF N
      <4>2. QED
        BY <2>2, <4>1
    <3>2. PICK g : Loop(g, n - 1)
      BY <3>1
    <3> DEFINE h == [i \in 0..n |-> IF i = n THEN AddSlot(g[n-1], slots[n]) ELSE g[i]]
    <3>3. ASSUME NEW i \in 0..n
          PROVE  h[i] = IF i = 0 THEN <<>> ELSE AddSlot(h[i-1], slots[i])
      <4>1. CASE i = 0
        BY <2>5, <3>2, <4>1
      <4>2. CASE i = n
        <5>1. i # 0 /\ n - 1 \in 0..n /\ n - 1 # n
          BY <2>3, <2>5, <4>2
        <5>2. h[n-1] = g[n-1] /\ h[n] = AddSlot(g[n-1], slots[n])
          BY <5>1
        <5>3. QED
          BY <4>2, <5>1, <5>2
      <4>3. CASE i # 0 /\ i # n
        <5>1. i \in 0..n-1 /\ i - 1 \in 0..n /\ i - 1 # n
          BY <2>3, <4>3
        <5>2. h[i-1] = g[i-1] /\ h[i] = g[i]
          BY <4>3, <5>1
        <5>3. g[i] = AddSlot(g[i-1], slots[i])
          BY <3>2, <4>3, <5>1
        <5>4. QED
          BY <4>3, <5>2, <5>3
      <4>4. QED
        BY <4>1, <4>2, <4>3
    <3>4. Loop(h, n)
      BY <3>3
    <3>5. QED
      BY <2>3, <3>4
  <2>6. QED
    BY <2>3, <2>4, <2>5
<1> DEFINE n == Len(slots)
           f == RunsUpTo(slots)
<1>2. \E g : Loop(g, n)
  BY <1>1
<1>3. Loop(f, n)
  BY <1>2 DEF RunsUpTo
<1> HIDE DEF f
<1>4. f = [i \in 0..n |-> IF i = 0 THEN <<>> ELSE AddSlot(f[i-1], slots[i])]
  BY <1>3
<1>5. f[0] = <<>> /\ \A i \in 1..n : f[i] = AddSlot(f[i-1], slots[i])
  BY <1>4
<1>6. QED
  BY <1>5 DEF f

\* R are the maximal runs of consecutive slots of U, in order.
IsRuns(R, U) ==
  /\ R \in Seq(Run)
  /\ \A k \in 1..Len(R) : R[k].first <= R[k].last /\ R[k].first .. R[k].last \subseteq U
  /\ \A k, m \in 1..Len(R) : k < m => R[k].last + 1 < R[m].first
  /\ \A x \in U : \E k \in 1..Len(R) : x \in R[k].first .. R[k].last

\* _runs with one more slot.
LEMMA AddSlotRuns ==
  ASSUME NEW U \in SUBSET Nat, NEW R, IsRuns(R, U), NEW s \in Nat, \A x \in U : x < s
  PROVE  IsRuns(AddSlot(R, s), U \cup {s})
<1> DEFINE n == Len(R)
           Q == AddSlot(R, s)
<1>1. R \in Seq(Run) /\ n \in Nat /\ \A k \in 1..n : R[k] \in Run
  BY ElementOfSeq, LenProperties DEF IsRuns
<1>2. \A k \in 1..n : R[k].first \in Nat /\ R[k].last \in Nat /\ R[k].last \in U /\ R[k].last < s
  <2>1. \A k \in 1..n : R[k].first \in Nat /\ R[k].last \in Nat
    BY <1>1 DEF Run
  <2>2. QED
    BY <2>1 DEF IsRuns
<1>3. CASE n > 0 /\ s = R[n].last + 1
  <2> DEFINE r == [first |-> R[n].first, last |-> s]
  <2>1. Q = [R EXCEPT ![n] = r]
    BY <1>3 DEF AddSlot
  <2>2. r \in Run /\ n \in 1..n
    BY <1>1, <1>2, <1>3 DEF Run
  <2>3. Q \in Seq(Run) /\ Len(Q) = n /\ Q[n] = r /\ \A k \in 1..n : k # n => Q[k] = R[k]
    BY <1>1, <2>1, <2>2, ExceptSeq
  <2> HIDE DEF Q
  <2>4. \A k \in 1..n : Q[k].first = R[k].first
    BY <2>3
  <2>5. ASSUME NEW k \in 1..n
        PROVE  Q[k].first <= Q[k].last /\ Q[k].first .. Q[k].last \subseteq U \cup {s}
    <3>1. CASE k = n
      BY <1>2, <1>3, <2>2, <2>3, <3>1 DEF IsRuns
    <3>2. CASE k # n
      BY <2>3, <3>2 DEF IsRuns
    <3>3. QED
      BY <3>1, <3>2
  <2>6. ASSUME NEW k \in 1..n, NEW m \in 1..n, k < m
        PROVE  Q[k].last + 1 < Q[m].first
    <3>1. k # n
      BY <1>1, <2>6
    <3>2. QED
      BY <2>3, <2>4, <2>6, <3>1 DEF IsRuns
  <2>7. ASSUME NEW x \in U \cup {s}
        PROVE  \E k \in 1..n : x \in Q[k].first .. Q[k].last
    <3>1. CASE x = s
      <4>1. Q[n].last = s /\ Q[n].first = R[n].first
        BY <2>2, <2>3, <2>4
      <4>2. R[n].first \in Nat /\ R[n].first <= R[n].last /\ R[n].last \in Nat
        BY <1>2, <2>2 DEF IsRuns
      <4>3. s \in Q[n].first .. Q[n].last
        BY <1>3, <4>1, <4>2
      <4>4. QED
        BY <2>2, <3>1, <4>3
    <3>2. CASE x \in U
      <4>1. PICK k \in 1..n : x \in R[k].first .. R[k].last
        BY <3>2 DEF IsRuns
      <4>2. Q[k].last >= R[k].last /\ Q[k].last \in Nat
        BY <1>2, <2>3
      <4>3. QED
        BY <1>2, <2>4, <4>1, <4>2
    <3>3. QED
      BY <3>1, <3>2
  <2>8. QED
    BY <2>3, <2>5, <2>6, <2>7 DEF IsRuns, Q
<1>4. CASE ~ (n > 0 /\ s = R[n].last + 1)
  <2> DEFINE r == [first |-> s, last |-> s]
  <2>1. Q = Append(R, r)
    BY <1>4 DEF AddSlot
  <2>2. r \in Run
    BY DEF Run
  <2>3. /\ Q \in Seq(Run) /\ Len(Q) = n + 1 /\ Q[n+1] = r
        /\ \A k \in 1..n : Q[k] = R[k]
    BY <1>1, <2>1, <2>2, AppendProperties
  <2> HIDE DEF Q
  <2>4. \A k \in 1..n+1 : k \in 1..n \/ k = n + 1
    BY <1>1
  <2>5. ASSUME NEW k \in 1..n+1
        PROVE  Q[k].first <= Q[k].last /\ Q[k].first .. Q[k].last \subseteq U \cup {s}
    <3>1. CASE k = n + 1
      BY <2>3, <3>1
    <3>2. CASE k \in 1..n
      BY <2>3, <3>2 DEF IsRuns
    <3>3. QED
      BY <2>4, <3>1, <3>2
  <2>6. ASSUME NEW k \in 1..n+1, NEW m \in 1..n+1, k < m
        PROVE  Q[k].last + 1 < Q[m].first
    <3>1. k \in 1..n
      BY <1>1, <2>6
    <3>2. CASE m \in 1..n
      BY <2>3, <2>6, <3>1, <3>2 DEF IsRuns
    <3>3. CASE m = n + 1
      <4>1. n > 0 /\ n \in 1..n /\ R[n].last + 1 < s
        BY <1>1, <1>2, <1>4, <3>1
      <4>2. R[k].last <= R[n].last
        <5>1. k < n \/ k = n
          BY <1>1, <3>1
        <5>2. CASE k < n
          BY <1>2, <3>1, <4>1, <5>2 DEF IsRuns
        <5>3. QED
          BY <1>2, <4>1, <5>1, <5>2
      <4>3. Q[k] = R[k] /\ Q[m].first = s
        BY <2>3, <3>1, <3>3
      <4>4. QED
        BY <1>2, <3>1, <4>1, <4>2, <4>3
    <3>4. QED
      BY <2>4, <3>2, <3>3
  <2>7. ASSUME NEW x \in U \cup {s}
        PROVE  \E k \in 1..n+1 : x \in Q[k].first .. Q[k].last
    <3>1. CASE x = s
      BY <1>1, <2>3, <3>1
    <3>2. CASE x \in U
      BY <1>1, <2>3, <3>2 DEF IsRuns
    <3>3. QED
      BY <3>1, <3>2
  <2>8. QED
    BY <2>3, <2>5, <2>6, <2>7 DEF IsRuns, Q
<1>5. QED
  BY <1>3, <1>4

\* _runs finds the maximal runs.
LEMMA RunsAre ==
  ASSUME NEW slots \in Seq(Nat), Increasing(slots, Len(slots))
  PROVE  IsRuns(Runs(slots), {slots[m] : m \in 1..Len(slots)})
<1> DEFINE n == Len(slots)
           f == RunsUpTo(slots)
           U(i) == {slots[m] : m \in 1..i}
           N == {i \in Nat : i <= n /\ ~ IsRuns(f[i], U(i))}
<1>1. n \in Nat /\ \A m \in 1..n : slots[m] \in Nat
  BY ElementOfSeq, LenProperties
<1>2. f[0] = <<>> /\ \A i \in 1..n : f[i] = AddSlot(f[i-1], slots[i])
  BY <1>1, RunsUpToIs
<1>2a. SUFFICES ~ \E i \in Nat : i <= n /\ ~ IsRuns(f[i], U(i))
  <2>1. n \in Nat /\ n <= n
    BY <1>1
  <2>2. IsRuns(f[n], U(n))
    BY <2>1
  <2>3. QED
    BY <2>2 DEF Runs
<1>3. SUFFICES ASSUME N # {} PROVE FALSE
  OBVIOUS
<1>4. PICK i \in N : \A k \in N : i <= k
  <2>1. N \subseteq Nat
    OBVIOUS
  <2> HIDE DEF N
  <2>2. QED
    BY <1>3, <2>1, Least
<1>5. i \in 0..n /\ ~ IsRuns(f[i], U(i))
  BY <1>1
<1> HIDE DEF f
<1>6. CASE i = 0
  <2>1. IsRuns(<<>>, {})
    <3>1. <<>> \in Seq(Run) /\ Len(<<>>) = 0
      BY EmptySeq
    <3>2. QED
      BY <3>1 DEF IsRuns
  <2>2. U(0) = {}
    OBVIOUS
  <2>3. QED
    BY <1>2, <1>5, <1>6, <2>1, <2>2
<1>7. CASE i > 0
  <2>1. i \in 1..n /\ i - 1 \in Nat /\ i - 1 <= n /\ i - 1 < i
    BY <1>1, <1>5, <1>7
  <2>2. IsRuns(f[i-1], U(i-1))
    <3>1. i - 1 \notin N
      <4> HIDE DEF N
      <4>1. ~ (i <= i - 1)
        BY <2>1
      <4>2. QED
        BY <1>4, <4>1
    <3> HIDE DEF U
    <3>2. QED
      BY <2>1, <3>1
  <2>3. U(i-1) \in SUBSET Nat /\ slots[i] \in Nat /\ \A x \in U(i-1) : x < slots[i]
    <3>1. \A m \in 1..i-1 : m \in 1..n /\ m < i
      BY <1>1, <2>1
    <3>2. QED
      BY <1>1, <2>1, <3>1 DEF Increasing
  <2>4. U(i) = U(i-1) \cup {slots[i]}
    <3>1. \A m : m \in 1..i <=> m \in 1..i-1 \/ m = i
      BY <2>1
    <3>2. QED
      BY <3>1
  <2>5. IsRuns(AddSlot(f[i-1], slots[i]), U(i-1) \cup {slots[i]})
    <3> HIDE DEF U
    <3>1. QED
      BY <2>2, <2>3, AddSlotRuns
  <2>6. QED
    BY <1>2, <1>5, <2>1, <2>4, <2>5
<1>8. QED
  BY <1>5, <1>6, <1>7
-----------------------------------------------------------------------------
(* Windows. *)

Start(current) == [cursor |-> current, windows |-> <<>>]

\* The loop of _free_windows is well defined.
LEMMA WindowsUpToIs ==
  ASSUME NEW current, NEW runs, Len(runs) \in Nat
  PROVE  /\ WindowsUpTo(current, runs)[0] = Start(current)
         /\ \A i \in 1..Len(runs) :
              WindowsUpTo(current, runs)[i] = AddWindow(WindowsUpTo(current, runs)[i-1], runs[i])
<1> DEFINE Loop(g, n) ==
             g = [i \in 0..n |-> IF i = 0 THEN Start(current) ELSE AddWindow(g[i-1], runs[i])]
           N == {n \in Nat : ~ \E g : Loop(g, n)}
<1>1. N = {}
  <2>1. SUFFICES ASSUME N # {} PROVE FALSE
    OBVIOUS
  <2>2. PICK n \in N : \A k \in N : n <= k
    <3>1. N \subseteq Nat
      OBVIOUS
    <3> HIDE DEF N
    <3>2. QED
      BY <2>1, <3>1, Least
  <2>3. n \in Nat /\ ~ \E g : Loop(g, n)
    OBVIOUS
  <2>4. CASE n = 0
    <3> DEFINE g == [i \in 0..0 |-> Start(current)]
    <3>1. Loop(g, 0)
      OBVIOUS
    <3>2. QED
      BY <2>3, <2>4, <3>1
  <2>5. CASE n > 0
    <3>1. n - 1 \in Nat /\ n - 1 \notin N
      <4>1. n - 1 \in Nat /\ ~ (n <= n - 1)
        BY <2>3, <2>5
      <4> HIDE DEF N
      <4>2. QED
        BY <2>2, <4>1
    <3>2. PICK g : Loop(g, n - 1)
      BY <3>1
    <3> DEFINE h == [i \in 0..n |-> IF i = n THEN AddWindow(g[n-1], runs[n]) ELSE g[i]]
    <3>3. ASSUME NEW i \in 0..n
          PROVE  h[i] = IF i = 0 THEN Start(current) ELSE AddWindow(h[i-1], runs[i])
      <4>1. CASE i = 0
        BY <2>5, <3>2, <4>1
      <4>2. CASE i = n
        <5>1. i # 0 /\ n - 1 \in 0..n /\ n - 1 # n
          BY <2>3, <2>5, <4>2
        <5>2. h[n-1] = g[n-1] /\ h[n] = AddWindow(g[n-1], runs[n])
          BY <5>1
        <5>3. QED
          BY <4>2, <5>1, <5>2
      <4>3. CASE i # 0 /\ i # n
        <5>1. i \in 0..n-1 /\ i - 1 \in 0..n /\ i - 1 # n
          BY <2>3, <4>3
        <5>2. h[i-1] = g[i-1] /\ h[i] = g[i]
          BY <4>3, <5>1
        <5>3. g[i] = AddWindow(g[i-1], runs[i])
          BY <3>2, <4>3, <5>1
        <5>4. QED
          BY <4>3, <5>2, <5>3
      <4>4. QED
        BY <4>1, <4>2, <4>3
    <3>4. Loop(h, n)
      BY <3>3
    <3>5. QED
      BY <2>3, <3>4
  <2>6. QED
    BY <2>3, <2>4, <2>5
<1> DEFINE n == Len(runs)
           f == WindowsUpTo(current, runs)
<1>2. \E g : Loop(g, n)
  BY <1>1
<1>3. Loop(f, n)
  BY <1>2 DEF WindowsUpTo, Start
<1> HIDE DEF f
<1>4. f = [i \in 0..n |-> IF i = 0 THEN Start(current) ELSE AddWindow(f[i-1], runs[i])]
  BY <1>3
<1>5. f[0] = Start(current) /\ \A i \in 1..n : f[i] = AddWindow(f[i-1], runs[i])
  BY <1>4
<1>6. QED
  BY <1>5 DEF f

\* What lies between two neighbours of U, in a sequence that begins at a and
\* ends before e: IsFree, with its free variables named.
Gap(U, a, e, w) ==
  /\ w.start < w.end /\ w.end - w.start >= MinWindow
  /\ w.start = a \/ w.start - 1 \in U
  /\ w.end = e \/ w.end \in U
  /\ w.start .. w.end - 1 \cap U = {}

Spans(a, e) == [start : a..e, end : a..e]

\* ws are the gaps that end before c, in order.
GapsBefore(ws, U, a, e, c) ==
  /\ ws \in Seq(Spans(a, e))
  /\ \A w \in Spans(a, e) : (Gap(U, a, e, w) /\ w.end < c) <=> \E i \in 1..Len(ws) : w = ws[i]
  /\ \A i, j \in 1..Len(ws) : i < j => ws[i].end < ws[j].start

\* f..l-1 is the run after the cursor c, or f and l are the end of the epoch.
IsNext(U, a, e, c, f, l) ==
  /\ a <= c /\ c <= f /\ f <= l /\ f <= e
  /\ c = a \/ c - 1 \in U
  /\ f = e \/ f \in U
  /\ \A x \in c .. f - 1 : x \notin U
  /\ \A x \in f .. l - 1 : x \in U

\* Between the cursor and the run that follows there is at most one gap.
LEMMA OneGap ==
  ASSUME NEW U \in SUBSET Nat, NEW a \in Nat, NEW e \in Nat,
         NEW c \in Nat, NEW f \in Nat, NEW l \in Nat, IsNext(U, a, e, c, f, l),
         NEW w \in Spans(a, e)
  PROVE  (Gap(U, a, e, w) /\ c <= w.end /\ w.end <= l)
           <=> (f - c > 0 /\ f - c >= MinWindow /\ w = [start |-> c, end |-> f])
<1>1. MinWindow \in Nat
  BY ScheduleAssumption
<1>2. /\ w.start \in Nat /\ a <= w.start /\ w.start <= e
      /\ w.end \in Nat /\ a <= w.end /\ w.end <= e
      /\ w = [start |-> w.start, end |-> w.end]
  BY DEF Spans
<1>3. ASSUME Gap(U, a, e, w), c <= w.end, w.end <= l
      PROVE  w.start = c /\ w.end = f
  <2>1. w.start < w.end
    BY <1>3 DEF Gap
  <2>2. \A x \in Nat : w.start <= x /\ x < w.end => x \notin U
    BY <1>2, <1>3 DEF Gap
  <2>3. f <= w.end
    <3>1. SUFFICES ASSUME w.end < f PROVE FALSE
      BY <1>2
    <3>2. w.end # e
      BY <1>2, <3>1 DEF IsNext
    <3>3. w.end \notin U
      BY <1>2, <1>3, <3>1 DEF IsNext
    <3>4. QED
      BY <1>3, <3>2, <3>3 DEF Gap
  <2>4. w.end <= f
    <3>1. SUFFICES ASSUME f < w.end PROVE FALSE
      BY <1>2
    <3>2. w.end - 1 \in Nat /\ w.start <= w.end - 1 /\ w.end - 1 < w.end
      BY <1>2, <2>1
    <3>3. w.end - 1 \in f .. l - 1
      BY <1>2, <1>3, <3>1
    <3>4. w.end - 1 \in U
      BY <3>3 DEF IsNext
    <3>5. QED
      BY <2>2, <3>2, <3>4
  <2>5. c <= w.start
    <3>1. SUFFICES ASSUME w.start < c PROVE FALSE
      BY <1>2
    <3>2. c # a /\ c - 1 \in U
      BY <1>2, <3>1 DEF IsNext
    <3>3. c - 1 \in Nat /\ w.start <= c - 1 /\ c - 1 < w.end
      BY <1>2, <1>3, <3>1
    <3>4. QED
      BY <2>2, <3>2, <3>3
  <2>6. w.start <= c
    <3>1. SUFFICES ASSUME c < w.start PROVE FALSE
      BY <1>2
    <3>2. w.start # a
      BY <1>2, <3>1 DEF IsNext
    <3>3. w.start - 1 \in c .. f - 1
      BY <1>2, <2>1, <2>4, <3>1
    <3>4. w.start - 1 \notin U
      BY <3>3 DEF IsNext
    <3>5. QED
      BY <1>3, <3>2, <3>4 DEF Gap
  <2>7. QED
    BY <1>2, <2>3, <2>4, <2>5, <2>6
<1>4. ASSUME f - c > 0, f - c >= MinWindow, w = [start |-> c, end |-> f]
      PROVE  Gap(U, a, e, w) /\ c <= w.end /\ w.end <= l
  <2>1. w.start = c /\ w.end = f
    BY <1>4
  <2>2. c .. f - 1 \cap U = {}
    BY DEF IsNext
  <2>3. QED
    BY <1>4, <2>1, <2>2 DEF Gap, IsNext
<1>5. ASSUME Gap(U, a, e, w), c <= w.end, w.end <= l
      PROVE  f - c > 0 /\ f - c >= MinWindow /\ w = [start |-> c, end |-> f]
  BY <1>2, <1>3, <1>5 DEF Gap
<1>6. QED
  BY <1>4, <1>5

\* One turn of the loop: the window before the next run, if there is one.
LEMMA NextGap ==
  ASSUME NEW U \in SUBSET Nat, NEW a \in Nat, NEW e \in Nat,
         NEW c \in Nat, NEW f \in Nat, NEW l \in Nat, IsNext(U, a, e, c, f, l),
         NEW ws, GapsBefore(ws, U, a, e, c)
  PROVE  GapsBefore(ws \o Window(c, f), U, a, e, l + 1)
<1> DEFINE n == Len(ws)
           g == [start |-> c, end |-> f]
           ws2 == ws \o Window(c, f)
<1>1. /\ ws \in Seq(Spans(a, e)) /\ n \in Nat
      /\ \A i \in 1..n : ws[i] \in Spans(a, e) /\ ws[i].start \in Nat /\ ws[i].end \in Nat
  <2>1. ws \in Seq(Spans(a, e))
    BY DEF GapsBefore
  <2>2. n \in Nat /\ \A i \in 1..n : ws[i] \in Spans(a, e)
    BY <2>1, ElementOfSeq, LenProperties
  <2>3. \A w \in Spans(a, e) : w.start \in Nat /\ w.end \in Nat
    BY DEF Spans
  <2>4. QED
    BY <2>1, <2>2, <2>3
<1>2. g \in Spans(a, e)
  BY DEF Spans, IsNext
<1>3. c <= l + 1
  BY DEF IsNext
<1>4. \A w \in Spans(a, e) :
        (Gap(U, a, e, w) /\ w.end < l + 1) <=>
          \/ \E i \in 1..n : w = ws[i]
          \/ f - c > 0 /\ f - c >= MinWindow /\ w = g
  <2> SUFFICES ASSUME NEW w \in Spans(a, e)
               PROVE  (Gap(U, a, e, w) /\ w.end < l + 1) <=>
                        \/ \E i \in 1..n : w = ws[i]
                        \/ f - c > 0 /\ f - c >= MinWindow /\ w = g
    OBVIOUS
  <2>1. w.end \in Nat
    BY DEF Spans
  <2>2. w.end < l + 1 <=> w.end < c \/ (c <= w.end /\ w.end <= l)
    BY <1>3, <2>1
  <2>3. (Gap(U, a, e, w) /\ c <= w.end /\ w.end <= l)
          <=> (f - c > 0 /\ f - c >= MinWindow /\ w = g)
    BY OneGap
  <2>4. (Gap(U, a, e, w) /\ w.end < c) <=> \E i \in 1..n : w = ws[i]
    BY DEF GapsBefore
  <2>5. QED
    BY <2>2, <2>3, <2>4
<1>5. CASE f - c > 0 /\ f - c >= MinWindow
  <2>1. ws2 = ws \o <<g>>
    BY <1>5 DEF Window
  <2>2. <<g>> \in Seq(Spans(a, e)) /\ Len(<<g>>) = 1 /\ <<g>>[1] = g
    BY <1>2
  <2>3. /\ ws2 \in Seq(Spans(a, e)) /\ Len(ws2) = n + 1 /\ ws2[n+1] = g
        /\ \A i \in 1..n : ws2[i] = ws[i]
    <3>1. ws2 = Append(ws, g)
      BY <1>1, <1>2, <2>1, AppendIsConcat
    <3>2. QED
      BY <1>1, <1>2, <3>1, AppendProperties
  <2> HIDE DEF ws2, g
  <2>4. \A i \in 1..n+1 : i \in 1..n \/ i = n + 1
    <3>1. n \in Nat
      BY <1>1
    <3> HIDE DEF n
    <3>2. QED
      BY <3>1
  <2>5. ASSUME NEW w \in Spans(a, e)
        PROVE  (Gap(U, a, e, w) /\ w.end < l + 1) <=> \E i \in 1..n+1 : w = ws2[i]
    <3>1. (\E i \in 1..n+1 : w = ws2[i]) <=> (w = g \/ \E i \in 1..n : w = ws[i])
      BY <1>1, <2>3, <2>4
    <3>2. QED
      BY <1>4, <1>5, <3>1
  <2>6. ASSUME NEW i \in 1..n+1, NEW j \in 1..n+1, i < j
        PROVE  ws2[i].end < ws2[j].start
    <3>1. i \in 1..n
      BY <1>1, <2>6
    <3>2. CASE j \in 1..n
      BY <2>3, <2>6, <3>1, <3>2 DEF GapsBefore
    <3>3. CASE j = n + 1
      <4>1. ws[i].end < c
        BY <1>1, <3>1 DEF GapsBefore
      <4>2. ws2[j].start = c /\ ws2[i] = ws[i]
        BY <2>3, <3>1, <3>3 DEF g
      <4>3. QED
        BY <4>1, <4>2
    <3>4. QED
      BY <2>4, <3>2, <3>3
  <2>7. QED
    BY <2>3, <2>5, <2>6 DEF GapsBefore, ws2
<1>6. CASE ~ (f - c > 0 /\ f - c >= MinWindow)
  <2>1. ws2 = ws
    <3>1. Window(c, f) = <<>>
      BY <1>6 DEF Window
    <3>2. QED
      BY <1>1, <3>1, ConcatEmptySeq
  <2>2. GapsBefore(ws, U, a, e, l + 1)
    BY <1>4, <1>6 DEF GapsBefore
  <2>3. QED
    BY <2>1, <2>2
<1>7. QED
  BY <1>5, <1>6

\* Where the cursor is after k runs.
Cursor(R, a, k) == IF k = 0 THEN a ELSE R[k].last + 1

\* What follows the cursor is the next run, or the end of the epoch.
LEMMA CursorNext ==
  ASSUME NEW U \in SUBSET Nat, NEW a \in Nat, NEW e \in Nat, a <= e,
         \A x \in U : a < x /\ x < e,
         NEW R, IsRuns(R, U), NEW k \in 0..Len(R)
  PROVE  /\ Cursor(R, a, k) \in Nat
         /\ k < Len(R) =>
              /\ R[k+1].first \in Nat /\ R[k+1].last \in Nat
              /\ IsNext(U, a, e, Cursor(R, a, k), R[k+1].first, R[k+1].last)
         /\ k = Len(R) => IsNext(U, a, e, Cursor(R, a, k), e, e)
<1> DEFINE n == Len(R)
           c == Cursor(R, a, k)
<1>1. R \in Seq(Run) /\ n \in Nat /\ \A m \in 1..n : R[m] \in Run
  BY ElementOfSeq, LenProperties DEF IsRuns
<1>2. \A m \in 1..n : /\ R[m].first \in Nat /\ R[m].last \in Nat
                      /\ R[m].first <= R[m].last
                      /\ R[m].first \in U /\ R[m].last \in U
                      /\ \A x \in R[m].first .. R[m].last : x \in U
  <2>1. \A m \in 1..n : R[m].first \in Nat /\ R[m].last \in Nat
    BY <1>1 DEF Run
  <2>2. QED
    BY <2>1 DEF IsRuns
<1>3. \A m, j \in 1..n : m < j => R[m].last + 1 < R[j].first
  BY DEF IsRuns
<1> HIDE DEF n
<1>4. c \in Nat /\ a <= c /\ c <= e /\ (c = a \/ c - 1 \in U)
  <2>1. CASE k = 0
    BY <2>1 DEF Cursor
  <2>2. CASE k # 0
    <3>1. k \in 1..n
      BY <1>1, <2>2 DEF n
    <3>2. c = R[k].last + 1 /\ c - 1 = R[k].last
      BY <1>2, <2>2, <3>1 DEF Cursor
    <3>3. a < R[k].last /\ R[k].last < e
      BY <1>2, <3>1
    <3>4. QED
      BY <1>2, <3>1, <3>2, <3>3
  <2>3. QED
    BY <2>1, <2>2
\* The slots led from the cursor on are those of the later runs.
<1>5. ASSUME NEW x \in U, c <= x
      PROVE  \E m \in 1..n : k < m /\ R[m].first <= x
  <2>1. PICK m \in 1..n : x \in R[m].first .. R[m].last
    BY DEF IsRuns, n
  <2>2. x \in Nat /\ R[m].first <= x /\ x <= R[m].last
    BY <1>2, <2>1
  <2>3. SUFFICES ASSUME m <= k PROVE FALSE
    BY <1>1, <2>2
  <2>4. k \in 1..n /\ c = R[k].last + 1
    BY <1>1, <2>3 DEF Cursor, n
  <2>5. R[m].last <= R[k].last
    <3>1. m < k \/ m = k
      BY <1>1, <2>3, <2>4
    <3>2. CASE m < k
      <4>1. R[m].last + 1 < R[k].first
        BY <1>3, <2>4, <3>2
      <4>2. QED
        BY <1>2, <2>4, <4>1
    <3>3. QED
      BY <1>2, <2>4, <3>1, <3>2
  <2>6. QED
    BY <1>2, <1>5, <2>2, <2>4, <2>5
<1> HIDE DEF c
<1>6. CASE k < n
  <2> DEFINE f == R[k+1].first
             l == R[k+1].last
  <2>1. k + 1 \in 1..n
    BY <1>1, <1>6
  <2>2. /\ f \in Nat /\ l \in Nat /\ f <= l /\ f \in U /\ f < e /\ a < f
        /\ \A x \in f .. l : x \in U
    BY <1>2, <2>1
  <2>3. c <= f
    <3>1. CASE k = 0
      BY <2>2, <3>1 DEF Cursor, c
    <3>2. CASE k # 0
      <4>1. k \in 1..n /\ k < k + 1
        BY <1>1, <3>2 DEF n
      <4>2. R[k].last + 1 < f
        BY <1>3, <2>1, <4>1
      <4>3. QED
        BY <1>2, <2>2, <3>2, <4>1, <4>2 DEF Cursor, c
    <3>3. QED
      BY <3>1, <3>2
  <2>4. ASSUME NEW x \in c .. f - 1 PROVE x \notin U
    <3>1. SUFFICES ASSUME x \in U PROVE FALSE
      OBVIOUS
    <3>2. c <= x /\ x < f /\ x \in Nat
      BY <1>4, <2>2
    <3>3. PICK m \in 1..n : k < m /\ R[m].first <= x
      BY <1>5, <3>1, <3>2
    <3>4. k + 1 < m \/ k + 1 = m
      BY <1>1, <3>3
    <3>5. CASE k + 1 < m
      <4>1. l + 1 < R[m].first
        BY <1>3, <2>1, <3>5
      <4>2. QED
        BY <1>2, <2>2, <3>2, <3>3, <4>1
    <3>6. CASE k + 1 = m
      BY <2>2, <3>2, <3>3, <3>6
    <3>7. QED
      BY <3>4, <3>5, <3>6
  <2>5. \A x \in f .. l - 1 : x \in U
    BY <2>2
  <2> HIDE DEF f, l
  <2>6. IsNext(U, a, e, c, f, l)
    BY <1>4, <2>2, <2>3, <2>4, <2>5 DEF IsNext
  <2>7. QED
    BY <1>4, <1>6, <2>2, <2>6 DEF c, f, l, n
<1>7. CASE k = n
  <2>1. ASSUME NEW x \in c .. e - 1 PROVE x \notin U
    <3>1. SUFFICES ASSUME x \in U PROVE FALSE
      OBVIOUS
    <3>2. PICK m \in 1..n : k < m
      BY <1>4, <1>5, <3>1
    <3>3. QED
      BY <1>1, <1>7, <3>2
  <2>2. \A x \in e .. e - 1 : x \in U
    OBVIOUS
  <2>3. IsNext(U, a, e, c, e, e)
    BY <1>4, <2>1, <2>2 DEF IsNext
  <2>4. QED
    BY <1>1, <1>4, <1>7, <2>3 DEF c, n
<1>8. QED
  BY <1>1, <1>6, <1>7 DEF n

\* _free_windows returns all the gaps, in order.
LEMMA FreeWindowsAre ==
  ASSUME NEW U \in SUBSET Nat, NEW a \in Nat, NEW e \in Nat, a <= e,
         \A x \in U : a < x /\ x < e,
         NEW slots \in Seq(Nat), Increasing(slots, Len(slots)),
         U = {slots[m] : m \in 1..Len(slots)}
  PROVE  GapsBefore(FreeWindows(a, slots, e), U, a, e, e + 1)
<1> DEFINE R == Runs(slots)
           n == Len(R)
           acc == WindowsUpTo(a, R)
           Good(k) == /\ acc[k].cursor = Cursor(R, a, k)
                      /\ GapsBefore(acc[k].windows, U, a, e, Cursor(R, a, k))
           N == {k \in Nat : k <= n /\ ~ Good(k)}
<1>1. IsRuns(R, U)
  BY RunsAre
<1> HIDE DEF R
<1>2. n \in Nat
  BY <1>1, LenProperties DEF IsRuns
<1>3. acc[0] = Start(a) /\ \A k \in 1..n : acc[k] = AddWindow(acc[k-1], R[k])
  BY <1>2, WindowsUpToIs
<1>4. \A k \in 0..n :
        /\ Cursor(R, a, k) \in Nat
        /\ k < n =>
             /\ R[k+1].first \in Nat /\ R[k+1].last \in Nat
             /\ IsNext(U, a, e, Cursor(R, a, k), R[k+1].first, R[k+1].last)
        /\ k = n => IsNext(U, a, e, Cursor(R, a, k), e, e)
  BY <1>1, CursorNext
<1> HIDE DEF acc
<1>5. Good(0)
  <2>1. Cursor(R, a, 0) = a /\ acc[0].cursor = a /\ acc[0].windows = <<>>
    BY <1>3 DEF Cursor, Start
  <2>2. GapsBefore(<<>>, U, a, e, a)
    <3>1. <<>> \in Seq(Spans(a, e)) /\ Len(<<>>) = 0
      BY EmptySeq
    <3>2. \A w \in Spans(a, e) : w.end \in Nat /\ ~ (w.end < a)
      BY DEF Spans
    <3>3. QED
      BY <3>1, <3>2 DEF GapsBefore
  <2>3. QED
    BY <2>1, <2>2
<1>6. N = {}
  <2>1. SUFFICES ASSUME N # {} PROVE FALSE
    OBVIOUS
  <2>2. PICK k \in N : \A j \in N : k <= j
    <3>1. N \subseteq Nat
      OBVIOUS
    <3> HIDE DEF N
    <3>2. QED
      BY <2>1, <3>1, Least
  <2>3. k \in Nat /\ k <= n /\ ~ Good(k)
    OBVIOUS
  <2>4. k # 0
    <3> HIDE DEF Good
    <3>1. QED
      BY <1>5, <2>3
  <2> HIDE DEF n
  <2>5. k \in 1..n /\ k - 1 \in Nat /\ k - 1 <= n /\ ~ (k <= k - 1)
        /\ k - 1 \in 0..n /\ k - 1 < n /\ (k - 1) + 1 = k
    BY <1>2, <2>3, <2>4
  <2>6. Good(k-1)
    <3>1. k - 1 \notin N
      <4> HIDE DEF N
      <4>1. QED
        BY <2>2, <2>5
    <3> HIDE DEF Good
    <3>2. QED
      BY <2>5, <3>1
  <2> DEFINE c == Cursor(R, a, k - 1)
             ws == acc[k-1].windows
  <2>7. /\ c \in Nat /\ R[k].first \in Nat /\ R[k].last \in Nat
        /\ IsNext(U, a, e, c, R[k].first, R[k].last)
    BY <1>4, <2>5 DEF n
  <2>8. acc[k].cursor = R[k].last + 1 /\ acc[k].windows = ws \o Window(c, R[k].first)
    <3>1. acc[k] = AddWindow(acc[k-1], R[k])
      BY <1>3, <2>5 DEF n
    <3>2. acc[k-1].cursor = c
      BY <2>6
    <3> HIDE DEF c
    <3>3. acc[k] = [cursor |-> R[k].last + 1, windows |-> ws \o Window(c, R[k].first)]
      BY <3>1, <3>2, Zenon DEF AddWindow, After
    <3> DEFINE next == R[k].last + 1
               more == ws \o Window(c, R[k].first)
    <3> HIDE DEF next, more
    <3>4. acc[k] = [cursor |-> next, windows |-> more]
      BY <3>3, Zenon DEF next, more
    <3>5. acc[k].cursor = next /\ acc[k].windows = more
      BY <3>4
    <3>6. QED
      BY <3>5, Zenon DEF next, more
  <2>9. Cursor(R, a, k) = R[k].last + 1
    BY <2>4 DEF Cursor
  <2> HIDE DEF c
  <2>10. GapsBefore(ws, U, a, e, c)
    BY <2>6 DEF c
  <2> HIDE DEF ws
  <2>11. GapsBefore(ws \o Window(c, R[k].first), U, a, e, R[k].last + 1)
    BY <2>7, <2>10, NextGap
  <2>12. QED
    BY <2>3, <2>8, <2>9, <2>11
<1>7. Good(n)
  <2> HIDE DEF Good, n
  <2>1. n <= n
    BY <1>2
  <2>2. QED
    BY <1>2, <1>6, <2>1
<1> DEFINE c == Cursor(R, a, n)
           ws == acc[n].windows
<1>8. c \in Nat /\ IsNext(U, a, e, c, e, e)
  <2>1. n \in 0..n
    BY <1>2
  <2>2. QED
    BY <1>4, <2>1
<1>9. FreeWindows(a, slots, e) = ws \o Window(c, e)
  BY <1>7 DEF FreeWindows, R, acc
<1>10. GapsBefore(ws, U, a, e, c)
  BY <1>7
<1> HIDE DEF c, ws
<1>11. QED
  BY <1>8, <1>9, <1>10, NextGap
-----------------------------------------------------------------------------
(* Reports. *)

LaterSlots(L, a) == {s \in L \cap SlotsOfEpoch(a) : s > a}

\* What TypeOK and WindowsExact say of a report.
Typed(v) ==
  /\ v.current \in Slots /\ v.next \in Slots \cup {None}
  /\ v.safe_now \in BOOLEAN /\ v.known \in BOOLEAN
  /\ v.windows \in Seq(Windows)

Exact(L, v) ==
  /\ {v.windows[i] : i \in DOMAIN v.windows} =
       {w \in Spans(v.current, EpochEnd(v.current)) :
          Gap(LaterSlots(L, v.current), v.current, EpochEnd(v.current), w)}
  /\ \A i, j \in DOMAIN v.windows : i < j => v.windows[i].end < v.windows[j].start
  /\ v.safe_now <=>
       {s \in L \cap SlotsOfEpoch(v.current) :
          v.current < s /\ s < v.current + MinWindow} = {}

\* The next slot led is the least, and safe_now tells how far it is.
LEMMA NextLed ==
  ASSUME NEW U \in SUBSET Slots, NEW a \in Slots, \A x \in U : a < x,
         NEW next, next = IF Sorted(U) # <<>> THEN Head(Sorted(U)) ELSE None
  PROVE  /\ next \in Slots \cup {None} /\ SafeNow(a, next) \in BOOLEAN
         /\ SafeNow(a, next) <=> {x \in U : a < x /\ x < a + MinWindow} = {}
<1> DEFINE q == Sorted(U)
           n == Len(q)
<1>1. /\ MinWindow \in Nat /\ None \notin Nat /\ EpochLen * Epochs \in Nat
      /\ \A x \in Slots : x \in Nat
  BY ScheduleAssumption DEF Slots
<1>2. /\ q \in Seq(U) /\ n \in Nat /\ Increasing(q, n)
      /\ U = {q[i] : i \in 1..n}
  <2>1. U \in SUBSET (0 .. EpochLen * Epochs)
    BY <1>1 DEF Slots
  <2>2. QED
    BY <1>1, <2>1, SortedIs
<1> HIDE DEF q
<1>3. CASE q = <<>>
  <2>1. n = 0 /\ U = {}
    BY <1>2, <1>3
  <2>2. next = None
    BY <1>3 DEF q
  <2>3. QED
    BY <2>1, <2>2 DEF SafeNow
<1>4. CASE q # <<>>
  <2>1. n > 0 /\ 1 \in 1..n /\ Head(q) = q[1]
    BY <1>2, <1>4, EmptySeq
  <2>2. next = q[1] /\ next \in U
    BY <1>2, <1>4, <2>1 DEF q
  <2>3. next \in Slots /\ next \in Nat /\ next # None /\ a < next /\ a \in Nat
    BY <1>1, <2>2
  <2>4. \A x \in U : x \in Nat /\ next <= x
    <3> SUFFICES ASSUME NEW x \in U PROVE next <= x
      BY <1>1
    <3>1. PICK i \in 1..n : x = q[i]
      BY <1>2
    <3>2. x \in Nat
      BY <1>1
    <3>3. CASE i = 1
      BY <2>2, <2>3, <3>1, <3>3
    <3>4. CASE i # 1
      <4>1. 1 < i
        BY <1>2, <3>4
      <4>2. q[1] < q[i]
        BY <1>2, <2>1, <4>1 DEF Increasing
      <4>3. QED
        BY <2>2, <2>3, <3>1, <3>2, <4>2
    <3>5. QED
      BY <3>3, <3>4
  <2>5. SafeNow(a, next) <=> next - a >= MinWindow
    BY <2>3 DEF SafeNow
  <2>6. next - a >= MinWindow <=> {x \in U : a < x /\ x < a + MinWindow} = {}
    <3>1. ASSUME next - a >= MinWindow, NEW x \in U, x < a + MinWindow PROVE FALSE
      BY <1>1, <2>3, <2>4, <3>1
    <3>2. ASSUME ~ (next - a >= MinWindow)
          PROVE  a < next /\ next < a + MinWindow
      BY <1>1, <2>3, <3>2
    <3>3. QED
      BY <2>2, <3>1, <3>2
  <2>7. QED
    BY <2>3, <2>5, <2>6 DEF SafeNow
<1>5. QED
  BY <1>3, <1>4

\* leader_windows reports what WindowsExact says.
LEMMA ReportIs ==
  ASSUME NEW L \in SUBSET Slots, NEW a \in Slots, NEW known \in BOOLEAN,
         NEW indices, known => indices = {s - EpochStart(a) : s \in L \cap SlotsOfEpoch(a)},
         ~ known => indices = {},
         NEW v, v = LeaderWindows(a, indices, known)
  PROVE  v.current = a /\ v.known = known /\ Typed(v) /\ (known => Exact(L, v))
<1> DEFINE e == EpochEnd(a)
           b == EpochStart(a)
           U == {s \in {b + i : i \in indices} : s > a}
           next == IF Sorted(U) # <<>> THEN Head(Sorted(U)) ELSE None
           ws == FreeWindows(a, Sorted(U), e)
<1>1. v = [current |-> a, next |-> next, safe_now |-> SafeNow(a, next),
           windows |-> ws, known |-> known]
  BY Zenon DEF LeaderWindows
<1>2. /\ b \in Slots /\ e \in Nat /\ a < e /\ e <= EpochLen * Epochs
      /\ e = b + EpochLen /\ b <= a
  BY EpochBounds DEF EpochEnd
<1>3. /\ EpochLen \in Nat /\ EpochLen * Epochs \in Nat /\ \A x \in Slots : x \in Nat
      /\ \A x \in Nat : x \in Slots <=> x < EpochLen * Epochs
  BY ScheduleAssumption DEF Slots
<1>4. known => U = LaterSlots(L, a)
  <2>1. SUFFICES ASSUME known PROVE U = LaterSlots(L, a)
    OBVIOUS
  <2>2. {b + i : i \in indices} = L \cap SlotsOfEpoch(a)
    <3>1. \A s \in L \cap SlotsOfEpoch(a) : s \in Int /\ b + (s - b) = s
      BY <1>2, <1>3
    <3>2. QED
      BY <2>1, <3>1
  <2>3. QED
    BY <2>2 DEF LaterSlots
<1>5. ~ known => U = {}
  OBVIOUS
<1>6. U \in SUBSET Slots /\ U \in SUBSET Nat /\ \A x \in U : a < x /\ x < e
  <2>1. \A x \in LaterSlots(L, a) : x \in Slots /\ a < x /\ x < e
    BY <1>2, <1>3 DEF LaterSlots, SlotsOfEpoch
  <2>2. \A x \in U : x \in Slots /\ a < x /\ x < e
    <3> HIDE DEF U
    <3>1. QED
      BY <1>4, <1>5, <2>1
  <2>3. QED
    BY <1>3, <2>2
<1> HIDE DEF U
<1>7. /\ next \in Slots \cup {None} /\ SafeNow(a, next) \in BOOLEAN
      /\ SafeNow(a, next) <=> {x \in U : a < x /\ x < a + MinWindow} = {}
  BY <1>6, NextLed
<1>8. GapsBefore(ws, U, a, e, e + 1)
  <2> DEFINE q == Sorted(U)
  <2>1. /\ q \in Seq(U) /\ Increasing(q, Len(q))
        /\ U = {q[i] : i \in 1..Len(q)} /\ Len(q) \in Nat
    <3>1. U \in SUBSET (0 .. EpochLen * Epochs)
      BY <1>3, <1>6 DEF Slots
    <3>2. QED
      BY <1>3, <3>1, SortedIs
  <2> HIDE DEF q
  <2>2. q \in Seq(Nat)
    <3>1. \A i \in 1..Len(q) : q[i] \in Nat
      BY <1>6, <2>1
    <3>2. QED
      BY <2>1, <3>1, SeqDef, LenProperties
  <2>3. a \in Nat /\ a <= e
    BY <1>2, <1>3
  <2>4. GapsBefore(FreeWindows(a, q, e), U, a, e, e + 1)
    BY <1>2, <1>6, <2>1, <2>2, <2>3, FreeWindowsAre
  <2>5. QED
    BY <2>4 DEF q
<1> HIDE DEF next, ws, e
<1>9. /\ ws \in Seq(Spans(a, e)) /\ Len(ws) \in Nat /\ DOMAIN ws = 1..Len(ws)
      /\ \A i \in 1..Len(ws) : ws[i] \in Spans(a, e)
  <2>1. ws \in Seq(Spans(a, e))
    BY <1>8 DEF GapsBefore
  <2>2. QED
    BY <2>1, ElementOfSeq, LenProperties
<1>10. \A w \in Spans(a, e) : w.end < e + 1 /\ w.start \in Nat /\ w.end \in Nat /\ w.end <= e
  BY <1>2, <1>3 DEF Spans
<1>11. \A w \in Spans(a, e) : Gap(U, a, e, w) <=> \E i \in 1..Len(ws) : w = ws[i]
  BY <1>8, <1>10 DEF GapsBefore
<1>12. {ws[i] : i \in DOMAIN ws} = {w \in Spans(a, e) : Gap(U, a, e, w)}
  BY <1>9, <1>11
<1>13. ws \in Seq(Windows)
  <2>1. ASSUME NEW i \in 1..Len(ws) PROVE ws[i] \in Windows
    <3>1. ws[i] \in Spans(a, e) /\ Gap(U, a, e, ws[i])
      BY <1>9, <1>11
    <3>2. ws[i].start < ws[i].end /\ ws[i].end <= e
      BY <1>10, <3>1 DEF Gap
    <3>3. ws[i].start \in Slots /\ ws[i].end \in Slots \cup {EpochLen * Epochs}
      BY <1>2, <1>3, <1>10, <3>1, <3>2
    <3>4. ws[i] = [start |-> ws[i].start, end |-> ws[i].end]
      BY <3>1 DEF Spans
    <3>5. QED
      BY <3>3, <3>4 DEF Windows
  <2>2. QED
    BY <1>9, <2>1, SeqDef, LenProperties
<1> DEFINE safe == SafeNow(a, next)
<1> HIDE DEF safe
<1>14. /\ v.current = a /\ v.next = next /\ v.safe_now = safe
       /\ v.windows = ws /\ v.known = known
  <2>1. v = [current |-> a, next |-> next, safe_now |-> safe, windows |-> ws, known |-> known]
    BY <1>1, Zenon DEF safe
  <2>2. QED
    BY <2>1
<1>15. Typed(v)
  BY <1>7, <1>13, <1>14 DEF Typed, safe
<1>16. ASSUME known PROVE Exact(L, v)
  <2>1. U = LaterSlots(L, a)
    BY <1>4, <1>16
  <2>2. \A i, j \in DOMAIN ws : i < j => ws[i].end < ws[j].start
    BY <1>8, <1>9 DEF GapsBefore
  <2>3. {x \in U : a < x /\ x < a + MinWindow}
          = {s \in L \cap SlotsOfEpoch(a) : a < s /\ s < a + MinWindow}
    BY <1>6, <2>1 DEF LaterSlots
  <2>4. safe <=> {s \in L \cap SlotsOfEpoch(a) : a < s /\ s < a + MinWindow} = {}
    BY <1>7, <2>3 DEF safe
  <2>5. {ws[i] : i \in DOMAIN ws} = {w \in Spans(a, e) : Gap(LaterSlots(L, a), a, e, w)}
    BY <1>12, <2>1
  <2>6. QED
    BY <1>14, <2>2, <2>4, <2>5 DEF Exact, e
<1>17. QED
  BY <1>14, <1>15, <1>16
-----------------------------------------------------------------------------
(* The invariant. *)

\* No slot of what remains of a restart is led, but the one in which the RPC
\* was asked.
Covered ==
  (restart # None /\ restart.known) =>
    \A t \in Slots : (slot <= t /\ t < restart.until /\ t \in leads) => t = restart.asked

\* WindowsExact says which windows of a report are free at all times; Covered
\* carries that over to a restart, which may outlive the report it began in.
IInv == TypeOK /\ WindowsExact /\ Covered

\* The properties in terms of the report.
LEMMA ReportForms ==
  /\ TypeOK <=>
       /\ leads \in SUBSET Slots /\ slot \in Slots /\ asked \in Slots \cup {None}
       /\ restart # None =>
            restart.until \in Slots \cup {EpochLen * Epochs} /\ slot < restart.until
       /\ view # None => Typed(view)
  /\ WindowsExact <=> (view # None /\ view.known => Exact(leads, view))
<1>1. \A a, w : IsFree(a, w) <=> Gap(LaterSlots(leads, a), a, EpochEnd(a), w)
  BY DEF IsFree, Gap, LaterSlots
<1>2. QED
  BY <1>1, Zenon DEF TypeOK, Typed, WindowsExact, Exact, Spans

LEMMA InitIInv == Init => IInv
<1> SUFFICES ASSUME Init PROVE IInv
  OBVIOUS
<1>1. 0 \in Slots
  <2>1. EpochLen * Epochs \in Nat /\ EpochLen * Epochs > 0
    BY ScheduleAssumption, SMT
  <2>2. QED
    BY <2>1 DEF Slots
<1>2. QED
  BY <1>1 DEF Init, IInv, TypeOK, WindowsExact, Covered

LEMMA AskEpochInfoKeeps == IInv /\ AskEpochInfo => IInv'
<1> SUFFICES ASSUME IInv, AskEpochInfo PROVE IInv'
  OBVIOUS
<1>1. TypeOK'
  BY DEF IInv, AskEpochInfo, TypeOK
<1>2. WindowsExact'
  BY DEF AskEpochInfo, WindowsExact
<1>3. Covered'
  BY DEF IInv, AskEpochInfo, Covered
<1>4. QED
  BY <1>1, <1>2, <1>3 DEF IInv

LEMMA AskLeaderScheduleKeeps == IInv /\ AskLeaderSchedule => IInv'
<1> SUFFICES ASSUME IInv, AskLeaderSchedule PROVE IInv'
  OBVIOUS
<1>1. leads \in SUBSET Slots /\ asked \in Slots /\ leads' = leads
  BY DEF IInv, TypeOK, AskLeaderSchedule
<1> DEFINE start == EpochStart(AskedOf(asked))
           indices == {s - start : s \in leads \cap SlotsOfEpoch(start)}
<1>2. PICK known \in BOOLEAN : view' = LeaderWindows(asked, IF known THEN indices ELSE {}, known)
  BY Zenon DEF AskLeaderSchedule
<1>3. start = EpochStart(asked)
  BY DEF AskedOf
<1>4. SlotsOfEpoch(start) = SlotsOfEpoch(asked)
  BY <1>1, <1>3, EpochBounds
<1> DEFINE answer == IF known THEN indices ELSE {}
<1>5. /\ known => answer = {s - EpochStart(asked) : s \in leads \cap SlotsOfEpoch(asked)}
      /\ ~ known => answer = {}
  BY <1>3, <1>4
<1>5a. view' = LeaderWindows(asked, answer, known)
  BY <1>2
<1> HIDE DEF start, answer
<1>6. view'.known = known /\ Typed(view') /\ (known => Exact(leads, view'))
  BY <1>1, <1>5, <1>5a, ReportIs
<1>7. TypeOK'
  BY <1>6, ReportForms DEF IInv, AskLeaderSchedule, TypeOK, Typed
<1>8. WindowsExact'
  <2>1. view'.known => Exact(leads', view')
    BY <1>1, <1>6
  <2>2. QED
    BY <2>1, Zenon DEF WindowsExact, Exact, IsFree, Gap, LaterSlots, Spans
<1>9. Covered'
  BY DEF IInv, AskLeaderSchedule, Covered
<1>10. QED
  BY <1>7, <1>8, <1>9 DEF IInv

LEMMA AskFailsKeeps == IInv /\ AskFails => IInv'
BY DEF IInv, AskFails, TypeOK, WindowsExact, IsFree, Covered

\* A restart inside a window of a report.
LEMMA RestartKeeps == IInv /\ Restart => IInv'
<1> SUFFICES ASSUME IInv, Restart PROVE IInv'
  OBVIOUS
<1>1. /\ TypeOK /\ view # None /\ Typed(view) /\ (view.known => Exact(leads, view))
      /\ leads \in SUBSET Slots /\ slot \in Slots
  BY ReportForms DEF IInv, Restart
<1>2. /\ MinWindow \in Nat /\ MinWindow > 0 /\ EpochLen * Epochs \in Nat
      /\ \A x \in Slots : x \in Nat
      /\ \A x \in Nat : x \in Slots <=> x < EpochLen * Epochs
  BY ScheduleAssumption DEF Restart, Slots
<1>3. PICK i \in DOMAIN view.windows :
        view.windows[i].start <= slot /\ slot + MinWindow <= view.windows[i].end
  BY DEF Restart
<1> DEFINE w == view.windows[i]
           a == view.current
           e == EpochEnd(a)
<1>4. w \in Windows
  BY <1>1, <1>3, ElementOfSeq, LenProperties DEF Typed
<1>5. /\ w.start \in Nat /\ w.end \in Nat /\ w.end <= EpochLen * Epochs
      /\ slot \in Nat
  BY <1>1, <1>2, <1>4 DEF Windows
<1>6. /\ restart' = [until |-> slot + MinWindow, asked |-> a, known |-> view.known]
      /\ UNCHANGED <<leads, slot, asked, view>>
  BY DEF Restart
<1>7. /\ restart'.until = slot + MinWindow /\ restart'.asked = a
      /\ restart'.known = view.known
  BY <1>6
<1>8. slot + MinWindow \in Slots \cup {EpochLen * Epochs} /\ slot < slot + MinWindow
  BY <1>2, <1>3, <1>5
<1>9. TypeOK'
  BY <1>1, <1>6, <1>7, <1>8 DEF TypeOK
<1>10. WindowsExact'
  BY <1>6 DEF IInv, WindowsExact, IsFree
<1>11. Covered'
  <2> SUFFICES ASSUME view.known, NEW t \in Slots, slot <= t, t < slot + MinWindow, t \in leads
               PROVE  t = a
    BY <1>6, <1>7 DEF Covered
  <2>1. Exact(leads, view) /\ a \in Slots
    BY <1>1 DEF Typed
  <2>2. w \in Spans(a, e) /\ Gap(LaterSlots(leads, a), a, e, w)
    BY <1>3, <2>1 DEF Exact
  <2>3. t \in Nat /\ w.start <= t /\ t < w.end
    BY <1>2, <1>3, <1>5
  <2>4. t \notin LaterSlots(leads, a)
    BY <1>5, <2>2, <2>3 DEF Gap
  <2>5. EpochStart(a) <= a /\ e \in Nat /\ EpochStart(a) \in Nat /\ a \in Nat
    BY <1>2, <2>1, EpochBounds
  <2>6. a <= w.start /\ w.end <= e
    BY <2>2, <2>5 DEF Spans
  <2>7. t \in SlotsOfEpoch(a) /\ a <= t
    BY <1>5, <2>3, <2>5, <2>6 DEF SlotsOfEpoch
  <2>8. QED
    BY <2>3, <2>4, <2>5, <2>7 DEF LaterSlots
<1>12. QED
  BY <1>9, <1>10, <1>11 DEF IInv

LEMMA SlotPassesKeeps == IInv /\ SlotPasses => IInv'
<1> SUFFICES ASSUME IInv, SlotPasses PROVE IInv'
  OBVIOUS
<1>1. /\ slot \in Nat /\ slot' = slot + 1 /\ slot' \in Slots
      /\ UNCHANGED <<leads, asked, view>>
      /\ restart' = None \/ (restart' = restart /\ restart # None => restart.until # slot')
  BY DEF IInv, TypeOK, SlotPasses, Slots
<1>2. \A x \in Slots \cup {EpochLen * Epochs} : x \in Nat
  BY ScheduleAssumption DEF Slots
<1>3. TypeOK'
  <2>1. ASSUME restart' # None
        PROVE  restart' = restart /\ restart.until \in Slots \cup {EpochLen * Epochs}
               /\ slot + 1 < restart.until
    <3>1. restart' = restart /\ restart # None /\ restart.until # slot + 1
      BY <2>1 DEF SlotPasses
    <3>2. restart.until \in Slots \cup {EpochLen * Epochs} /\ slot < restart.until
      BY <3>1 DEF IInv, TypeOK
    <3>3. slot \in Nat /\ restart.until \in Nat
      BY <1>1, <1>2, <3>2
    <3>4. slot + 1 < restart.until
      BY <3>1, <3>2, <3>3
    <3>5. QED
      BY <3>1, <3>2, <3>4
  <2>2. QED
    BY <1>1, <2>1 DEF IInv, TypeOK
<1>4. WindowsExact'
  BY <1>1 DEF IInv, WindowsExact, IsFree
<1>5. Covered'
  <2> SUFFICES ASSUME restart' # None, restart'.known,
                      NEW t \in Slots, slot' <= t, t < restart'.until, t \in leads
               PROVE  t = restart'.asked
    BY <1>1 DEF Covered
  <2>1. restart' = restart /\ restart # None
    BY DEF SlotPasses
  <2>2. slot <= t
    BY <1>1, <1>2
  <2>3. QED
    BY <2>1, <2>2 DEF IInv, Covered
<1>6. QED
  BY <1>3, <1>4, <1>5 DEF IInv

LEMMA StutterKeeps == IInv /\ UNCHANGED vars => IInv'
BY DEF IInv, vars, TypeOK, WindowsExact, IsFree, Covered

LEMMA NextKeeps == IInv /\ [Next]_vars => IInv'
BY AskEpochInfoKeeps, AskLeaderScheduleKeeps, AskFailsKeeps, RestartKeeps, SlotPassesKeeps,
   StutterKeeps DEF Next

LEMMA Invariance == Spec => []IInv
BY InitIInv, NextKeeps, PTL DEF Spec

\* What leader_windows returns is a report over the epochs looked at, for
\* every lag and every schedule: no window begins or ends outside of them.
THEOREM TypesKept == Spec => []TypeOK
BY Invariance, PTL DEF IInv

\* schedule.py:4 "reports when the validator next leads and whether a
\* restart can finish before then": the loops of _runs and _free_windows
\* find all the gaps that are long enough and nothing else, in order, and
\* safe_now tells the truth, whatever passes between the two questions.
THEOREM WindowsAreExact == Spec => []WindowsExact
BY Invariance, PTL DEF IInv

\* schedule.py:3 "A validator that restarts during its own leader slots
\* skips blocks": a restart inside a window of a report, which may be as old
\* as it likes, misses no slot led but the one in which the RPC was asked.
THEOREM RestartsAreSafe == Spec => RestartsMissNothing
<1>1. IInv /\ [Next]_vars =>
        [(slot' # slot /\ restart # None /\ restart.known) =>
           slot \notin leads \/ slot = restart.asked]_vars
  <2> SUFFICES ASSUME IInv, restart # None, restart.known, slot \in leads
               PROVE  slot = restart.asked
    OBVIOUS
  <2>1. slot \in Slots /\ slot \in Nat /\ slot < restart.until /\ slot <= slot
    BY DEF IInv, TypeOK, Slots
  <2>2. QED
    BY <2>1 DEF IInv, Covered
<1>2. QED
  BY <1>1, Invariance, PTL DEF Spec, RestartsMissNothing
=============================================================================
