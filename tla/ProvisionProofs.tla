--------------------------- MODULE ProvisionProofs ---------------------------
(***************************************************************************)
(* Proofs about Provision, for every set of disks, every number of         *)
(* operators on the host and on its builder, and every number of failures. *)
(***************************************************************************)
EXTENDS Provision, BuilderProofs

(* Plans. *)

\* The commands that do one of C.
Dos(C) == {s \in Step : s.do \in C}

Only(p, C) == p \in Seq(Step) /\ \A i \in 1..Len(p) : p[i].do \in C
Has(p, S) == \E i \in 1..Len(p) : p[i] \in S
Lacks(p, T) == \A i \in 1..Len(p) : p[i] \notin T

\* In plan p, a command of T is preceded by one of S.
Waits(p, T, S) == \A i \in 1..Len(p) : p[i] \in T => \E m \in 1..i-1 : p[m] \in S

\* In plan p, no command of S comes after one of T.
Clear(p, T, S) == \A i, k \in 1..Len(p) : i < k /\ p[i] \in T => p[k] \notin S

\* The commands that set up disk d, and the command c on artifact f.
DiskSteps(d) == {s \in Dos({"probe", "mkfs", "mount"}) : s.part = d}
To(c, f) == {s \in Dos({c}) : s.part = f}

\* A plan whose last command is to finish.
Ends(p) == p \in Seq(Step) /\ Len(p) > 0 /\ p[Len(p)].do = "finish"

LEMMA JoinedIs ==
  ASSUME NEW p \in Seq(Step), NEW q \in Seq(Step)
  PROVE  /\ p \o q \in Seq(Step) /\ Len(p) \in Nat /\ Len(q) \in Nat
         /\ Len(p \o q) = Len(p) + Len(q)
         /\ \A i \in 1..Len(p) : i \in 1..Len(p \o q) /\ (p \o q)[i] = p[i]
         /\ \A i \in 1..Len(q) : i + Len(p) \in 1..Len(p \o q) /\ (p \o q)[i + Len(p)] = q[i]
         /\ \A i \in 1..Len(p \o q) : i \notin 1..Len(p) =>
              i - Len(p) \in 1..Len(q) /\ (p \o q)[i] = q[i - Len(p)]
<1>1. Len(p) \in Nat /\ Len(q) \in Nat
  BY LenProperties
<1>2. /\ p \o q \in Seq(Step) /\ Len(p \o q) = Len(p) + Len(q)
      /\ \A i \in 1..Len(p) + Len(q) :
           (p \o q)[i] = IF i <= Len(p) THEN p[i] ELSE q[i - Len(p)]
  BY ConcatProperties
<1>3. ASSUME NEW i \in 1..Len(q)
      PROVE  i + Len(p) \in 1..Len(p \o q) /\ (p \o q)[i + Len(p)] = q[i]
  <2>1. i + Len(p) \in 1..Len(p) + Len(q) /\ ~ (i + Len(p) <= Len(p)) /\ (i + Len(p)) - Len(p) = i
    BY <1>1
  <2>2. QED
    BY <1>2, <2>1
<1>4. QED
  BY <1>1, <1>2, <1>3

LEMMA Joined ==
  ASSUME NEW p \in Seq(Step), NEW q \in Seq(Step)
  PROVE  /\ p \o q \in Seq(Step)
         /\ \A C, D : Only(p, C) /\ Only(q, D) => Only(p \o q, C \cup D)
         /\ \A S : Has(p, S) \/ Has(q, S) => Has(p \o q, S)
         /\ \A T : Lacks(p, T) /\ Lacks(q, T) => Lacks(p \o q, T)
         /\ Ends(q) => Ends(p \o q)
<1> DEFINE r == p \o q
           n == Len(p)
<1>1. /\ r \in Seq(Step) /\ n \in Nat /\ Len(q) \in Nat /\ Len(r) = n + Len(q)
      /\ \A i \in 1..n : i \in 1..Len(r) /\ r[i] = p[i]
      /\ \A i \in 1..Len(q) : i + n \in 1..Len(r) /\ r[i + n] = q[i]
      /\ \A i \in 1..Len(r) : i \notin 1..n => i - n \in 1..Len(q) /\ r[i] = q[i - n]
  BY JoinedIs
<1> HIDE DEF r
<1>2. ASSUME NEW C, NEW D, Only(p, C), Only(q, D) PROVE Only(r, C \cup D)
  BY <1>1, <1>2 DEF Only
<1>3. ASSUME NEW S, Has(p, S) \/ Has(q, S) PROVE Has(r, S)
  BY <1>1, <1>3 DEF Has
<1>4. ASSUME NEW T, Lacks(p, T), Lacks(q, T) PROVE Lacks(r, T)
  BY <1>1, <1>4 DEF Lacks
<1>5. ASSUME Ends(q) PROVE Ends(r)
  <2>1. Len(q) \in 1..Len(q) /\ q[Len(q)].do = "finish"
    BY <1>1, <1>5 DEF Ends
  <2>2. Len(r) = Len(q) + n /\ r[Len(q) + n] = q[Len(q)] /\ Len(r) > 0
    BY <1>1, <2>1
  <2>3. QED
    BY <1>1, <2>1, <2>2 DEF Ends
<1>6. QED
  BY <1>1, <1>2, <1>3, <1>4, <1>5 DEF r

LEMMA LacksWaits ==
  ASSUME NEW p, NEW T, NEW S, Lacks(p, T)
  PROVE  Waits(p, T, S)
BY DEF Lacks, Waits

\* The next command waits for nothing.
LEMMA HeadWaits ==
  ASSUME NEW p, Len(p) \in Nat, Len(p) > 0, NEW T, NEW S, p[1] \in T
  PROVE  ~ Waits(p, T, S) /\ ~ Lacks(p, T)
<1>1. 1 \in 1..Len(p) /\ 1..(1-1) = {}
  OBVIOUS
<1>2. QED
  BY <1>1 DEF Waits, Lacks

\* What is known of a plan is known of what is left of it.
LEMMA Left ==
  ASSUME NEW p \in Seq(Step), NEW m \in 1..Len(p)
  PROVE  /\ \A C : Only(p, C) => Only(From(p, m), C)
         /\ \A T : Lacks(p, T) => Lacks(From(p, m), T)
         /\ \A T, S : Waits(p, T, S) /\ (\A k \in 1..m-1 : p[k] \notin S)
                        => Waits(From(p, m), T, S)
         /\ \A T, S : Clear(p, T, S) => Clear(From(p, m), T, S)
         /\ \A T, S : Clear(p, T, S) /\ (\E k \in 1..m-1 : p[k] \in T) => Lacks(From(p, m), S)
         /\ Ends(p) => Ends(From(p, m))
<1> DEFINE r == From(p, m)
<1>1. /\ r \in Seq(Step) /\ Len(p) \in Nat /\ Len(r) = Len(p) - m + 1
      /\ \A i \in 1..Len(p) - m + 1 : r[i] = p[m+i-1]
  BY FromIsPlan, LenProperties
<1>2. \A i \in 1..Len(r) : m+i-1 \in 1..Len(p) /\ r[i] = p[m+i-1]
  BY <1>1
<1> HIDE DEF r
<1>3. ASSUME NEW C, Only(p, C) PROVE Only(r, C)
  BY <1>1, <1>2, <1>3 DEF Only
<1>4. ASSUME NEW T, Lacks(p, T) PROVE Lacks(r, T)
  BY <1>1, <1>2, <1>4 DEF Lacks
<1>5. ASSUME NEW T, NEW S, Waits(p, T, S), \A k \in 1..m-1 : p[k] \notin S
      PROVE  Waits(r, T, S)
  <2>1. ASSUME NEW i \in 1..Len(r), r[i] \in T PROVE \E k \in 1..i-1 : r[k] \in S
    <3>1. m+i-1 \in 1..Len(p) /\ p[m+i-1] \in T
      BY <1>2, <2>1
    <3>2. PICK h \in 1..(m+i-1)-1 : p[h] \in S
      BY <1>5, <3>1 DEF Waits
    <3>3. h \notin 1..m-1
      BY <1>5, <3>2
    <3> DEFINE k == h - m + 1
    <3>4. k \in 1..i-1 /\ k \in 1..Len(r) /\ m+k-1 = h
      BY <1>1, <3>1, <3>2, <3>3
    <3> HIDE DEF k
    <3>5. QED
      BY <1>2, <3>2, <3>4
  <2>2. QED
    BY <2>1 DEF Waits
<1>6. ASSUME NEW T, NEW S, Clear(p, T, S) PROVE Clear(r, T, S)
  <2>1. ASSUME NEW i \in 1..Len(r), NEW k \in 1..Len(r), i < k, r[i] \in T
        PROVE  r[k] \notin S
    <3> DEFINE x == m+i-1
               y == m+k-1
    <3>1. x \in 1..Len(p) /\ y \in 1..Len(p) /\ x < y /\ r[i] = p[x] /\ r[k] = p[y]
      BY <1>1, <1>2, <2>1
    <3> HIDE DEF x, y
    <3>2. QED
      BY <1>6, <2>1, <3>1 DEF Clear
  <2>2. QED
    BY <2>1 DEF Clear
<1>7. ASSUME NEW T, NEW S, Clear(p, T, S), NEW k \in 1..m-1, p[k] \in T PROVE Lacks(r, S)
  <2>1. ASSUME NEW i \in 1..Len(r) PROVE r[i] \notin S
    <3> DEFINE y == m+i-1
    <3>1. k \in 1..Len(p) /\ y \in 1..Len(p) /\ k < y /\ r[i] = p[y]
      BY <1>1, <1>2, <1>7
    <3> HIDE DEF y
    <3>2. QED
      BY <1>7, <3>1 DEF Clear
  <2>2. QED
    BY <2>1 DEF Lacks
<1>8. ASSUME Ends(p) PROVE Ends(r)
  <2>1. Len(r) \in 1..Len(r) /\ m + Len(r) - 1 = Len(p)
    BY <1>1
  <2>2. r[Len(r)] = p[m + Len(r) - 1] /\ Len(r) > 0
    BY <1>2, <2>1
  <2>3. QED
    BY <1>1, <1>8, <2>1, <2>2 DEF Ends
<1>9. QED
  BY <1>3, <1>4, <1>5, <1>6, <1>7, <1>8 DEF r
-----------------------------------------------------------------------------
(* The plan of a run. *)

LEMMA StepIs ==
  /\ \A c \in Compiling \cup {"push", "verify", "swap", "collect"} : \A f \in Parts :
       [do |-> c, part |-> f] \in Step
  /\ \A c \in {"disks", "cached", "check", "catchup", "finish"} \cup Stages \cup Keys :
       Do(c) \in Step
  /\ "binary" \in Parts
  /\ ("geyser" \in Files \/ GeyserRepo) => "geyser" \in Parts
BY BuilderAssumption, ProvisionAssumption DEF Step, Do, Parts, Files

LEMMA Listed ==
  ASSUME NEW s \in Step, NEW t \in Step, NEW u \in Step, NEW v \in Step
  PROVE  /\ Only(<<>>, {})
         /\ Only(<<s>>, {s.do}) /\ Only(<<s, t>>, {s.do, t.do})
         /\ Only(<<s, t, u>>, {s.do, t.do, u.do}) /\ Only(<<s, t, u, v>>, {s.do, t.do, u.do, v.do})
<1>1. /\ <<>> \in Seq(Step) /\ <<s>> \in Seq(Step) /\ <<s, t>> \in Seq(Step)
      /\ <<s, t, u>> \in Seq(Step) /\ <<s, t, u, v>> \in Seq(Step)
  OBVIOUS
<1>2. QED
  BY <1>1 DEF Only

LEMMA More ==
  ASSUME NEW p, NEW C, NEW D, Only(p, C), C \subseteq D
  PROVE  p \in Seq(Step) /\ Only(p, D)
BY DEF Only

LEMMA ForEachIs ==
  ASSUME NEW c \in {"swap", "collect"}, NEW q, q \in {<<"binary">>, <<"binary", "geyser">>},
         q = <<"binary">> \/ "geyser" \in Parts
  PROVE  /\ Only(ForEach(c, q), {c})
         /\ \A i \in 1..Len(ForEach(c, q)) : ForEach(c, q)[i].part = q[i]
         /\ Len(ForEach(c, q)) = Len(q)
<1>1. Len(q) \in Nat /\ \A i \in 1..Len(q) : q[i] \in Parts
  BY StepIs
<1>2. \A i \in 1..Len(q) : [do |-> c, part |-> q[i]] \in Step
  BY <1>1, StepIs
<1>3. ForEach(c, q) \in Seq(Step) /\ Len(ForEach(c, q)) = Len(q)
  BY <1>1, <1>2 DEF ForEach
<1>4. QED
  BY <1>1, <1>2, <1>3 DEF Only, ForEach

LEMMA DiskPlanIs ==
  /\ Only(DiskPlan, {"probe", "mount"})
  /\ \A d \in Range(Disks) : Has(DiskPlan, DiskSteps(d))
<1>1. /\ Disks \in Seq(Range(Disks)) /\ Len(Disks) \in Nat
      /\ DOMAIN Disks = 1..Len(Disks)
  BY ProvisionAssumption, LenProperties
<1>2. ASSUME NEW i \in 1..Len(Disks)
      PROVE  /\ On(FirstStep(Disks[i]), Disks[i]) \in Step
             /\ FirstStep(Disks[i]) \in {"probe", "mount"}
  <2>1. Disks[i] \in Range(Disks)
    BY <1>1 DEF Range
  <2>2. QED
    BY <2>1 DEF On, FirstStep, Step, Blocks
<1>3. DiskPlan \in Seq(Step) /\ Len(DiskPlan) = Len(Disks)
  BY <1>1, <1>2 DEF DiskPlan
<1>4. \A i \in 1..Len(Disks) : DiskPlan[i] = On(FirstStep(Disks[i]), Disks[i])
  BY DEF DiskPlan
<1>5. Only(DiskPlan, {"probe", "mount"})
  <2>1. ASSUME NEW i \in 1..Len(Disks) PROVE DiskPlan[i].do \in {"probe", "mount"}
    <3>1. /\ DiskPlan[i] = On(FirstStep(Disks[i]), Disks[i])
          /\ FirstStep(Disks[i]) \in {"probe", "mount"}
      BY <1>2, <1>4
    <3>2. DiskPlan[i].do = FirstStep(Disks[i])
      BY <3>1 DEF On
    <3>3. QED
      BY <3>1, <3>2
  <2>2. QED
    BY <1>3, <2>1 DEF Only
<1>6. ASSUME NEW d \in Range(Disks) PROVE Has(DiskPlan, DiskSteps(d))
  <2>1. PICK i \in 1..Len(Disks) : Disks[i] = d
    BY <1>1 DEF Range
  <2>2. DiskPlan[i] \in DiskSteps(d)
    <3>1. DiskPlan[i] \in Step /\ DiskPlan[i] = On(FirstStep(d), d)
          /\ FirstStep(d) \in {"probe", "mount"}
      BY <1>2, <1>4, <2>1
    <3>2. DiskPlan[i].do = FirstStep(d) /\ DiskPlan[i].part = d
      BY <3>1 DEF On
    <3>3. QED
      BY <3>1, <3>2 DEF DiskSteps, Dos
  <2>3. QED
    BY <1>3, <2>2 DEF Has
<1>7. QED
  BY <1>5, <1>6

LEMMA BuildPlanIs ==
  ASSUME NEW ref, NEW force \in BOOLEAN
  PROVE  Only(BuildPlan(ref, force), BuilderDo)
<1> DEFINE first == IF force THEN <<>> ELSE <<Do("cached")>>
           collect == ForEach("collect", Artifacts)
           own == <<Do("fetch"), Do("checkout"), Do("compile"), Do("copy")>>
           there == IF ref # None THEN <<Geyser("checkout")>> ELSE <<>>
           last == <<Geyser("compile"), Geyser("copy")>>
<1>1. \A c \in Compiling \cup {"cached"} : Do(c) \in Step /\ Do(c).do = c
  BY StepIs DEF Do
<1>2. Only(own, Compiling)
  <2>1. Only(own, {Do("fetch").do, Do("checkout").do, Do("compile").do, Do("copy").do})
    BY <1>1, Listed DEF Compiling
  <2>2. QED
    BY <2>1, <1>1, More DEF Compiling
<1>3. Only(first, {"cached"})
  <2>1. Only(<<>>, {}) /\ Only(<<Do("cached")>>, {"cached"})
    BY <1>1, Listed
  <2>2. Only(<<>>, {"cached"})
    BY <2>1, More
  <2>3. QED
    BY <2>1, <2>2
<1>4. Only(collect, {"collect"})
  BY StepIs, ForEachIs DEF Artifacts
<1>5. Only(BuildCommands(ref), Compiling)
  <2>1. CASE GeyserRepo
    <3>1. \A c \in Compiling : Geyser(c) \in Step /\ Geyser(c).do = c
      BY <2>1, StepIs DEF Geyser
    <3>2. Only(<<Geyser("fetch")>>, {"fetch"})
      BY <3>1, Listed DEF Compiling
    <3>3. Only(there, Compiling)
      <4>1. Only(<<>>, {}) /\ Only(<<Geyser("checkout")>>, {"checkout"})
        BY <3>1, Listed DEF Compiling
      <4>2. QED
        BY <4>1, More DEF Compiling
    <3>4. Only(last, {"compile", "copy"})
      BY <3>1, Listed DEF Compiling
    <3> HIDE DEF there, last, own
    <3>5. Only(<<Geyser("fetch")>> \o there, {"fetch"} \cup Compiling)
      BY <3>2, <3>3, Joined, More
    <3>6. Only(<<Geyser("fetch")>> \o there \o last, {"fetch"} \cup Compiling \cup {"compile", "copy"})
      BY <3>4, <3>5, Joined, More
    <3>7. Only(own \o (<<Geyser("fetch")>> \o there \o last),
               Compiling \cup ({"fetch"} \cup Compiling \cup {"compile", "copy"}))
      BY <1>2, <3>6, Joined, More
    <3>8. BuildCommands(ref) = own \o (<<Geyser("fetch")>> \o there \o last)
      BY <2>1 DEF BuildCommands, own, there, last
    <3>9. QED
      BY <3>7, <3>8, More DEF Compiling
  <2>2. CASE ~GeyserRepo
    <3>1. Only(<<>>, {})
      BY <1>1, Listed
    <3> HIDE DEF own
    <3>2. Only(own \o <<>>, Compiling \cup {})
      BY <1>2, <3>1, Joined, More
    <3>3. QED
      BY <2>2, <3>2, More DEF BuildCommands, own
  <2>3. QED
    BY <2>1, <2>2
<1> HIDE DEF first, collect, own
<1>6. Only(first \o BuildCommands(ref), {"cached"} \cup Compiling)
  BY <1>3, <1>5, Joined, More
<1>7. Only(first \o BuildCommands(ref) \o collect, {"cached"} \cup Compiling \cup {"collect"})
  BY <1>4, <1>6, Joined, More
<1>8. BuildPlan(ref, force) = first \o BuildCommands(ref) \o collect
  BY DEF BuildPlan, first, collect
<1>9. ({"cached"} \cup Compiling \cup {"collect"}) \subseteq BuilderDo
  BY DEF BuilderDo
<1>10. Only(BuildPlan(ref, force), {"cached"} \cup Compiling \cup {"collect"})
  BY <1>7, <1>8
<1>11. QED
  BY <1>9, <1>10, More

\* How far a run is whose next command is s.
Rank(s) ==
  CASE s.do = "user" -> 1
    [] s.do = "system" -> 2
    [] s.do \in {"probe", "mkfs", "mount"} -> 3
    [] s.do = "disks" -> 4
    [] s.do \in BuilderDo -> 5
    [] s.do = "push" -> IF s.part = "binary" THEN 6 ELSE 8
    [] s.do = "verify" -> IF s.part = "binary" THEN 7 ELSE 9
    [] s.do = "check" -> 10
    [] s.do = "swap" -> IF s.part = "binary" THEN 11 ELSE 12
    [] s.do = "unit" -> 13
    [] s.do = "identity" -> 14
    [] s.do = "vote" -> 15
    [] s.do = "start" -> 16
    [] s.do = "catchup" -> 17
    [] OTHER -> 18

\* A part of a plan, from rank a to rank b: only the commands of the disks
\* and those of the build are of the same rank.
Piece(p, a, b) ==
  /\ p \in Seq(Step)
  /\ \A i \in 1..Len(p) : a <= Rank(p[i]) /\ Rank(p[i]) <= b
  /\ \A i, k \in 1..Len(p) : i < k =>
       Rank(p[i]) < Rank(p[k]) \/ (Rank(p[i]) = Rank(p[k]) /\ Rank(p[i]) \in {3, 5})

LEMMA RankIsNat == \A s : Rank(s) \in Nat
BY DEF Rank

LEMMA Pieces ==
  ASSUME NEW p, NEW q, NEW a \in Nat, NEW b \in Nat, NEW c \in Nat, NEW d \in Nat,
         Piece(p, a, b), Piece(q, c, d), b < c, a <= c, b <= d
  PROVE  Piece(p \o q, a, d)
<1> DEFINE r == p \o q
           n == Len(p)
<1>1. p \in Seq(Step) /\ q \in Seq(Step)
  BY DEF Piece
<1>2. /\ r \in Seq(Step) /\ n \in Nat /\ Len(q) \in Nat /\ Len(r) = n + Len(q)
      /\ \A i \in 1..n : i \in 1..Len(r) /\ r[i] = p[i]
      /\ \A i \in 1..Len(r) : i \notin 1..n => i - n \in 1..Len(q) /\ r[i] = q[i - n]
  BY <1>1, JoinedIs
<1> HIDE DEF r
<1>3. ASSUME NEW i \in 1..Len(r)
      PROVE  /\ i \in 1..n => a <= Rank(r[i]) /\ Rank(r[i]) <= b
             /\ i \notin 1..n => c <= Rank(r[i]) /\ Rank(r[i]) <= d
  BY <1>2 DEF Piece
<1>4. ASSUME NEW i \in 1..Len(r) PROVE a <= Rank(r[i]) /\ Rank(r[i]) <= d
  <2> DEFINE x == Rank(r[i])
  <2>1. x \in Nat
    BY RankIsNat
  <2>2. (a <= x /\ x <= b) \/ (c <= x /\ x <= d)
    BY <1>3
  <2> HIDE DEF x
  <2>3. a <= x /\ x <= d
    BY <2>1, <2>2
  <2>4. QED
    BY <2>3 DEF x
<1>5. ASSUME NEW i \in 1..Len(r), NEW k \in 1..Len(r), i < k
      PROVE  Rank(r[i]) < Rank(r[k]) \/ (Rank(r[i]) = Rank(r[k]) /\ Rank(r[i]) \in {3, 5})
  <2>1. CASE k \in 1..n
    <3>1. i \in 1..n
      BY <1>2, <1>5, <2>1
    <3>2. r[i] = p[i] /\ r[k] = p[k]
      BY <1>2, <2>1, <3>1
    <3>3. QED
      BY <1>5, <2>1, <3>1, <3>2 DEF Piece
  <2>2. CASE i \notin 1..n
    <3>1. k \notin 1..n /\ i - n < k - n
      BY <1>2, <1>5, <2>2
    <3> DEFINE x == i - n
               y == k - n
    <3>2. x \in 1..Len(q) /\ y \in 1..Len(q) /\ x < y /\ r[i] = q[x] /\ r[k] = q[y]
      BY <1>2, <2>2, <3>1
    <3> HIDE DEF x, y
    <3>3. QED
      BY <3>2 DEF Piece
  <2>3. CASE i \in 1..n /\ k \notin 1..n
    <3> DEFINE x == Rank(r[i])
               y == Rank(r[k])
    <3>1. x \in Nat /\ y \in Nat
      BY RankIsNat
    <3>2. x <= b /\ c <= y
      BY <1>3, <2>3
    <3> HIDE DEF x, y
    <3>3. x < y
      BY <3>1, <3>2
    <3>4. QED
      BY <3>3 DEF x, y
  <2>4. QED
    BY <2>1, <2>2, <2>3
<1>6. QED
  BY <1>2, <1>4, <1>5 DEF Piece, r

\* Commands of a lower rank come before those of a higher one.
LEMMA PieceOrders ==
  ASSUME NEW p, NEW a, NEW b, Piece(p, a, b), NEW T, NEW S,
         \A s \in S : \A t \in T : Rank(s) < Rank(t)
  PROVE  Clear(p, T, S) /\ (Has(p, S) => Waits(p, T, S))
<1>1. p \in Seq(Step) /\ Len(p) \in Nat
  BY LenProperties DEF Piece
<1>2. ASSUME NEW i \in 1..Len(p), NEW k \in 1..Len(p), p[i] \in T, p[k] \in S PROVE k < i
  <2> DEFINE x == Rank(p[i])
             y == Rank(p[k])
  <2>1. x \in Nat /\ y \in Nat
    BY RankIsNat
  <2>2. y < x
    BY <1>2
  <2>3. i < k => x < y \/ x = y
    BY DEF Piece
  <2>4. i = k => x = y
    OBVIOUS
  <2> HIDE DEF x, y
  <2>5. QED
    BY <1>1, <2>1, <2>2, <2>3, <2>4
<1>3. Clear(p, T, S)
  BY <1>1, <1>2 DEF Clear
<1>4. ASSUME NEW k \in 1..Len(p), p[k] \in S PROVE Waits(p, T, S)
  <2>1. \A i \in 1..Len(p) : p[i] \in T => k \in 1..i-1
    BY <1>1, <1>2, <1>4
  <2>2. QED
    BY <1>4, <2>1 DEF Waits
<1>5. QED
  BY <1>3, <1>4 DEF Has

LEMMA Chain ==
  ASSUME NEW p, NEW q, NEW T, NEW b \in Nat, NEW c \in Nat, NEW d \in Nat,
         Piece(p, 1, b), Lacks(p, T), Piece(q, c, d), Lacks(q, T), 1 <= b, b < c, c <= d
  PROVE  /\ Piece(p \o q, 1, d) /\ Lacks(p \o q, T)
         /\ \A S : Has(p, S) \/ Has(q, S) => Has(p \o q, S)
<1>1. p \in Seq(Step) /\ q \in Seq(Step)
  BY DEF Piece
<1>2. 1 \in Nat /\ 1 <= c /\ b <= d
  OBVIOUS
<1>3. Piece(p \o q, 1, d)
  BY <1>2, Pieces
<1>4. QED
  BY <1>1, <1>3, Joined

LEMMA OnePiece ==
  ASSUME NEW s \in Step, NEW a \in Nat, Rank(s) = a
  PROVE  Piece(<<s>>, a, a) /\ Has(<<s>>, {s})
<1>1. <<s>> \in Seq(Step)
  OBVIOUS
<1>2. QED
  BY <1>1 DEF Piece, Has

LEMMA TwoPiece ==
  ASSUME NEW s \in Step, NEW t \in Step, NEW a \in Nat, NEW b \in Nat,
         Rank(s) = a, Rank(t) = b, a < b
  PROVE  Piece(<<s, t>>, a, b) /\ Has(<<s, t>>, {s}) /\ Has(<<s, t>>, {t})
<1>1. <<s, t>> \in Seq(Step)
  OBVIOUS
<1>2. QED
  BY <1>1 DEF Piece, Has

LEMMA ThreePiece ==
  ASSUME NEW s \in Step, NEW t \in Step, NEW u \in Step,
         NEW a \in Nat, NEW b \in Nat, NEW c \in Nat,
         Rank(s) = a, Rank(t) = b, Rank(u) = c, a < b, b < c
  PROVE  /\ Piece(<<s, t, u>>, a, c)
         /\ Has(<<s, t, u>>, {s}) /\ Has(<<s, t, u>>, {t})
<1>1. <<s, t, u>> \in Seq(Step)
  OBVIOUS
<1>2. QED
  BY <1>1 DEF Piece, Has

LEMMA FourPiece ==
  ASSUME NEW s \in Step, NEW t \in Step, NEW u \in Step, NEW v \in Step,
         NEW a \in Nat, NEW b \in Nat, NEW c \in Nat, NEW d \in Nat,
         Rank(s) = a, Rank(t) = b, Rank(u) = c, Rank(v) = d, a < b, b < c, c < d
  PROVE  /\ Piece(<<s, t, u, v>>, a, d)
         /\ Has(<<s, t, u, v>>, {t}) /\ Has(<<s, t, u, v>>, {v})
<1>1. <<s, t, u, v>> \in Seq(Step)
  OBVIOUS
<1>2. QED
  BY <1>1 DEF Piece, Has

\* Commands that share a rank.
LEMMA LevelPiece ==
  ASSUME NEW p, NEW C, NEW n \in {3, 5}, Only(p, C), \A s \in Step : s.do \in C => Rank(s) = n
  PROVE  Piece(p, n, n)
<1>1. p \in Seq(Step) /\ \A i \in 1..Len(p) : p[i] \in Step /\ p[i].do \in C
  BY ElementOfSeq DEF Only
<1>2. \A i \in 1..Len(p) : Rank(p[i]) = n
  BY <1>1
<1>3. QED
  BY <1>1, <1>2 DEF Piece

\* Every run is made of these, whatever the disks, the pin and the keys.
LEMMA PlanIs ==
  /\ Piece(ProvisionPlan, 1, 18) /\ Ends(ProvisionPlan)
  /\ Lacks(ProvisionPlan, Dos({"mkfs"}))
  /\ \A c \in {"user", "system", "disks", "check", "start", "catchup"} \cup Keys :
       Has(ProvisionPlan, {Do(c)})
  /\ \A f \in Files : Has(ProvisionPlan, To("verify", f)) /\ Has(ProvisionPlan, To("swap", f))
  /\ \A d \in Range(Disks) : Has(ProvisionPlan, DiskSteps(d))
<1> DEFINE M == Dos({"mkfs"})
           q1 == <<Do("user"), Do("system")>>
           q3 == <<Do("disks")>>
           q4 == BuildPlan(pin, FALSE)
           q5 == Distribute
           q6 == <<Do("check")>>
           q7 == ForEach("swap", Placed)
           q8 == <<Do("unit"), Do("identity")>>
           q9 == IF Voting THEN <<Do("vote")>> ELSE <<>>
           q10 == <<Do("start"), Do("catchup"), Do("finish")>>
<1>0. /\ \A c \in {"disks", "cached", "check", "catchup", "finish"} \cup Stages \cup Keys :
           Do(c) \in Step /\ Do(c).do = c
      /\ "identity" \in Keys /\ (Voting => Keys = {"identity", "vote"})
      /\ (~Voting => Keys = {"identity"})
  BY StepIs DEF Do, Keys
<1>1. Piece(q1, 1, 2) /\ Lacks(q1, M) /\ Has(q1, {Do("user")}) /\ Has(q1, {Do("system")})
  <2>1. Do("user") \in Step /\ Do("system") \in Step
    BY <1>0 DEF Stages
  <2>2. Rank(Do("user")) = 1 /\ Rank(Do("system")) = 2
    BY DEF Rank, Do, BuilderDo, Compiling
  <2>3. Piece(q1, 1, 2) /\ Has(q1, {Do("user")}) /\ Has(q1, {Do("system")})
    BY <2>1, <2>2, TwoPiece
  <2>4. QED
    BY <2>3 DEF Lacks, Dos, Do
<1>2. /\ Piece(DiskPlan, 3, 3) /\ Lacks(DiskPlan, M)
      /\ \A d \in Range(Disks) : Has(DiskPlan, DiskSteps(d))
  <2>1. \A s \in Step : s.do \in {"probe", "mount"} => Rank(s) = 3
    BY DEF Rank, BuilderDo, Compiling
  <2>2. Piece(DiskPlan, 3, 3)
    BY <2>1, DiskPlanIs, LevelPiece
  <2>3. QED
    BY <2>2, DiskPlanIs DEF Only, Lacks, Dos
<1>3. Piece(q3, 4, 4) /\ Lacks(q3, M) /\ Has(q3, {Do("disks")})
  <2>1. Do("disks") \in Step /\ Rank(Do("disks")) = 4
    BY <1>0 DEF Rank, Do, BuilderDo, Compiling
  <2>2. QED
    BY <2>1, OnePiece DEF Lacks, Dos, Do
<1>4. Piece(q4, 5, 5) /\ Lacks(q4, M)
  <2>1. \A s \in Step : s.do \in BuilderDo => Rank(s) = 5
    BY DEF Rank, BuilderDo, Compiling
  <2>2. Piece(q4, 5, 5)
    BY <2>1, BuildPlanIs, LevelPiece
  <2>3. QED
    BY <2>2, BuildPlanIs DEF Only, Lacks, Dos, BuilderDo, Compiling
<1>5. /\ Piece(q5, 6, 9) /\ Lacks(q5, M)
      /\ \A f \in Files : Has(q5, To("verify", f))
  <2>1. Do("push") \in Step /\ Do("verify") \in Step
    BY StepIs DEF Do
  <2>2. Rank(Do("push")) = 6 /\ Rank(Do("verify")) = 7
    BY DEF Rank, Do, BuilderDo, Compiling
  <2>3. CASE "geyser" \in Files
    <3>1. Geyser("push") \in Step /\ Geyser("verify") \in Step
      BY <2>3, StepIs DEF Geyser
    <3>2. Rank(Geyser("push")) = 8 /\ Rank(Geyser("verify")) = 9
      BY DEF Rank, Geyser, BuilderDo, Compiling
    <3>3. q5 = <<Do("push"), Do("verify"), Geyser("push"), Geyser("verify")>>
      BY <2>3 DEF Distribute
    <3>4. Piece(q5, 6, 9) /\ Has(q5, {Do("verify")}) /\ Has(q5, {Geyser("verify")})
      BY <2>1, <2>2, <3>1, <3>2, <3>3, FourPiece
    <3>5. Lacks(q5, M)
      BY <3>3 DEF Lacks, Dos, Do, Geyser
    <3>6. \A f \in Files : {Do("verify")} \subseteq To("verify", f)
                            \/ {Geyser("verify")} \subseteq To("verify", f)
      BY <2>1, <3>1 DEF To, Dos, Do, Geyser, Files, Parts
    <3>7. QED
      BY <3>4, <3>5, <3>6 DEF Has
  <2>4. CASE "geyser" \notin Files
    <3>1. q5 = <<Do("push"), Do("verify")>>
      BY <2>4 DEF Distribute
    <3>2. Piece(q5, 6, 7) /\ Has(q5, {Do("push")}) /\ Has(q5, {Do("verify")})
      BY <2>1, <2>2, <3>1, TwoPiece
    <3>3. Piece(q5, 6, 9)
      <4>1. \A i \in 1..Len(q5) : Rank(q5[i]) \in Nat
        BY RankIsNat
      <4> HIDE DEF q5
      <4>2. QED
        BY <3>2, <4>1 DEF Piece
    <3>4. Lacks(q5, M)
      BY <3>1 DEF Lacks, Dos, Do
    <3>5. \A f \in Files : {Do("verify")} \subseteq To("verify", f)
      BY <2>1, <2>4 DEF To, Dos, Do, Files, Parts
    <3>6. QED
      BY <3>2, <3>3, <3>4, <3>5 DEF Has
  <2>5. QED
    BY <2>3, <2>4
<1>6. Piece(q6, 10, 10) /\ Lacks(q6, M) /\ Has(q6, {Do("check")})
  <2>1. Do("check") \in Step /\ Rank(Do("check")) = 10
    BY <1>0 DEF Rank, Do, BuilderDo, Compiling
  <2>2. QED
    BY <2>1, OnePiece DEF Lacks, Dos, Do
<1>7. /\ Piece(q7, 11, 12) /\ Lacks(q7, M)
      /\ \A f \in Files : Has(q7, To("swap", f))
  <2>1. /\ Placed \in {<<"binary">>, <<"binary", "geyser">>}
        /\ Placed = <<"binary">> \/ "geyser" \in Parts
        /\ \A f \in Files : \E i \in 1..Len(Placed) : Placed[i] = f
    BY StepIs DEF Placed, Files, Parts
  <2>2. /\ Only(q7, {"swap"}) /\ Len(q7) = Len(Placed)
        /\ \A i \in 1..Len(q7) : q7[i].part = Placed[i]
    BY <2>1, ForEachIs
  <2> HIDE DEF q7
  <2>3. q7 \in Seq(Step) /\ \A i \in 1..Len(q7) : q7[i] \in Step /\ q7[i].do = "swap"
    BY <2>2, ElementOfSeq DEF Only
  <2>4. \A i \in 1..Len(q7) : Rank(q7[i]) = IF Placed[i] = "binary" THEN 11 ELSE 12
    BY <2>2, <2>3 DEF Rank, BuilderDo, Compiling
  <2>5. Piece(q7, 11, 12)
    BY <2>1, <2>2, <2>3, <2>4 DEF Piece
  <2>6. \A f \in Files : Has(q7, To("swap", f))
    BY <2>1, <2>2, <2>3 DEF Has, To, Dos
  <2>7. QED
    BY <2>3, <2>5, <2>6 DEF Lacks, Dos
<1>8. Piece(q8, 13, 14) /\ Lacks(q8, M) /\ Has(q8, {Do("identity")})
  <2>1. Do("unit") \in Step /\ Do("identity") \in Step
    BY <1>0 DEF Stages
  <2>2. Rank(Do("unit")) = 13 /\ Rank(Do("identity")) = 14
    BY DEF Rank, Do, BuilderDo, Compiling
  <2>3. Piece(q8, 13, 14) /\ Has(q8, {Do("unit")}) /\ Has(q8, {Do("identity")})
    BY <2>1, <2>2, TwoPiece
  <2>4. QED
    BY <2>3 DEF Lacks, Dos, Do
<1>9. Piece(q9, 15, 15) /\ Lacks(q9, M) /\ (Voting => Has(q9, {Do("vote")}))
  <2>1. CASE Voting
    <3>1. Do("vote") \in Step /\ Rank(Do("vote")) = 15
      BY <1>0, <2>1 DEF Rank, Do, BuilderDo, Compiling
    <3>2. QED
      BY <2>1, <3>1, OnePiece DEF Lacks, Dos, Do
  <2>2. CASE ~Voting
    BY <2>2 DEF Piece, Lacks
  <2>3. QED
    BY <2>1, <2>2
<1>10. /\ Piece(q10, 16, 18) /\ Lacks(q10, M) /\ Ends(q10)
       /\ Has(q10, {Do("start")}) /\ Has(q10, {Do("catchup")})
  <2>1. Do("start") \in Step /\ Do("catchup") \in Step /\ Do("finish") \in Step
    BY <1>0 DEF Stages
  <2>2. Rank(Do("start")) = 16 /\ Rank(Do("catchup")) = 17 /\ Rank(Do("finish")) = 18
    BY DEF Rank, Do, BuilderDo, Compiling
  <2>3. Piece(q10, 16, 18) /\ Has(q10, {Do("start")}) /\ Has(q10, {Do("catchup")})
    BY <2>1, <2>2, ThreePiece
  <2>4. QED
    BY <2>1, <2>3 DEF Lacks, Dos, Do, Ends
<1> DEFINE p2 == q1 \o DiskPlan
           p3 == p2 \o q3
           p4 == p3 \o q4
           p5 == p4 \o q5
           p6 == p5 \o q6
           p7 == p6 \o q7
           p8 == p7 \o q8
           p9 == p8 \o q9
           p10 == p9 \o q10
<1>11. ProvisionPlan = p10
  BY DEF ProvisionPlan
<1> HIDE DEF q1, q3, q4, q5, q6, q7, q8, q9, q10, M
<1>12. /\ Piece(p2, 1, 3) /\ Lacks(p2, M)
       /\ \A S : Has(q1, S) \/ Has(DiskPlan, S) => Has(p2, S)
  BY <1>1, <1>2, Chain
<1> HIDE DEF p2
<1>13. /\ Piece(p3, 1, 4) /\ Lacks(p3, M)
       /\ \A S : Has(p2, S) \/ Has(q3, S) => Has(p3, S)
  BY <1>12, <1>3, Chain
<1> HIDE DEF p3
<1>14. /\ Piece(p4, 1, 5) /\ Lacks(p4, M)
       /\ \A S : Has(p3, S) \/ Has(q4, S) => Has(p4, S)
  BY <1>13, <1>4, Chain
<1> HIDE DEF p4
<1>15. /\ Piece(p5, 1, 9) /\ Lacks(p5, M)
       /\ \A S : Has(p4, S) \/ Has(q5, S) => Has(p5, S)
  BY <1>14, <1>5, Chain
<1> HIDE DEF p5
<1>16. /\ Piece(p6, 1, 10) /\ Lacks(p6, M)
       /\ \A S : Has(p5, S) \/ Has(q6, S) => Has(p6, S)
  BY <1>15, <1>6, Chain
<1> HIDE DEF p6
<1>17. /\ Piece(p7, 1, 12) /\ Lacks(p7, M)
       /\ \A S : Has(p6, S) \/ Has(q7, S) => Has(p7, S)
  BY <1>16, <1>7, Chain
<1> HIDE DEF p7
<1>18. /\ Piece(p8, 1, 14) /\ Lacks(p8, M)
       /\ \A S : Has(p7, S) \/ Has(q8, S) => Has(p8, S)
  BY <1>17, <1>8, Chain
<1> HIDE DEF p8
<1>19. /\ Piece(p9, 1, 15) /\ Lacks(p9, M)
       /\ \A S : Has(p8, S) \/ Has(q9, S) => Has(p9, S)
  BY <1>18, <1>9, Chain
<1> HIDE DEF p9
<1>20. /\ Piece(p10, 1, 18) /\ Lacks(p10, M) /\ Ends(p10)
       /\ \A S : Has(p9, S) \/ Has(q10, S) => Has(p10, S)
  <2>1. /\ Piece(p10, 1, 18) /\ Lacks(p10, M)
        /\ \A S : Has(p9, S) \/ Has(q10, S) => Has(p10, S)
    BY <1>19, <1>10, Chain
  <2>2. Ends(p10)
    BY <1>19, <1>10, Joined DEF Piece
  <2>3. QED
    BY <2>1, <2>2
<1> HIDE DEF p10
<1>21. /\ \A S : Has(q1, S) \/ Has(DiskPlan, S) \/ Has(q3, S) \/ Has(q5, S) => Has(p5, S)
       /\ \A S : Has(p5, S) \/ Has(q6, S) \/ Has(q7, S) \/ Has(q8, S) => Has(p8, S)
       /\ \A S : Has(p8, S) \/ Has(q9, S) \/ Has(q10, S) => Has(p10, S)
  BY <1>12, <1>13, <1>14, <1>15, <1>16, <1>17, <1>18, <1>19, <1>20
<1>22. \A c \in {"user", "system", "disks", "check", "start", "catchup"} \cup Keys :
         Has(p10, {Do(c)})
  BY <1>0, <1>1, <1>3, <1>6, <1>8, <1>9, <1>10, <1>21
<1>23. /\ \A f \in Files : Has(p10, To("verify", f)) /\ Has(p10, To("swap", f))
       /\ \A d \in Range(Disks) : Has(p10, DiskSteps(d))
  BY <1>2, <1>5, <1>7, <1>21
<1>24. QED
  BY <1>11, <1>20, <1>22, <1>23 DEF M
-----------------------------------------------------------------------------
(* Runs. *)

\* Formatting device d would not take data from a run that saw it.
MayFormat(j, d) ==
  d \in j.format \cap j.ack /\ (d \in j.blind \/ device[d] # "data" \/ d \in prepared)

\* What run j has behind it, or still before it.
RunOK(j) ==
  /\ Ends(j.plan)
  /\ \A i \in 1..Len(j.plan) :
       j.plan[i].do = "mkfs" => i = 1 /\ MayFormat(j, j.plan[i].part)
  /\ \A d \in Range(Disks) :
       d \in prepared \/ ~j.disks_ok \/ Waits(j.plan, Dos({"disks"}), DiskSteps(d))
  /\ Range(Disks) \subseteq prepared \/ Waits(j.plan, Dos({"start"}), Dos({"disks"}))
  /\ \A k \in Keys : k \in keys \/ Waits(j.plan, Dos({"start"}), Dos({k}))

\* What no step of the system takes back.
Grows ==
  /\ prepared \subseteq prepared' /\ keys \subseteq keys'
  /\ \A d \in Blocks : device'[d] = "data" => device[d] = "data" \/ d \in prepared'

LEMMA HeadIs ==
  ASSUME NEW p, Ends(p)
  PROVE  /\ p \in Seq(Step) /\ Len(p) \in Nat /\ Len(p) > 0 /\ p # <<>>
         /\ Head(p) = p[1] /\ p[1] \in Step
         /\ p[1].do # "finish" => Len(p) > 1
         /\ \A i \in 1..Len(p) : p[i] \in Step
<1>1. p \in Seq(Step) /\ Len(p) \in Nat /\ Len(p) > 0 /\ p[Len(p)].do = "finish"
  BY LenProperties DEF Ends
<1>2. \A i \in 1..Len(p) : p[i] \in Step
  BY <1>1, ElementOfSeq
<1>3. Head(p) = p[1]
  BY <1>1, TailIsFrom
<1>4. p[1].do # "finish" => Len(p) > 1
  BY <1>1
<1>5. QED
  BY <1>1, <1>2, <1>3, <1>4

\* A run that is as far as j was, after a step of another actor.
LEMMA RunFramed ==
  ASSUME NEW j \in Runs, RunOK(j), Grows
  PROVE  RunOK(j)'
<1>1. ASSUME NEW i \in 1..Len(j.plan), j.plan[i].do = "mkfs"
      PROVE  i = 1 /\ MayFormat(j, j.plan[i].part)'
  <2>1. i = 1 /\ MayFormat(j, j.plan[i].part)
    BY <1>1 DEF RunOK
  <2>2. j.plan[i].part \in Blocks
    BY <2>1 DEF MayFormat, Runs
  <2>3. QED
    BY <2>1, <2>2 DEF MayFormat, Grows
<1>2. QED
  BY <1>1 DEF RunOK, Grows

\* Run k differs from j in what the plan does not depend on.
LEMMA RunSame ==
  ASSUME NEW j, RunOK(j), NEW k, k.plan = j.plan, k.format = j.format, k.ack = j.ack,
         k.blind = j.blind, k.disks_ok = j.disks_ok
  PROVE  RunOK(k)
BY DEF RunOK, MayFormat

\* Run j goes on as k, the commands before the m-th done with.
LEMMA RunMoves ==
  ASSUME NEW j \in Runs, RunOK(j), Grows, NEW m \in 2..Len(j.plan), NEW k,
         k.plan = From(j.plan, m), k.disks_ok => j.disks_ok,
         \A i \in 1..m-1 :
           /\ j.plan[i].do = "disks" => Range(Disks) \subseteq prepared'
           /\ j.plan[i].do \in Keys => j.plan[i].do \in keys'
           /\ j.plan[i].do \in {"probe", "mkfs", "mount"} =>
                j.plan[i].part \in prepared' \/ ~k.disks_ok
  PROVE  RunOK(k)'
<1> DEFINE p == j.plan
           r == From(p, m)
<1>1. /\ Ends(p) /\ p \in Seq(Step) /\ Len(p) \in Nat /\ m \in 1..Len(p)
      /\ RunOK(j)'
  <2>1. Ends(p)
    BY DEF RunOK
  <2>2. RunOK(j)'
    BY RunFramed
  <2>3. QED
    BY <2>1, <2>2, HeadIs
<1>2. /\ Ends(r) /\ Len(r) = Len(p) - m + 1
      /\ \A i \in 1..Len(p) - m + 1 : r[i] = p[m+i-1]
      /\ \A T, S : Waits(p, T, S) /\ (\A i \in 1..m-1 : p[i] \notin S) => Waits(r, T, S)
  <2>1. Len(r) = Len(p) - m + 1 /\ \A i \in 1..Len(p) - m + 1 : r[i] = p[m+i-1]
    BY <1>1, FromIsPlan
  <2>2. Ends(r)
    BY <1>1, Left
  <2>3. ASSUME NEW T, NEW S, Waits(p, T, S), \A i \in 1..m-1 : p[i] \notin S
        PROVE  Waits(r, T, S)
    BY <1>1, <2>3, Left
  <2>4. QED
    BY <2>1, <2>2, <2>3
<1>3. ASSUME NEW i \in 1..Len(r) PROVE r[i].do # "mkfs"
  <2>1. m+i-1 \in 1..Len(p) /\ m+i-1 # 1 /\ r[i] = p[m+i-1]
    BY <1>1, <1>2
  <2>2. QED
    BY <2>1 DEF RunOK
<1>4. ASSUME NEW d \in Range(Disks), d \notin prepared', k.disks_ok
      PROVE  Waits(r, Dos({"disks"}), DiskSteps(d))
  <2>1. Waits(p, Dos({"disks"}), DiskSteps(d))
    BY <1>1, <1>4 DEF RunOK
  <2>2. \A i \in 1..m-1 : p[i] \notin DiskSteps(d)
    BY <1>4 DEF DiskSteps, Dos
  <2>3. QED
    BY <1>2, <2>1, <2>2
<1>5. ASSUME ~ (Range(Disks) \subseteq prepared')
      PROVE  Waits(r, Dos({"start"}), Dos({"disks"}))
  <2>1. Waits(p, Dos({"start"}), Dos({"disks"}))
    BY <1>1, <1>5 DEF RunOK
  <2>2. \A i \in 1..m-1 : p[i] \notin Dos({"disks"})
    BY <1>5 DEF Dos
  <2>3. QED
    BY <1>2, <2>1, <2>2
<1>6. ASSUME NEW x \in Keys, x \notin keys'
      PROVE  Waits(r, Dos({"start"}), Dos({x}))
  <2>1. Waits(p, Dos({"start"}), Dos({x}))
    BY <1>1, <1>6 DEF RunOK
  <2>2. \A i \in 1..m-1 : p[i] \notin Dos({x})
    BY <1>6 DEF Dos
  <2>3. QED
    BY <1>2, <2>1, <2>2
<1> HIDE DEF r, p
<1>7. k.plan = r
  BY DEF r, p
<1>8. QED
  BY <1>2, <1>3, <1>4, <1>5, <1>6, <1>7 DEF RunOK

\* Run j goes on as k to report that it failed.
LEMMA RunEnds ==
  ASSUME NEW k, k.plan = <<Do("finish")>>
  PROVE  RunOK(k)'
<1>1. Do("finish") \in Step /\ Do("finish").do = "finish"
  BY StepIs DEF Do
<1>2. k.plan \in Seq(Step) /\ Len(k.plan) = 1 /\ k.plan[1].do = "finish"
  BY <1>1
<1>3. \A T, S : (\A s \in T : s.do # "finish") => Waits(k.plan, T, S)
  BY <1>2 DEF Waits
<1>4. Ends(k.plan)
  BY <1>2 DEF Ends
<1>5. \A S : Waits(k.plan, Dos({"disks"}), S) /\ Waits(k.plan, Dos({"start"}), S)
  BY <1>3 DEF Dos
<1>6. QED
  BY <1>2, <1>4, <1>5 DEF RunOK

\* Disk d is at the head of the plan of run j, which goes on as k to do c to it.
LEMMA RunOnward ==
  ASSUME NEW j \in Runs, RunOK(j), Grows, NEW k, NEW c \in {"mkfs", "mount"}, NEW d,
         j.plan[1].do \in {"probe", "mkfs"}, j.plan[1].part = d, [do |-> c, part |-> d] \in Step,
         k.plan = Onward(j.plan, c), k.disks_ok => j.disks_ok,
         c = "mkfs" => MayFormat(k, d)'
  PROVE  RunOK(k)'
<1> DEFINE p == j.plan
           s == [do |-> c, part |-> d]
           q == [p EXCEPT ![1] = s]
<1>1. /\ Ends(p) /\ p \in Seq(Step) /\ Len(p) \in Nat /\ Len(p) > 1
      /\ RunOK(j)'
  <2>1. Ends(p)
    BY DEF RunOK
  <2>2. RunOK(j)'
    BY RunFramed
  <2>3. QED
    BY <2>1, <2>2, HeadIs
<1>2. k.plan = q
  BY <1>1 DEF Onward, On
<1>3. /\ q \in Seq(Step) /\ Len(q) = Len(p) /\ q[1] = s
      /\ \A i \in 1..Len(p) : i # 1 => q[i] = p[i]
  BY <1>1
<1> HIDE DEF p, q
<1>4. s.do = c /\ s.part = d
  OBVIOUS
<1> HIDE DEF s
<1>5. ASSUME NEW T, NEW S, Waits(p, T, S), s \notin T, p[1] \in S => s \in S
      PROVE  Waits(q, T, S)
  <2>1. ASSUME NEW i \in 1..Len(q), q[i] \in T PROVE \E m \in 1..i-1 : q[m] \in S
    <3>1. i # 1 /\ p[i] \in T /\ i \in 1..Len(p)
      BY <1>3, <1>5, <2>1
    <3>2. PICK m \in 1..i-1 : p[m] \in S
      BY <1>5, <3>1 DEF Waits
    <3>3. q[m] \in S
      BY <1>1, <1>3, <1>5, <3>1, <3>2
    <3>4. QED
      BY <3>3
  <2>2. QED
    BY <2>1 DEF Waits
<1>6. Ends(q)
  BY <1>1, <1>3 DEF Ends
<1>7. ASSUME NEW i \in 1..Len(q), q[i].do = "mkfs"
      PROVE  i = 1 /\ MayFormat(k, q[i].part)'
  <2>1. i = 1
    BY <1>3, <1>7 DEF RunOK, p
  <2>2. QED
    BY <1>3, <1>4, <1>7, <2>1
<1>8. ASSUME NEW x \in Range(Disks), x \notin prepared', k.disks_ok
      PROVE  Waits(q, Dos({"disks"}), DiskSteps(x))
  <2>1. Waits(p, Dos({"disks"}), DiskSteps(x))
    BY <1>1, <1>8 DEF RunOK, p
  <2>2. s \notin Dos({"disks"}) /\ (p[1] \in DiskSteps(x) => s \in DiskSteps(x))
    BY <1>4 DEF DiskSteps, Dos, p, s
  <2>3. QED
    BY <1>5, <2>1, <2>2
<1>9. ASSUME ~ (Range(Disks) \subseteq prepared')
      PROVE  Waits(q, Dos({"start"}), Dos({"disks"}))
  <2>1. Waits(p, Dos({"start"}), Dos({"disks"}))
    BY <1>1, <1>9 DEF RunOK, p
  <2>2. s \notin Dos({"start"}) /\ p[1] \notin Dos({"disks"})
    BY <1>4 DEF Dos, p
  <2>3. QED
    BY <1>5, <2>1, <2>2
<1>10. ASSUME NEW x \in Keys, x \notin keys'
      PROVE  Waits(q, Dos({"start"}), Dos({x}))
  <2>1. Waits(p, Dos({"start"}), Dos({x}))
    BY <1>1, <1>10 DEF RunOK, p
  <2>2. s \notin Dos({"start"}) /\ p[1] \notin Dos({x})
    BY <1>4 DEF Dos, p, Keys
  <2>3. QED
    BY <1>5, <2>1, <2>2
<1>11. QED
  BY <1>2, <1>6, <1>7, <1>8, <1>9, <1>10 DEF RunOK

\* A new run.
LEMMA RunBegins ==
  ASSUME NEW v, NEW ack
  PROVE  RunOK(Run(v, ack))
<1> DEFINE p == ProvisionPlan
           k == Run(v, ack)
<1>1. k.plan = p
  BY DEF Run
<1> HIDE DEF k
<1>2. Piece(p, 1, 18) /\ Ends(p) /\ Lacks(p, Dos({"mkfs"})) /\ Has(p, {Do("disks")})
      /\ (\A c \in Keys : Has(p, {Do(c)})) /\ \A d \in Range(Disks) : Has(p, DiskSteps(d))
  BY PlanIs
<1> HIDE DEF p
<1>3. \A i \in 1..Len(p) : p[i].do # "mkfs"
  BY <1>2, HeadIs DEF Lacks, Dos
<1>4. ASSUME NEW d \in Range(Disks) PROVE Waits(p, Dos({"disks"}), DiskSteps(d))
  <2>1. \A s \in DiskSteps(d) : \A t \in Dos({"disks"}) : Rank(s) < Rank(t)
    BY DEF DiskSteps, Dos, Rank, BuilderDo, Compiling
  <2>2. QED
    BY <1>2, <2>1, PieceOrders
<1>5. ASSUME NEW c \in {"disks"} \cup Keys PROVE Waits(p, Dos({"start"}), Dos({c}))
  <2>1. \A s \in Dos({c}) : \A t \in Dos({"start"}) : Rank(s) < Rank(t)
    BY DEF Dos, Keys, Rank, BuilderDo, Compiling
  <2>2. {Do(c)} \subseteq Dos({c})
    BY StepIs DEF Dos, Do
  <2>3. Has(p, Dos({c}))
    BY <1>2, <2>2 DEF Has
  <2>4. QED
    BY <1>2, <2>1, <2>3, PieceOrders
<1>6. QED
  BY <1>1, <1>2, <1>3, <1>4, <1>5 DEF RunOK, k
-----------------------------------------------------------------------------
(* The invariant. *)

HostOK ==
  /\ BuilderTypeOK
  /\ format \in SUBSET Blocks
  /\ device \in [Blocks -> {"blank", "fs", "data"}]
  /\ prepared \in SUBSET Range(Disks)
  /\ done \in SUBSET Stages
  /\ keys \in SUBSET Keys
  /\ file \in [Files -> Content \cup {None}]
  /\ staged \in [Files -> Content \cup {None}]
  /\ image = None \/ image \in [Files -> Content]
  /\ report = None \/ report \in Report
  /\ faults \in 0..MaxFaults

JobsOK ==
  /\ DOMAIN job = Operators
  /\ \A o \in Provisioners : job[o] = None \/ (job[o] \in Runs /\ RunOK(job[o]))
  /\ \A o \in Upgraders : job[o] = None \/ (job[o] \in Builds /\ Ends(job[o].plan))

\* Every run has what it leaves out of its plan behind it, and the node is
\* not started before its keys and its disks are there.
Inv == HostOK /\ JobsOK /\ NotStartedUnprepared

LEMMA InvTypes == Inv => TypeOK
<1> SUFFICES ASSUME Inv PROVE TypeOK
  OBVIOUS
<1>1. HostOK /\ JobsOK
  BY DEF Inv
<1>2. \A o \in Operators : job[o] # None => job[o].plan # <<>>
  BY <1>1, HeadIs DEF JobsOK, RunOK, Operators
<1>3. /\ \A o \in Provisioners : job[o] \in Runs \cup {None}
      /\ \A o \in Upgraders : job[o] \in Builds \cup {None}
      /\ DOMAIN job = Operators
  BY <1>1 DEF JobsOK
<1>4. QED
  BY <1>1, <1>2, <1>3 DEF HostOK, TypeOK

LEMMA JobsStep ==
  ASSUME JobsOK, Grows, NEW o \in Operators, NEW k, job' = [job EXCEPT ![o] = k],
         o \in Provisioners => k = None \/ (k \in Runs /\ RunOK(k)'),
         o \in Upgraders => k = None \/ (k \in Builds /\ Ends(k.plan))
  PROVE  JobsOK'
<1>1. DOMAIN job = Operators /\ DOMAIN job' = Operators
  BY DEF JobsOK
<1>2. ASSUME NEW x \in Provisioners
      PROVE  job'[x] = None \/ (job'[x] \in Runs /\ RunOK(job[x])')
  <2>1. CASE x = o
    BY <1>1, <2>1
  <2>2. CASE x # o
    <3>1. PICK j : j = job[x]
      OBVIOUS
    <3>2. job'[x] = j
      BY <1>1, <2>2, <3>1 DEF Operators
    <3>3. j = None \/ (j \in Runs /\ RunOK(j))
      BY <3>1 DEF JobsOK
    <3>4. j = None \/ (j \in Runs /\ RunOK(j)')
      BY <3>3, RunFramed
    <3>5. QED
      BY <3>2, <3>4
  <2>3. QED
    BY <2>1, <2>2
<1>3. ASSUME NEW x \in Upgraders
      PROVE  job'[x] = None \/ (job'[x] \in Builds /\ Ends(job'[x].plan))
  BY <1>1 DEF JobsOK, Operators
<1>4. QED
  BY <1>1, <1>2, <1>3 DEF JobsOK

LEMMA JobsSame ==
  ASSUME JobsOK, Grows, UNCHANGED job
  PROVE  JobsOK'
<1>1. ASSUME NEW x \in Provisioners
      PROVE  job'[x] = None \/ (job'[x] \in Runs /\ RunOK(job[x])')
  <2>1. PICK j : j = job[x]
    OBVIOUS
  <2>2. j = None \/ (j \in Runs /\ RunOK(j)')
    BY <2>1, RunFramed DEF JobsOK
  <2>3. QED
    BY <2>1, <2>2
<1>2. QED
  BY <1>1 DEF JobsOK

LEMMA JobsBegin ==
  ASSUME JobsOK, Grows, NEW o \in Operators, NEW k, Begin(o, k),
         o \in Provisioners => k \in Runs /\ RunOK(k),
         o \in Upgraders => k \in Builds /\ Ends(k.plan)
  PROVE  JobsOK'
<1>1. DOMAIN job = Operators /\ DOMAIN job' = Operators
  BY DEF JobsOK, Begin
<1>2. ASSUME NEW x \in Operators
      PROVE  \E b \in BOOLEAN : job'[x] = IF x = o THEN [k EXCEPT !.alone = b]
                                        ELSE IF job[x] = None THEN None
                                        ELSE [job[x] EXCEPT !.alone = b]
  <2> DEFINE a == \A y \in DOMAIN job : ~Building(y)
             b == job[x].alone /\ ~Building(x)
  <2>1. job'[x] = IF x = o THEN [k EXCEPT !.alone = a]
                  ELSE IF job[x] = None THEN None
                  ELSE [job[x] EXCEPT !.alone = b]
    BY <1>1 DEF Begin
  <2>2. a \in BOOLEAN /\ b \in BOOLEAN
    OBVIOUS
  <2> HIDE DEF a, b
  <2>3. QED
    BY <2>1, <2>2
<1>3. ASSUME NEW j \in Runs, NEW b \in BOOLEAN
      PROVE  LET i == [j EXCEPT !.alone = b] IN
             /\ i \in Runs /\ i.plan = j.plan /\ i.format = j.format /\ i.ack = j.ack
             /\ i.blind = j.blind /\ i.disks_ok = j.disks_ok
  BY DEF Runs
<1>4. ASSUME NEW j \in Builds, NEW b \in BOOLEAN
      PROVE  [j EXCEPT !.alone = b] \in Builds /\ [j EXCEPT !.alone = b].plan = j.plan
  BY DEF Builds
<1>5. ASSUME NEW x \in Provisioners
      PROVE  job'[x] = None \/ (job'[x] \in Runs /\ RunOK(job[x])')
  <2>1. PICK b \in BOOLEAN : job'[x] = IF x = o THEN [k EXCEPT !.alone = b]
                                      ELSE IF job[x] = None THEN None
                                      ELSE [job[x] EXCEPT !.alone = b]
    BY <1>2 DEF Operators
  <2>2. PICK j : j = IF x = o THEN k ELSE job[x]
    OBVIOUS
  <2>3. job'[x] = None \/ (job'[x] = [j EXCEPT !.alone = b] /\ j \in Runs /\ RunOK(j))
    BY <2>1, <2>2 DEF JobsOK
  <2>4. PICK i : i = [j EXCEPT !.alone = b]
    OBVIOUS
  <2>5. ASSUME j \in Runs, RunOK(j) PROVE i \in Runs /\ RunOK(i)'
    <3>1. /\ i \in Runs /\ i.plan = j.plan /\ i.format = j.format /\ i.ack = j.ack
          /\ i.blind = j.blind /\ i.disks_ok = j.disks_ok
      BY <1>3, <2>4, <2>5
    <3>2. RunOK(i)
      BY <2>5, <3>1, RunSame
    <3>3. QED
      BY <3>1, <3>2, RunFramed
  <2>6. QED
    BY <2>3, <2>4, <2>5
<1>6. ASSUME NEW x \in Upgraders
      PROVE  job'[x] = None \/ (job'[x] \in Builds /\ Ends(job'[x].plan))
  <2>1. PICK b \in BOOLEAN : job'[x] = IF x = o THEN [k EXCEPT !.alone = b]
                                      ELSE IF job[x] = None THEN None
                                      ELSE [job[x] EXCEPT !.alone = b]
    BY <1>2 DEF Operators
  <2>2. PICK j : j = IF x = o THEN k ELSE job[x]
    OBVIOUS
  <2>3. job'[x] = None
        \/ (job'[x] = [j EXCEPT !.alone = b] /\ j \in Builds /\ Ends(j.plan))
    BY <2>1, <2>2 DEF JobsOK
  <2>4. QED
    BY <1>4, <2>3
<1>7. QED
  BY <1>1, <1>5, <1>6 DEF JobsOK

\* A command of a build takes a run to a run.
LEMMA RunAdvances ==
  ASSUME NEW o, NEW j \in Runs, RunOK(j), Grows, NEW k, Advances(o, j, k)
  PROVE  k \in Runs /\ RunOK(k)'
<1>1. Ends(j.plan)
  BY DEF RunOK
<1>2. PICK plan : /\ Past(j.plan, plan) \/ plan = <<Do("finish")>>
                  /\ k.plan = plan /\ k.disks_ok = j.disks_ok
                  /\ (plan \in Seq(Step) => k \in Runs)
  <2>1. \E plan : /\ Past(j.plan, plan) \/ plan = <<Do("finish")>>
                  /\ k.plan = plan /\ k.disks_ok = j.disks_ok
                  /\ (plan \in Seq(Step) => k \in Runs)
    BY DEF Advances, Runs
  <2>2. QED
    BY <2>1
<1>3. CASE plan = <<Do("finish")>>
  <2>1. <<Do("finish")>> \in Seq(Step)
    BY StepIs
  <2>2. QED
    BY <1>2, <1>3, <2>1, RunEnds
<1>4. CASE Past(j.plan, plan)
  <2>1. PICK m \in 2..Len(j.plan) :
          plan = From(j.plan, m) /\ \A i \in 1..m-1 : j.plan[i].do \in BuilderDo
    BY <1>4 DEF Past
  <2>2. j.plan \in Seq(Step) /\ m \in 1..Len(j.plan)
    BY <1>1, HeadIs
  <2>3. k \in Runs
    BY <1>2, <2>1, <2>2, FromIsPlan
  <2>4. \A i \in 1..m-1 :
           /\ j.plan[i].do = "disks" => Range(Disks) \subseteq prepared'
           /\ j.plan[i].do \in Keys => j.plan[i].do \in keys'
           /\ j.plan[i].do \in {"probe", "mkfs", "mount"} =>
                j.plan[i].part \in prepared' \/ ~k.disks_ok
    BY <2>1 DEF BuilderDo, Compiling, Keys
  <2>5. RunOK(k)'
    BY <1>2, <2>1, <2>4, RunMoves
  <2>6. QED
    BY <2>3, <2>5
<1>5. QED
  BY <1>2, <1>3, <1>4

LEMMA BuildAdvances ==
  ASSUME NEW o, NEW j \in Builds, Ends(j.plan), NEW k, Advances(o, j, k)
  PROVE  k \in Builds /\ Ends(k.plan)
<1>1. \E plan : /\ Past(j.plan, plan) \/ plan = <<Do("finish")>>
                /\ k.plan = plan /\ (plan \in Seq(Step) => k \in Builds)
  BY DEF Advances, Builds
<1>2. PICK plan : /\ Past(j.plan, plan) \/ plan = <<Do("finish")>>
                  /\ k.plan = plan /\ (plan \in Seq(Step) => k \in Builds)
  BY <1>1
<1>3. CASE plan = <<Do("finish")>>
  <2>1. <<Do("finish")>> \in Seq(Step) /\ Do("finish").do = "finish"
    BY StepIs DEF Do
  <2>2. QED
    BY <1>2, <1>3, <2>1 DEF Ends
<1>4. CASE Past(j.plan, plan)
  <2>1. PICK m \in 2..Len(j.plan) : plan = From(j.plan, m)
    BY <1>4 DEF Past
  <2>2. j.plan \in Seq(Step) /\ m \in 1..Len(j.plan)
    BY HeadIs
  <2>3. Ends(plan)
    BY <2>1, <2>2, Left
  <2>4. QED
    BY <1>2, <2>3 DEF Ends
<1>5. QED
  BY <1>2, <1>3, <1>4

LEMMA WorkIsUnfinished ==
  ASSUME NEW o, NEW j, job[o] = j, Ends(j.plan), BuilderWork(o)
  PROVE  Unfinished(j.plan, Step)
<1>1. Head(j.plan).do \in BuilderDo
  BY DEF BuilderWork, Bootstrap, Cached, Fetch, Checkout, Compile, Copy, Collect, At,
         BuilderDo, Compiling
<1>2. /\ j.plan \in Seq(Step) /\ Head(j.plan) = j.plan[1] /\ j.plan[1] \in Step
      /\ (j.plan[1].do # "finish" => Len(j.plan) > 1)
  BY HeadIs
<1>3. j.plan[1].do \in BuilderDo => j.plan[1].do # "finish" /\ j.plan[1].part \in Parts
  BY <1>2, StepIs DEF Step, BuilderDo, Compiling, Stages, Keys
<1>4. QED
  BY <1>1, <1>2, <1>3 DEF Unfinished, Ends

\* A step that leaves the host alone.
LEMMA HostSame ==
  ASSUME Inv, UNCHANGED <<hostVars, intent, report>>, BuilderTypeOK', faults' \in 0..MaxFaults
  PROVE  Grows /\ HostOK' /\ NotStartedUnprepared'
<1>1. /\ HostOK /\ NotStartedUnprepared
      /\ UNCHANGED <<format, device, prepared, done, keys, file, staged, image, report>>
  BY DEF Inv, hostVars, intent, disks, files
<1>2. Grows
  BY <1>1 DEF Grows
<1>3. HostOK'
  BY <1>1 DEF HostOK
<1>4. NotStartedUnprepared'
  BY <1>1 DEF NotStartedUnprepared
<1>5. QED
  BY <1>2, <1>3, <1>4

LEMMA OutcomeCounts ==
  ASSUME NEW ok, NEW possible, Outcome(ok, possible), faults \in 0..MaxFaults
  PROVE  faults' \in 0..MaxFaults
BY ProvisionAssumption DEF Outcome

LEMMA WorkStep ==
  ASSUME Inv, NEW o \in Operators, BuilderWork(o), UNCHANGED <<hostVars, intent, report>>
  PROVE  Inv'
<1>1. HostOK /\ JobsOK /\ BuilderTypeOK /\ faults \in 0..MaxFaults /\ MaxFaults \in Nat
  BY ProvisionAssumption DEF Inv, HostOK
<1>2. PICK j : job[o] = j
  OBVIOUS
<1>3. /\ j # None
      /\ o \in Provisioners => j \in Runs /\ RunOK(j)
      /\ o \in Upgraders => j \in Builds /\ Ends(j.plan)
      /\ o \in Provisioners \/ o \in Upgraders
  <2>1. j # None
    BY <1>2 DEF BuilderWork, Bootstrap, Cached, Fetch, Checkout, Compile, Copy, Collect, At
  <2>2. QED
    BY <1>1, <1>2, <2>1 DEF JobsOK, Operators
<1>4. /\ Ends(j.plan) /\ j.version \in Versions /\ j.ref \in Refs \cup {None}
      /\ j.ok \in BOOLEAN /\ j.sum \in [Parts -> Content \cup {None}]
  BY <1>3 DEF RunOK, Runs, Builds
<1>5. Unfinished(j.plan, Step)
  BY <1>2, <1>4, WorkIsUnfinished
<1>6. BuilderTypeOK' /\ faults' \in 0..MaxFaults
  BY <1>1, <1>2, <1>4, <1>5, WorkKeepsTypes
<1>7. Grows /\ HostOK' /\ NotStartedUnprepared'
  BY <1>6, HostSame
<1>8. PICK k : Advances(o, j, k)
  BY <1>1, <1>2, <1>4, <1>5, WorkAdvances
<1>9. job' = [job EXCEPT ![o] = k]
  BY <1>8 DEF Advances
<1>10. /\ o \in Provisioners => k \in Runs /\ RunOK(k)'
       /\ o \in Upgraders => k \in Builds /\ Ends(k.plan)
  BY <1>3, <1>7, <1>8, RunAdvances, BuildAdvances
<1>11. JobsOK'
  BY <1>1, <1>7, <1>9, <1>10, JobsStep
<1>12. QED
  BY <1>7, <1>11 DEF Inv

\* The plans of the operations that only build.
LEMMA BuildEnds ==
  ASSUME NEW v \in Versions, NEW force \in BOOLEAN, BuilderTypeOK
  PROVE  /\ BuildJob("build", v, BuildPlan(pin, force) \o <<Do("finish")>>) \in Builds
         /\ Ends(BuildPlan(pin, force) \o <<Do("finish")>>)
         /\ BuildJob("bootstrap", v, <<Do("bootstrap"), Do("finish")>>) \in Builds
         /\ Ends(<<Do("bootstrap"), Do("finish")>>)
<1>1. Do("finish") \in Step /\ Do("finish").do = "finish" /\ Do("bootstrap") \in Step
  BY StepIs DEF Do, Step
<1>2. BuildPlan(pin, force) \in Seq(Step)
  BY BuildPlanIs DEF Only
<1>3. Ends(<<Do("finish")>>) /\ <<Do("finish")>> \in Seq(Step)
  BY <1>1 DEF Ends
<1>4. Ends(<<Do("bootstrap"), Do("finish")>>)
  BY <1>1 DEF Ends
<1>5. Ends(BuildPlan(pin, force) \o <<Do("finish")>>)
  BY <1>2, <1>3, Joined
<1>6. ASSUME NEW plan \in Seq(Step), NEW kind \in {"build", "bootstrap"}
      PROVE  BuildJob(kind, v, plan) \in Builds
  <2>1. pin \in Refs \cup {None} /\ NoSums \in [Parts -> Content \cup {None}]
    BY DEF BuilderTypeOK, NoSums
  <2>2. QED
    BY <2>1 DEF BuildJob, Builds
<1>7. QED
  BY <1>4, <1>5, <1>6 DEF Ends

LEMMA BuilderStep ==
  ASSUME Inv, OnBuilder
  PROVE  Inv'
<1>1. HostOK /\ JobsOK /\ BuilderTypeOK /\ faults \in 0..MaxFaults /\ DOMAIN job = Operators
  BY DEF Inv, HostOK, JobsOK
<1>2. UNCHANGED <<hostVars, intent, report>>
  BY DEF OnBuilder
<1>3. ASSUME NEW o \in Upgraders, NEW v \in Versions, NEW force \in BOOLEAN,
             RequestBuild(o, v, force)
      PROVE  Inv'
  <2>1. BuilderTypeOK' /\ faults' \in 0..MaxFaults
    BY <1>1, <1>3 DEF RequestBuild, builderVars, BuilderTypeOK
  <2>2. Grows /\ HostOK' /\ NotStartedUnprepared'
    BY <1>2, <2>1, HostSame
  <2>3. PICK k : k = BuildJob("build", v, BuildPlan(pin, force) \o <<Do("finish")>>)
    OBVIOUS
  <2>4. k \in Builds /\ Ends(k.plan)
    <3>1. k.plan = BuildPlan(pin, force) \o <<Do("finish")>>
      BY <2>3 DEF BuildJob
    <3>2. QED
      BY <1>1, <2>3, <3>1, BuildEnds
  <2>5. Begin(o, k) /\ o \in Operators /\ o \notin Provisioners
    BY <1>3, <2>3, ProvisionAssumption DEF RequestBuild, Operators
  <2>6. JobsOK'
    BY <1>1, <2>2, <2>4, <2>5, JobsBegin
  <2>7. QED
    BY <2>2, <2>6 DEF Inv
<1>4. ASSUME NEW o \in Upgraders, NEW v \in Versions, NEW confirm \in BOOLEAN,
             RequestBootstrap(o, v, confirm)
      PROVE  Inv'
  <2>1. BuilderTypeOK' /\ faults' \in 0..MaxFaults
    <3>1. BuilderTypeOK'
      BY <1>1, <1>4 DEF RequestBootstrap, builderVars, BuilderTypeOK
    <3>2. QED
      BY <1>1, <1>4, <3>1, OutcomeCounts DEF RequestBootstrap
  <2>2. Grows /\ HostOK' /\ NotStartedUnprepared'
    BY <1>2, <2>1, HostSame
  <2>3. PICK k : k = BuildJob("bootstrap", v, <<Do("bootstrap"), Do("finish")>>)
    OBVIOUS
  <2>4. k \in Builds /\ Ends(k.plan)
    <3>1. k.plan = <<Do("bootstrap"), Do("finish")>>
      BY <2>3 DEF BuildJob
    <3>2. QED
      BY <1>1, <2>3, <3>1, BuildEnds
  <2>5. Begin(o, k) \/ UNCHANGED job
    BY <1>4, <2>3 DEF RequestBootstrap
  <2>6. o \in Operators /\ o \notin Provisioners
    BY ProvisionAssumption DEF Operators
  <2>7. CASE Begin(o, k)
    <3>1. JobsOK'
      BY <1>1, <2>2, <2>4, <2>6, <2>7, JobsBegin
    <3>2. QED
      BY <2>2, <3>1 DEF Inv
  <2>8. CASE UNCHANGED job
    <3>1. JobsOK'
      BY <1>1, <2>2, <2>6, <2>8, JobsSame
    <3>2. QED
      BY <2>2, <3>1 DEF Inv
  <2>9. QED
    BY <2>5, <2>7, <2>8
<1>5. ASSUME NEW o \in Upgraders, Built(o)
      PROVE  Inv'
  <2>1. BuilderTypeOK' /\ faults' \in 0..MaxFaults
    BY <1>1, <1>5 DEF Built, builderVars, BuilderTypeOK
  <2>2. Grows /\ HostOK' /\ NotStartedUnprepared'
    BY <1>2, <2>1, HostSame
  <2>3. o \in Operators /\ job' = [job EXCEPT ![o] = None]
    BY <1>5 DEF Built, Operators
  <2>4. JobsOK'
    BY <1>1, <2>2, <2>3, JobsStep
  <2>5. QED
    BY <2>2, <2>4 DEF Inv
<1>6. CASE EditPin
  <2>1. BuilderTypeOK' /\ faults' \in 0..MaxFaults
    BY <1>1, <1>6 DEF EditPin, BuilderTypeOK
  <2>2. Grows /\ HostOK' /\ NotStartedUnprepared'
    BY <1>2, <2>1, HostSame
  <2>3. JobsOK'
    BY <1>1, <1>6, <2>2, JobsSame DEF EditPin
  <2>4. QED
    BY <2>2, <2>3 DEF Inv
<1>7. QED
  BY <1>1, <1>2, <1>3, <1>4, <1>5, <1>6, WorkStep DEF OnBuilder, BuilderNext
-----------------------------------------------------------------------------
(* The commands of a run. *)

LEMMA AtRun ==
  ASSUME Inv, NEW o \in Provisioners, NEW c, At(o, c)
  PROVE  \E j \in Runs :
           /\ job[o] = j /\ j # None /\ RunOK(j) /\ Ends(j.plan) /\ j.plan \in Seq(Step)
           /\ Head(j.plan) = j.plan[1] /\ j.plan[1] \in Step /\ j.plan[1].do = c
           /\ Len(j.plan) \in Nat /\ (c # "finish" => Len(j.plan) > 1)
<1>1. job[o] # None /\ Head(job[o].plan).do = c
  BY DEF At
<1>2. job[o] \in Runs /\ RunOK(job[o])
  BY <1>1 DEF Inv, JobsOK
<1>3. PICK j \in Runs : job[o] = j
  BY <1>2
<1>4. j # None /\ Head(j.plan).do = c /\ RunOK(j) /\ Ends(j.plan)
  BY <1>1, <1>2, <1>3 DEF RunOK
<1>5. QED
  BY <1>3, <1>4, HeadIs

\* What a command is about.
LEMMA PartIs ==
  \A s \in Step :
    /\ s.do \in {"probe", "mkfs"} => s.part \in Blocks
    /\ s.do = "mount" => s.part \in Range(Disks)
    /\ s.do \in {"push", "verify", "swap"} => s.part \in Parts
BY DEF Step, Stages, Keys, Compiling

LEMMA RunStep ==
  ASSUME Inv, NEW o \in Provisioners, NEW k, job' = [job EXCEPT ![o] = k],
         k = None \/ (k \in Runs /\ RunOK(k)'), Grows, HostOK', NotStartedUnprepared'
  PROVE  Inv'
<1>1. JobsOK /\ o \in Operators /\ o \notin Upgraders
  BY ProvisionAssumption DEF Inv, Operators
<1>2. JobsOK'
  BY <1>1, JobsStep
<1>3. QED
  BY <1>2 DEF Inv

\* The command at the head of the plan is done with.
LEMMA RunTail ==
  ASSUME NEW j \in Runs, RunOK(j), Grows, j.plan \in Seq(Step), Len(j.plan) > 1, NEW k,
         k.plan = Tail(j.plan), k.disks_ok => j.disks_ok,
         j.plan[1].do = "disks" => Range(Disks) \subseteq prepared',
         j.plan[1].do \in Keys => j.plan[1].do \in keys',
         j.plan[1].do \in {"probe", "mkfs", "mount"} =>
           j.plan[1].part \in prepared' \/ ~k.disks_ok
  PROVE  Tail(j.plan) \in Seq(Step) /\ RunOK(k)'
<1>1. Len(j.plan) \in Nat /\ 2 \in 2..Len(j.plan) /\ 2 \in 1..Len(j.plan)
  BY LenProperties
<1>2. Tail(j.plan) = From(j.plan, 2)
  <2>1. Len(j.plan) > 0
    BY <1>1
  <2>2. QED
    BY <2>1, TailIsFrom
<1>3. \A i \in 1..2-1 : i = 1
  OBVIOUS
<1>4. RunOK(k)'
  BY <1>1, <1>2, <1>3, RunMoves
<1>5. QED
  BY <1>1, <1>2, <1>4, FromIsPlan

\* A run whose next command is to start the node has all it needs for it.
LEMMA StartIsPrepared ==
  ASSUME NEW j, RunOK(j), j.plan[1] \in Step, j.plan[1].do = "start", Len(j.plan) \in Nat,
         Len(j.plan) > 1, keys \subseteq Keys
  PROVE  keys = Keys /\ Range(Disks) \subseteq prepared
<1>1. \A S : ~ Waits(j.plan, Dos({"start"}), S)
  BY DEF Waits, Dos
<1>2. QED
  BY <1>1 DEF RunOK

LEMMA StageStep ==
  ASSUME Inv, NEW o \in Provisioners, NEW c \in {"user", "system", "start"}, Stage(o, c)
  PROVE  Inv'
<1>1. HostOK /\ NotStartedUnprepared
  BY DEF Inv
<1>2. At(o, c)
  BY DEF Stage
<1>3. PICK j \in Runs :
        /\ job[o] = j /\ RunOK(j) /\ j.plan \in Seq(Step) /\ j.plan[1] \in Step
        /\ j.plan[1].do = c /\ Len(j.plan) \in Nat /\ Len(j.plan) > 1
  BY <1>2, AtRun
<1>4. PICK ok \in BOOLEAN, effect \in BOOLEAN :
        /\ Outcome(ok, c = "start" => "unit" \in done)
        /\ done' = IF effect THEN done \cup {c} ELSE done
        /\ Proceed(o, ok)
  BY DEF Stage
<1>5. /\ UNCHANGED <<format, device, prepared, keys, file, staged, image, report>>
      /\ UNCHANGED builderVars
  BY DEF Stage, disks, files, intent
<1> DEFINE k == [j EXCEPT !.plan = Tail(j.plan), !.ok = j.ok /\ ok]
<1>6. job' = [job EXCEPT ![o] = k]
  BY <1>3, <1>4 DEF Proceed
<1>7. k.plan = Tail(j.plan) /\ k.disks_ok = j.disks_ok /\ (Tail(j.plan) \in Seq(Step) => k \in Runs)
  BY DEF Runs
<1> HIDE DEF k
<1>8. Grows
  BY <1>5 DEF Grows
<1>9. k \in Runs /\ RunOK(k)'
  <2>1. c \notin {"disks", "probe", "mkfs", "mount"} \cup Keys
    BY DEF Keys
  <2>2. QED
    BY <1>3, <1>7, <1>8, <2>1, RunTail
<1>10. HostOK'
  <2>1. faults' \in 0..MaxFaults
    BY <1>1, <1>4, OutcomeCounts DEF HostOK
  <2>2. done' \in SUBSET Stages
    BY <1>1, <1>4 DEF HostOK, Stages
  <2>3. BuilderTypeOK'
    BY <1>1, <1>5 DEF HostOK, BuilderTypeOK, builderVars
  <2>4. QED
    BY <1>1, <1>5, <2>1, <2>2, <2>3 DEF HostOK
<1>11. NotStartedUnprepared'
  <2>1. CASE c = "start"
    <3>1. keys = Keys /\ Range(Disks) \subseteq prepared
      BY <1>1, <1>3, <2>1, StartIsPrepared DEF HostOK
    <3>2. QED
      BY <1>5, <3>1 DEF NotStartedUnprepared
  <2>2. CASE c # "start"
    BY <1>1, <1>4, <1>5, <2>2 DEF NotStartedUnprepared
  <2>3. QED
    BY <2>1, <2>2
<1>12. QED
  BY <1>6, <1>8, <1>9, <1>10, <1>11, RunStep

LEMMA UnitStep ==
  ASSUME Inv, NEW o \in Provisioners, InstallUnit(o)
  PROVE  Inv'
<1>1. HostOK /\ NotStartedUnprepared /\ faults \in 0..MaxFaults
  BY DEF Inv, HostOK
<1>2. PICK j \in Runs :
        /\ job[o] = j /\ RunOK(j) /\ j.plan \in Seq(Step) /\ j.plan[1] \in Step
        /\ Head(j.plan) = j.plan[1] /\ j.plan[1].do = "unit" /\ Len(j.plan) \in Nat /\ Len(j.plan) > 1
  <2>1. At(o, "unit")
    BY DEF InstallUnit
  <2>2. QED
    BY <2>1, AtRun
<1>3. PICK ok \in BOOLEAN, effect \in BOOLEAN :
        /\ Outcome(ok /\ effect, TRUE)
        /\ done' = IF effect THEN done \cup {"unit"} ELSE done
        /\ Proceed(o, ok)
  BY DEF InstallUnit
<1>4. /\ UNCHANGED <<format, device, prepared, keys, file, staged, image, report>>
      /\ UNCHANGED builderVars
  BY DEF InstallUnit, disks, files, intent
<1> DEFINE k == [j EXCEPT !.plan = Tail(j.plan), !.ok = j.ok /\ ok]
<1>5. job' = [job EXCEPT ![o] = k]
  BY <1>2, <1>3 DEF Proceed
<1>6. k.plan = Tail(j.plan) /\ k.disks_ok = j.disks_ok /\ (Tail(j.plan) \in Seq(Step) => k \in Runs)
  BY DEF Runs
<1> HIDE DEF k
<1>7. Grows
  BY <1>4 DEF Grows
<1>8. k \in Runs /\ RunOK(k)'
  <2>1. "unit" \notin {"disks", "probe", "mkfs", "mount"} \cup Keys
    BY DEF Keys
  <2>2. QED
    BY <1>2, <1>6, <1>7, <2>1, RunTail
<1>9. HostOK'
  <2>1. faults' \in 0..MaxFaults
    BY <1>1, <1>3, OutcomeCounts
  <2>2. done' \in SUBSET Stages
    BY <1>1, <1>3 DEF HostOK, Stages
  <2>3. BuilderTypeOK'
    BY <1>1, <1>4 DEF HostOK, BuilderTypeOK, builderVars
  <2>4. QED
    BY <1>1, <1>4, <2>1, <2>2, <2>3 DEF HostOK
<1>10. NotStartedUnprepared'
  BY <1>1, <1>3, <1>4 DEF NotStartedUnprepared
<1>11. QED
  BY <1>5, <1>7, <1>8, <1>9, <1>10, RunStep

LEMMA ProbeStep ==
  ASSUME Inv, NEW o \in Provisioners, Probe(o)
  PROVE  Inv'
<1>1. HostOK /\ NotStartedUnprepared /\ faults \in 0..MaxFaults
  BY DEF Inv, HostOK
<1>2. PICK j \in Runs :
        /\ job[o] = j /\ RunOK(j) /\ j.plan \in Seq(Step) /\ j.plan[1] \in Step
        /\ Head(j.plan) = j.plan[1] /\ j.plan[1].do = "probe" /\ Len(j.plan) \in Nat /\ Len(j.plan) > 1
  <2>1. At(o, "probe")
    BY DEF Probe
  <2>2. QED
    BY <2>1, AtRun
<1> DEFINE d == j.plan[1].part
<1>3. d \in Blocks
  BY <1>2, PartIs
<1>4. PICK answered \in BOOLEAN, empty \in BOOLEAN :
        /\ Outcome(answered, TRUE)
        /\ answered => empty = (device[d] = "blank")
        /\ job' = [job EXCEPT
             ![o].plan = IF MaySetUp(j, d, empty)
                         THEN Onward(@, IF d \in j.format THEN "mkfs" ELSE "mount") ELSE Tail(@),
             ![o].disks_ok = @ /\ MaySetUp(j, d, empty),
             ![o].blind = IF answered THEN @ ELSE @ \cup {d}]
  <2>1. PICK answered \in BOOLEAN :
          LET empty == answered => device[d] = "blank" IN
          /\ Outcome(answered, TRUE)
          /\ job' = [job EXCEPT
               ![o].plan = IF MaySetUp(j, d, empty)
                           THEN Onward(@, IF d \in j.format THEN "mkfs" ELSE "mount") ELSE Tail(@),
               ![o].disks_ok = @ /\ MaySetUp(j, d, empty),
               ![o].blind = IF answered THEN @ ELSE @ \cup {d}]
    BY <1>2 DEF Probe
  <2>2. (answered => device[d] = "blank") \in BOOLEAN
    OBVIOUS
  <2>3. PICK empty \in BOOLEAN : empty = (answered => device[d] = "blank")
    BY <2>2
  <2>4. QED
    BY <2>1, <2>3
<1>5. /\ UNCHANGED <<hostVars, intent, report>> /\ UNCHANGED builderVars
  BY DEF Probe
<1>6. BuilderTypeOK' /\ faults' \in 0..MaxFaults
  <2>1. BuilderTypeOK'
    BY <1>1, <1>5 DEF HostOK, BuilderTypeOK, builderVars
  <2>2. QED
    BY <1>1, <1>4, <2>1, OutcomeCounts
<1>7. Grows /\ HostOK' /\ NotStartedUnprepared'
  BY <1>5, <1>6, HostSame
<1> DEFINE c == IF d \in j.format THEN "mkfs" ELSE "mount"
           blind == IF answered THEN j.blind ELSE j.blind \cup {d}
<1>8. blind \in SUBSET Blocks /\ j.disks_ok \in BOOLEAN
  BY <1>3 DEF Runs
<1>9. CASE MaySetUp(j, d, empty)
  <2> DEFINE k == [j EXCEPT !.plan = Onward(j.plan, c), !.disks_ok = j.disks_ok, !.blind = blind]
  <2>1. job' = [job EXCEPT ![o] = k]
    BY <1>2, <1>4, <1>8, <1>9
  <2>2. /\ k.plan = Onward(j.plan, c) /\ k.disks_ok = j.disks_ok /\ k.blind = blind
        /\ k.format = j.format /\ k.ack = j.ack
        /\ (Onward(j.plan, c) \in Seq(Step) => k \in Runs)
    BY <1>8 DEF Runs
  <2>3. c \in {"mkfs", "mount"} /\ [do |-> c, part |-> d] \in Step
    BY <1>3 DEF Step, Blocks
  <2>4. c = "mkfs" => d \in j.format /\ d \in j.ack /\ (d \in blind \/ device[d] = "blank")
    BY <1>4, <1>9 DEF MaySetUp
  <2> HIDE DEF k, blind, c
  <2>5. UNCHANGED <<device, prepared>>
    BY <1>5 DEF hostVars, disks
  <2>6. c = "mkfs" => MayFormat(k, d)'
    BY <2>2, <2>4, <2>5 DEF MayFormat
  <2>7. RunOK(k)'
    BY <1>2, <1>7, <2>2, <2>3, <2>6, RunOnward
  <2>8. k \in Runs
    BY <2>2, <2>7 DEF RunOK, Ends
  <2>9. QED
    BY <1>7, <2>1, <2>7, <2>8, RunStep
<1>10. CASE ~MaySetUp(j, d, empty)
  <2> DEFINE k == [j EXCEPT !.plan = Tail(j.plan), !.disks_ok = FALSE, !.blind = blind]
  <2>1. job' = [job EXCEPT ![o] = k]
    BY <1>2, <1>4, <1>8, <1>10
  <2>2. /\ k.plan = Tail(j.plan) /\ k.disks_ok = FALSE
        /\ (Tail(j.plan) \in Seq(Step) => k \in Runs)
    BY <1>8 DEF Runs
  <2> HIDE DEF k
  <2>3. "probe" \notin {"disks"} \cup Keys
    BY DEF Keys
  <2>4. k \in Runs /\ RunOK(k)'
    BY <1>2, <1>7, <2>2, <2>3, RunTail
  <2>5. QED
    BY <1>7, <2>1, <2>4, RunStep
<1>11. QED
  BY <1>9, <1>10

\* setup_disk fails on a disk.
LEMMA DiskFailsStep ==
  ASSUME Inv, NEW o \in Provisioners, NEW j \in Runs, job[o] = j, RunOK(j),
         j.plan \in Seq(Step), Len(j.plan) > 1, j.plan[1].do \in {"mkfs", "mount"},
         DiskFails(o), Grows, HostOK', NotStartedUnprepared'
  PROVE  Inv'
<1> DEFINE k == [j EXCEPT !.plan = Tail(j.plan), !.disks_ok = FALSE]
<1>1. job' = [job EXCEPT ![o] = k]
  BY DEF DiskFails
<1>2. /\ k.plan = Tail(j.plan) /\ k.disks_ok = FALSE
      /\ (Tail(j.plan) \in Seq(Step) => k \in Runs)
  BY DEF Runs
<1> HIDE DEF k
<1>3. {"mkfs", "mount"} \cap ({"disks"} \cup Keys) = {}
  BY DEF Keys
<1>4. k \in Runs /\ RunOK(k)'
  BY <1>2, <1>3, RunTail
<1>5. QED
  BY <1>1, <1>4, RunStep

LEMMA MkfsStep ==
  ASSUME Inv, NEW o \in Provisioners, Mkfs(o)
  PROVE  Inv'
<1>1. HostOK /\ NotStartedUnprepared /\ faults \in 0..MaxFaults
  BY DEF Inv, HostOK
<1>2. PICK j \in Runs :
        /\ job[o] = j /\ RunOK(j) /\ j.plan \in Seq(Step) /\ j.plan[1] \in Step
        /\ Head(j.plan) = j.plan[1] /\ j.plan[1].do = "mkfs" /\ Len(j.plan) \in Nat /\ Len(j.plan) > 1
  <2>1. At(o, "mkfs")
    BY DEF Mkfs
  <2>2. QED
    BY <2>1, AtRun
<1> DEFINE d == j.plan[1].part
<1>3. d \in Blocks
  BY <1>2, PartIs
<1>4. PICK ok \in BOOLEAN, effect \in BOOLEAN :
        /\ Outcome(ok, d \notin prepared) \/ UNCHANGED faults
        /\ device' = IF effect THEN [device EXCEPT ![d] = "fs"] ELSE device
        /\ IF ok THEN job' = [job EXCEPT ![o].plan = Onward(@, "mount")] ELSE DiskFails(o)
  BY <1>2 DEF Mkfs
<1>5. /\ UNCHANGED <<format, prepared, done, keys, file, staged, image, report>>
      /\ UNCHANGED builderVars
  BY DEF Mkfs, files, intent
<1>6. device' \in [Blocks -> {"blank", "fs", "data"}]
      /\ \A x \in Blocks : device'[x] = "data" => device[x] = "data"
  BY <1>1, <1>3, <1>4 DEF HostOK
<1>7. Grows
  BY <1>5, <1>6 DEF Grows
<1>8. HostOK'
  <2>1. faults' \in 0..MaxFaults
    BY <1>1, <1>4, OutcomeCounts
  <2>2. BuilderTypeOK'
    BY <1>1, <1>5 DEF HostOK, BuilderTypeOK, builderVars
  <2>3. QED
    BY <1>1, <1>5, <1>6, <2>1, <2>2 DEF HostOK
<1>9. NotStartedUnprepared'
  BY <1>1, <1>5 DEF NotStartedUnprepared
<1>10. CASE ok
  <2> DEFINE k == [j EXCEPT !.plan = Onward(j.plan, "mount")]
  <2>1. job' = [job EXCEPT ![o] = k]
    BY <1>2, <1>4, <1>10
  <2>2. /\ k.plan = Onward(j.plan, "mount") /\ k.disks_ok = j.disks_ok
        /\ (Onward(j.plan, "mount") \in Seq(Step) => k \in Runs)
    BY DEF Runs
  <2>3. [do |-> "mount", part |-> d] \in Step
    BY <1>3 DEF Step, Blocks
  <2> HIDE DEF k
  <2>4. RunOK(k)'
    BY <1>2, <1>7, <2>2, <2>3, RunOnward
  <2>5. k \in Runs
    BY <2>2, <2>4 DEF RunOK, Ends
  <2>6. QED
    BY <1>7, <1>8, <1>9, <2>1, <2>4, <2>5, RunStep
<1>11. CASE ~ok
  BY <1>2, <1>4, <1>7, <1>8, <1>9, <1>11, DiskFailsStep
<1>12. QED
  BY <1>10, <1>11

LEMMA MountStep ==
  ASSUME Inv, NEW o \in Provisioners, Mount(o)
  PROVE  Inv'
<1>1. HostOK /\ NotStartedUnprepared /\ faults \in 0..MaxFaults
  BY DEF Inv, HostOK
<1>2. PICK j \in Runs :
        /\ job[o] = j /\ RunOK(j) /\ j.plan \in Seq(Step) /\ j.plan[1] \in Step
        /\ Head(j.plan) = j.plan[1] /\ j.plan[1].do = "mount" /\ Len(j.plan) \in Nat /\ Len(j.plan) > 1
  <2>1. At(o, "mount")
    BY DEF Mount
  <2>2. QED
    BY <2>1, AtRun
<1> DEFINE d == j.plan[1].part
<1>3. d \in Range(Disks)
  BY <1>2, PartIs
<1>4. PICK ok \in BOOLEAN, effect \in BOOLEAN :
        /\ \E possible \in BOOLEAN : Outcome(ok, possible)
        /\ ok => effect
        /\ prepared' = IF effect THEN prepared \cup {d} ELSE prepared
        /\ IF ok THEN Proceed(o, TRUE) ELSE DiskFails(o)
  <2>1. ("user" \in done /\ (d \in Blocks => device[d] # "blank")) \in BOOLEAN
    OBVIOUS
  <2>2. QED
    BY <1>2, <2>1 DEF Mount, Effect
<1>5. /\ UNCHANGED <<format, device, done, keys, file, staged, image, report>>
      /\ UNCHANGED builderVars
  BY DEF Mount, files, intent
<1>6. prepared \subseteq prepared' /\ prepared' \in SUBSET Range(Disks) /\ (ok => d \in prepared')
  BY <1>1, <1>3, <1>4 DEF HostOK
<1>7. Grows
  BY <1>5, <1>6 DEF Grows
<1>8. HostOK'
  <2>1. faults' \in 0..MaxFaults
    BY <1>1, <1>4, OutcomeCounts
  <2>2. BuilderTypeOK'
    BY <1>1, <1>5 DEF HostOK, BuilderTypeOK, builderVars
  <2>3. QED
    BY <1>1, <1>5, <1>6, <2>1, <2>2 DEF HostOK
<1>9. NotStartedUnprepared'
  BY <1>1, <1>5, <1>6 DEF NotStartedUnprepared
<1>10. CASE ok
  <2> DEFINE k == [j EXCEPT !.plan = Tail(j.plan), !.ok = j.ok /\ TRUE]
  <2>1. job' = [job EXCEPT ![o] = k]
    BY <1>2, <1>4, <1>10 DEF Proceed
  <2>2. k.plan = Tail(j.plan) /\ k.disks_ok = j.disks_ok /\ (Tail(j.plan) \in Seq(Step) => k \in Runs)
    BY DEF Runs
  <2> HIDE DEF k
  <2>3. "mount" \notin {"disks"} \cup Keys
    BY DEF Keys
  <2>4. k \in Runs /\ RunOK(k)'
    BY <1>2, <1>6, <1>7, <1>10, <2>2, <2>3, RunTail
  <2>5. QED
    BY <1>7, <1>8, <1>9, <2>1, <2>4, RunStep
<1>11. CASE ~ok
  BY <1>2, <1>4, <1>7, <1>8, <1>9, <1>11, DiskFailsStep
<1>12. QED
  BY <1>10, <1>11

\* The run is over.
LEMMA FinishedStep ==
  ASSUME Inv, NEW o \in Provisioners, NEW j \in Runs, job[o] = j,
         NEW succeeded \in BOOLEAN, Finished(o, succeeded),
         UNCHANGED <<hostVars, intent>>, UNCHANGED builderVars, faults' \in 0..MaxFaults
  PROVE  Inv'
<1>1. HostOK /\ NotStartedUnprepared
  BY DEF Inv
<1>2. UNCHANGED <<format, device, prepared, done, keys, file, staged, image>>
  BY DEF hostVars, intent, disks, files
<1>3. report' \in Report
  BY DEF Finished, Report, Runs
<1>4. BuilderTypeOK'
  BY <1>1 DEF HostOK, BuilderTypeOK, builderVars
<1>5. HostOK'
  BY <1>1, <1>2, <1>3, <1>4 DEF HostOK
<1>6. Grows /\ NotStartedUnprepared'
  BY <1>1, <1>2 DEF Grows, NotStartedUnprepared
<1>7. job' = [job EXCEPT ![o] = None]
  BY DEF Finished
<1>8. QED
  BY <1>5, <1>6, <1>7, RunStep

\* The run goes on, its next command only looked at something.
LEMMA ProceedStep ==
  ASSUME Inv, NEW o \in Provisioners, NEW j \in Runs, job[o] = j, RunOK(j),
         j.plan \in Seq(Step), Len(j.plan) > 1, NEW ok \in BOOLEAN, Proceed(o, ok),
         j.plan[1].do \notin {"probe", "mkfs", "mount"},
         j.plan[1].do = "disks" => Range(Disks) \subseteq prepared,
         j.plan[1].do \in Keys => j.plan[1].do \in keys,
         UNCHANGED <<hostVars, intent, report>>, UNCHANGED builderVars, faults' \in 0..MaxFaults
  PROVE  Inv'
<1>1. BuilderTypeOK'
  BY DEF Inv, HostOK, BuilderTypeOK, builderVars
<1>2. Grows /\ HostOK' /\ NotStartedUnprepared'
  BY <1>1, HostSame
<1>3. prepared' = prepared /\ keys' = keys
  BY DEF hostVars, disks, intent
<1> DEFINE k == [j EXCEPT !.plan = Tail(j.plan), !.ok = j.ok /\ ok]
<1>4. job' = [job EXCEPT ![o] = k]
  BY DEF Proceed
<1>5. k.plan = Tail(j.plan) /\ k.disks_ok = j.disks_ok /\ (Tail(j.plan) \in Seq(Step) => k \in Runs)
  BY DEF Runs
<1> HIDE DEF k
<1>6. k \in Runs /\ RunOK(k)'
  BY <1>2, <1>3, <1>5, RunTail
<1>7. QED
  BY <1>2, <1>4, <1>6, RunStep

LEMMA DisksCheckedStep ==
  ASSUME Inv, NEW o \in Provisioners, DisksChecked(o)
  PROVE  Inv'
<1>1. HostOK /\ NotStartedUnprepared /\ faults \in 0..MaxFaults
  BY DEF Inv, HostOK
<1>2. PICK j \in Runs :
        /\ job[o] = j /\ RunOK(j) /\ j.plan \in Seq(Step) /\ j.plan[1] \in Step
        /\ Head(j.plan) = j.plan[1] /\ j.plan[1].do = "disks" /\ Len(j.plan) \in Nat /\ Len(j.plan) > 1
  <2>1. At(o, "disks")
    BY DEF DisksChecked
  <2>2. QED
    BY <2>1, AtRun
<1>3. UNCHANGED <<hostVars, intent>> /\ UNCHANGED builderVars /\ faults' \in 0..MaxFaults
  BY <1>1 DEF DisksChecked
<1>4. j.disks_ok => Range(Disks) \subseteq prepared
  <2>1. ASSUME NEW S PROVE ~ Waits(j.plan, Dos({"disks"}), S)
    BY <1>2 DEF Waits, Dos
  <2>2. QED
    BY <1>2, <2>1 DEF RunOK
<1>5. "disks" \notin Keys
  BY DEF Keys
<1>6. CASE j.disks_ok
  <2>1. Proceed(o, TRUE) /\ UNCHANGED report
    BY <1>2, <1>6 DEF DisksChecked
  <2>2. QED
    BY <1>2, <1>3, <1>4, <1>5, <1>6, <2>1, ProceedStep
<1>7. CASE ~j.disks_ok
  <2>1. Finished(o, FALSE)
    BY <1>2, <1>7 DEF DisksChecked
  <2>2. QED
    BY <1>2, <1>3, <2>1, FinishedStep
<1>8. QED
  BY <1>6, <1>7

LEMMA CheckStep ==
  ASSUME Inv, NEW o \in Provisioners, Check(o)
  PROVE  Inv'
<1>1. HostOK /\ NotStartedUnprepared /\ faults \in 0..MaxFaults
  BY DEF Inv, HostOK
<1>2. PICK j \in Runs :
        /\ job[o] = j /\ RunOK(j) /\ j.plan \in Seq(Step) /\ j.plan[1] \in Step
        /\ Head(j.plan) = j.plan[1] /\ j.plan[1].do = "check" /\ Len(j.plan) \in Nat /\ Len(j.plan) > 1
  <2>1. At(o, "check")
    BY DEF Check
  <2>2. QED
    BY <2>1, AtRun
<1>3. UNCHANGED <<hostVars, intent>> /\ UNCHANGED builderVars /\ faults' \in 0..MaxFaults
  BY <1>1 DEF Check
<1>4. "check" \notin Keys
  BY DEF Keys
<1>5. \/ Proceed(o, TRUE) /\ UNCHANGED report
      \/ Finished(o, FALSE)
  BY DEF Check
<1>6. CASE Proceed(o, TRUE) /\ UNCHANGED report
  BY <1>2, <1>3, <1>4, <1>6, ProceedStep
<1>7. CASE Finished(o, FALSE)
  BY <1>2, <1>3, <1>7, FinishedStep
<1>8. QED
  BY <1>5, <1>6, <1>7

LEMMA PushStep ==
  ASSUME Inv, NEW o \in Provisioners, Push(o)
  PROVE  Inv'
<1>1. HostOK /\ NotStartedUnprepared /\ faults \in 0..MaxFaults
  BY DEF Inv, HostOK
<1>2. PICK j \in Runs :
        /\ job[o] = j /\ RunOK(j) /\ j.plan \in Seq(Step) /\ j.plan[1] \in Step
        /\ Head(j.plan) = j.plan[1] /\ j.plan[1].do = "push" /\ Len(j.plan) \in Nat /\ Len(j.plan) > 1
  <2>1. At(o, "push")
    BY DEF Push
  <2>2. QED
    BY <2>1, AtRun
<1> DEFINE p == j.plan[1].part
<1>3. PICK ok \in BOOLEAN, content \in Content \cup {None} :
        /\ Outcome(ok, out[j.version][p] # None)
        /\ staged' = [staged EXCEPT ![p] = content]
        /\ job' = [job EXCEPT ![o].plan = Tail(@), ![o].dist_ok = @ /\ ok]
  BY <1>2 DEF Push
<1>4. /\ UNCHANGED <<format, device, prepared, done, keys, file, image, report>>
      /\ UNCHANGED builderVars
  BY DEF Push, disks, intent
<1> DEFINE k == [j EXCEPT !.plan = Tail(j.plan), !.dist_ok = j.dist_ok /\ ok]
<1>5. job' = [job EXCEPT ![o] = k]
  BY <1>2, <1>3
<1>6. k.plan = Tail(j.plan) /\ k.disks_ok = j.disks_ok /\ (Tail(j.plan) \in Seq(Step) => k \in Runs)
  BY DEF Runs
<1> HIDE DEF k
<1>7. Grows
  BY <1>4 DEF Grows
<1>8. k \in Runs /\ RunOK(k)'
  <2>1. "push" \notin {"disks", "probe", "mkfs", "mount"} \cup Keys
    BY DEF Keys
  <2>2. QED
    BY <1>2, <1>6, <1>7, <2>1, RunTail
<1>9. HostOK'
  <2>1. faults' \in 0..MaxFaults
    BY <1>1, <1>3, OutcomeCounts
  <2>2. staged' \in [Files -> Content \cup {None}]
    BY <1>1, <1>3 DEF HostOK
  <2>3. BuilderTypeOK'
    BY <1>1, <1>4 DEF HostOK, BuilderTypeOK, builderVars
  <2>4. QED
    BY <1>1, <1>4, <2>1, <2>2, <2>3 DEF HostOK
<1>10. NotStartedUnprepared'
  BY <1>1, <1>4 DEF NotStartedUnprepared
<1>11. QED
  BY <1>5, <1>7, <1>8, <1>9, <1>10, RunStep

LEMMA VerifyStep ==
  ASSUME Inv, NEW o \in Provisioners, Verify(o)
  PROVE  Inv'
<1>1. HostOK /\ NotStartedUnprepared /\ faults \in 0..MaxFaults
  BY DEF Inv, HostOK
<1>2. PICK j \in Runs :
        /\ job[o] = j /\ RunOK(j) /\ j.plan \in Seq(Step) /\ j.plan[1] \in Step
        /\ Head(j.plan) = j.plan[1] /\ j.plan[1].do = "verify" /\ Len(j.plan) \in Nat /\ Len(j.plan) > 1
  <2>1. At(o, "verify")
    BY DEF Verify
  <2>2. QED
    BY <2>1, AtRun
<1>3. PICK ok \in BOOLEAN :
        /\ Outcome(ok, ShaMatch(j, j.plan[1].part))
        /\ job' = [job EXCEPT ![o].plan = Tail(@), ![o].dist_ok = @ /\ ok]
  BY <1>2 DEF Verify
<1>4. /\ UNCHANGED <<hostVars, intent, report>> /\ UNCHANGED builderVars
  BY DEF Verify
<1>5. BuilderTypeOK' /\ faults' \in 0..MaxFaults
  <2>1. BuilderTypeOK'
    BY <1>1, <1>4 DEF HostOK, BuilderTypeOK, builderVars
  <2>2. QED
    BY <1>1, <1>3, <2>1, OutcomeCounts
<1>6. Grows /\ HostOK' /\ NotStartedUnprepared'
  BY <1>4, <1>5, HostSame
<1> DEFINE k == [j EXCEPT !.plan = Tail(j.plan), !.dist_ok = j.dist_ok /\ ok]
<1>7. job' = [job EXCEPT ![o] = k]
  BY <1>2, <1>3
<1>8. k.plan = Tail(j.plan) /\ k.disks_ok = j.disks_ok /\ (Tail(j.plan) \in Seq(Step) => k \in Runs)
  BY DEF Runs
<1> HIDE DEF k
<1>9. k \in Runs /\ RunOK(k)'
  <2>1. "verify" \notin {"disks", "probe", "mkfs", "mount"} \cup Keys
    BY DEF Keys
  <2>2. QED
    BY <1>2, <1>6, <1>8, <2>1, RunTail
<1>10. QED
  BY <1>6, <1>7, <1>9, RunStep

\* The rest of the `mv && mv` command line is left out.
LEMMA SkipSwapsIs ==
  ASSUME NEW p, Ends(p), p[1].do = "swap"
  PROVE  \E m \in 2..Len(p) :
           SkipSwaps(p) = From(p, m) /\ \A i \in 1..m-1 : p[i].do = "swap"
<1>1. p \in Seq(Step) /\ Len(p) \in Nat /\ Len(p) \in 1..Len(p) /\ p[Len(p)].do = "finish"
  BY HeadIs DEF Ends
<1>2. \E i \in 1..Len(p) : p[i].do \notin {"swap"}
  BY <1>1
<1>3. PICK m \in 1..Len(p) :
        /\ Skip(p, {"swap"}) = From(p, m) /\ p[m].do \notin {"swap"}
        /\ \A i \in 1..m-1 : p[i].do \in {"swap"}
  BY <1>1, <1>2, SkipIsFrom
<1>4. m \in 2..Len(p)
  BY <1>1, <1>3
<1>5. QED
  BY <1>3, <1>4 DEF SkipSwaps

LEMMA SwapStep ==
  ASSUME Inv, NEW o \in Provisioners, SwapOne(o)
  PROVE  Inv'
<1>1. HostOK /\ NotStartedUnprepared /\ faults \in 0..MaxFaults
  BY DEF Inv, HostOK
<1>2. PICK j \in Runs :
        /\ job[o] = j /\ RunOK(j) /\ j.plan \in Seq(Step) /\ j.plan[1] \in Step
        /\ Head(j.plan) = j.plan[1] /\ j.plan[1].do = "swap" /\ Len(j.plan) \in Nat /\ Len(j.plan) > 1
  <2>1. At(o, "swap")
    BY DEF SwapOne
  <2>2. QED
    BY <2>1, AtRun
<1> DEFINE p == j.plan[1].part
<1>3. PICK ok \in BOOLEAN, effect \in BOOLEAN :
        /\ Outcome(ok, staged[p] # None)
        /\ file' = IF effect THEN [file EXCEPT ![p] = staged[p]] ELSE file
        /\ staged' = IF effect THEN [staged EXCEPT ![p] = None] ELSE staged
        /\ job' = [job EXCEPT ![o].plan = IF ok THEN Tail(@) ELSE SkipSwaps(@), ![o].ok = @ /\ ok]
  BY <1>2 DEF SwapOne
<1>4. /\ UNCHANGED <<format, device, prepared, done, keys, image, report>>
      /\ UNCHANGED builderVars
  BY DEF SwapOne, disks, intent
<1>5. PICK m \in 2..Len(j.plan) :
        /\ (IF ok THEN Tail(j.plan) ELSE SkipSwaps(j.plan)) = From(j.plan, m)
        /\ \A i \in 1..m-1 : j.plan[i].do = "swap"
  <2>1. Tail(j.plan) = From(j.plan, 2)
    <3>1. j.plan \in Seq(Step) /\ Len(j.plan) > 0
      BY <1>2
    <3>2. QED
      BY <3>1, TailIsFrom
  <2>2. 2 \in 2..Len(j.plan) /\ \A i \in 1..2-1 : j.plan[i].do = "swap"
    BY <1>2
  <2>3. \E m \in 2..Len(j.plan) :
          SkipSwaps(j.plan) = From(j.plan, m) /\ \A i \in 1..m-1 : j.plan[i].do = "swap"
    BY <1>2, SkipSwapsIs DEF RunOK
  <2>4. QED
    BY <2>1, <2>2, <2>3
<1> DEFINE k == [j EXCEPT !.plan = From(j.plan, m), !.ok = j.ok /\ ok]
<1>6. job' = [job EXCEPT ![o] = k]
  <2>1. job' = [job EXCEPT ![o].plan = From(j.plan, m), ![o].ok = @ /\ ok]
    BY <1>2, <1>3, <1>5
  <2>2. QED
    BY <1>2, <2>1
<1>7. k.plan = From(j.plan, m) /\ k.disks_ok = j.disks_ok
      /\ (From(j.plan, m) \in Seq(Step) => k \in Runs)
  BY DEF Runs
<1> HIDE DEF k
<1>8. Grows
  BY <1>4 DEF Grows
<1>9. k \in Runs /\ RunOK(k)'
  <2>1. "swap" \notin {"disks", "probe", "mkfs", "mount"} \cup Keys
    BY DEF Keys
  <2>2. RunOK(k)'
    BY <1>2, <1>5, <1>7, <1>8, <2>1, RunMoves
  <2>3. m \in 1..Len(j.plan)
    OBVIOUS
  <2>4. QED
    BY <1>2, <1>7, <2>2, <2>3, FromIsPlan
<1>10. HostOK'
  <2>1. faults' \in 0..MaxFaults
    BY <1>1, <1>3, OutcomeCounts
  <2>2. file \in [Files -> Content \cup {None}] /\ staged \in [Files -> Content \cup {None}]
    BY <1>1 DEF HostOK
  <2>3. file' \in [Files -> Content \cup {None}] /\ staged' \in [Files -> Content \cup {None}]
    BY <1>3, <2>2
  <2>4. BuilderTypeOK'
    BY <1>1, <1>4 DEF HostOK, BuilderTypeOK, builderVars
  <2>5. QED
    BY <1>1, <1>4, <2>1, <2>3, <2>4 DEF HostOK
<1>11. NotStartedUnprepared'
  BY <1>1, <1>4 DEF NotStartedUnprepared
<1>12. QED
  BY <1>6, <1>8, <1>9, <1>10, <1>11, RunStep

LEMMA CheckKeyStep ==
  ASSUME Inv, NEW o \in Provisioners, NEW x \in Keys, CheckKey(o, x)
  PROVE  Inv'
<1>1. HostOK /\ NotStartedUnprepared /\ faults \in 0..MaxFaults
  BY DEF Inv, HostOK
<1>2. PICK j \in Runs :
        /\ job[o] = j /\ RunOK(j) /\ j.plan \in Seq(Step) /\ j.plan[1] \in Step
        /\ Head(j.plan) = j.plan[1] /\ j.plan[1].do = x /\ Len(j.plan) \in Nat /\ Len(j.plan) > 1
  <2>1. At(o, x)
    BY DEF CheckKey
  <2>2. QED
    BY <2>1, AtRun DEF Keys
<1>3. PICK answered \in BOOLEAN :
        /\ Outcome(answered, TRUE)
        /\ \/ KeyPresent(x, answered) /\ Proceed(o, TRUE) /\ UNCHANGED report
           \/ Finished(o, FALSE)
  BY DEF CheckKey
<1>4. UNCHANGED <<hostVars, intent>> /\ UNCHANGED builderVars
  BY DEF CheckKey
<1>5. faults' \in 0..MaxFaults
  BY <1>1, <1>3, OutcomeCounts
<1>6. CASE KeyPresent(x, answered) /\ Proceed(o, TRUE) /\ UNCHANGED report
  <2>1. x \in keys /\ x \notin {"disks", "probe", "mkfs", "mount"}
    BY <1>6 DEF KeyPresent, Keys
  <2>2. QED
    BY <1>2, <1>4, <1>5, <1>6, <2>1, ProceedStep
<1>7. CASE Finished(o, FALSE)
  BY <1>2, <1>4, <1>5, <1>7, FinishedStep
<1>8. QED
  BY <1>3, <1>6, <1>7

LEMMA CatchUpStep ==
  ASSUME Inv, NEW o \in Provisioners, CatchUp(o)
  PROVE  Inv'
<1>1. HostOK /\ NotStartedUnprepared /\ faults \in 0..MaxFaults
  BY DEF Inv, HostOK
<1>2. PICK j \in Runs :
        /\ job[o] = j /\ RunOK(j) /\ j.plan \in Seq(Step) /\ j.plan[1] \in Step
        /\ Head(j.plan) = j.plan[1] /\ j.plan[1].do = "catchup" /\ Len(j.plan) \in Nat /\ Len(j.plan) > 1
  <2>1. At(o, "catchup")
    BY DEF CatchUp
  <2>2. QED
    BY <2>1, AtRun
<1>3. PICK caught_up \in BOOLEAN : Proceed(o, caught_up)
  BY DEF CatchUp
<1>4. UNCHANGED <<hostVars, intent, report>> /\ UNCHANGED builderVars /\ faults' \in 0..MaxFaults
  BY <1>1 DEF CatchUp
<1>5. "catchup" \notin Keys
  BY DEF Keys
<1>6. QED
  BY <1>2, <1>3, <1>4, <1>5, ProceedStep

LEMMA FinishStep ==
  ASSUME Inv, NEW o \in Provisioners, Finish(o)
  PROVE  Inv'
<1>1. PICK j \in Runs : job[o] = j
  BY AtRun DEF Finish
<1>2. Finished(o, Succeeded(j)) /\ UNCHANGED <<hostVars, intent>> /\ UNCHANGED builderVars
  BY <1>1 DEF Finish
<1>3. Succeeded(j) \in BOOLEAN /\ faults' \in 0..MaxFaults
  BY DEF Succeeded, Finish, Inv, HostOK, Runs
<1>4. QED
  BY <1>1, <1>2, <1>3, FinishedStep
-----------------------------------------------------------------------------
(* The surroundings. *)

LEMMA LaunchStep ==
  ASSUME Inv, Launch
  PROVE  Inv'
<1>1. HostOK /\ JobsOK /\ NotStartedUnprepared
  BY DEF Inv
<1>2. /\ UNCHANGED <<format, prepared, done, keys, file, staged, report, job, faults>>
      /\ UNCHANGED builderVars
  BY DEF Launch, files, intent
<1>3. image' \in [Files -> Content]
  BY <1>1 DEF Launch, Whole, HostOK
<1>4. device' \in [Blocks -> {"blank", "fs", "data"}]
      /\ \A d \in Blocks : device'[d] = "data" => device[d] = "data" \/ d \in prepared
  BY <1>1 DEF Launch, HostOK
<1>5. BuilderTypeOK'
  BY <1>1, <1>2 DEF HostOK, BuilderTypeOK, builderVars
<1>6. HostOK'
  BY <1>1, <1>2, <1>3, <1>4, <1>5 DEF HostOK
<1>7. Grows /\ NotStartedUnprepared'
  BY <1>1, <1>2, <1>4 DEF Grows, NotStartedUnprepared
<1>8. QED
  BY <1>1, <1>2, <1>6, <1>7, JobsSame DEF Inv

LEMMA ProcessStep ==
  ASSUME Inv, ProcessDies
  PROVE  Inv'
<1>1. HostOK /\ JobsOK /\ NotStartedUnprepared
  BY DEF Inv
<1>2. /\ UNCHANGED <<format, device, prepared, done, keys, file, staged, report, job>>
      /\ UNCHANGED builderVars
  BY DEF ProcessDies, disks, files, intent
<1>3. image' = None /\ faults' \in 0..MaxFaults
  BY <1>1, ProvisionAssumption DEF ProcessDies, HostOK
<1>4. BuilderTypeOK'
  BY <1>1, <1>2 DEF HostOK, BuilderTypeOK, builderVars
<1>5. HostOK'
  BY <1>1, <1>2, <1>3, <1>4 DEF HostOK
<1>6. Grows /\ NotStartedUnprepared'
  BY <1>1, <1>2 DEF Grows, NotStartedUnprepared
<1>7. QED
  BY <1>1, <1>2, <1>5, <1>6, JobsSame DEF Inv

LEMMA OperatorStep ==
  ASSUME Inv, NEW o \in Operators, OperatorDies(o)
  PROVE  Inv'
<1>1. JobsOK /\ BuilderTypeOK'
  BY DEF Inv, OperatorDies, HostOK, BuilderTypeOK, builderVars
<1>2. faults' \in 0..MaxFaults
  BY ProvisionAssumption DEF Inv, HostOK, OperatorDies
<1>3. Grows /\ HostOK' /\ NotStartedUnprepared'
  BY <1>1, <1>2, HostSame DEF OperatorDies
<1>4. JobsOK'
  BY <1>1, <1>3, JobsStep DEF OperatorDies
<1>5. QED
  BY <1>3, <1>4 DEF Inv

LEMMA IntentStep ==
  ASSUME Inv, (\E k \in Keys : PlaceKey(k)) \/ (\E d \in Blocks : DropFormat(d))
  PROVE  Inv'
<1>1. HostOK /\ JobsOK /\ NotStartedUnprepared
  BY DEF Inv
<1>2. /\ UNCHANGED <<device, prepared, done, file, staged, image, report, job, faults>>
      /\ UNCHANGED builderVars
  BY DEF PlaceKey, DropFormat, hostVars, disks, files
<1>3. keys \subseteq keys' /\ keys' \in SUBSET Keys /\ format' \in SUBSET Blocks
  BY <1>1 DEF PlaceKey, DropFormat, HostOK
<1>4. BuilderTypeOK'
  BY <1>1, <1>2 DEF HostOK, BuilderTypeOK, builderVars
<1>5. HostOK'
  BY <1>1, <1>2, <1>3, <1>4 DEF HostOK
<1>6. Grows
  BY <1>2, <1>3 DEF Grows
<1>7. NotStartedUnprepared'
  BY <1>1, <1>2, <1>3 DEF NotStartedUnprepared
<1>8. QED
  BY <1>1, <1>2, <1>5, <1>6, <1>7, JobsSame DEF Inv

LEMMA RequestStep ==
  ASSUME Inv, NEW o \in Provisioners, NEW v \in Versions, NEW ack \in SUBSET Blocks,
         NEW confirm \in BOOLEAN, Request(o, v, ack, confirm)
  PROVE  Inv'
<1>1. HostOK /\ JobsOK /\ NotStartedUnprepared
  BY DEF Inv
<1>2. PICK k : k = Run(v, ack)
  OBVIOUS
<1>3. k \in Runs /\ RunOK(k)
  <2>1. k.plan \in Seq(Step)
    BY <1>2, PlanIs DEF Run, Ends
  <2>2. pin \in Refs \cup {None} /\ NoSums \in [Parts -> Content \cup {None}]
        /\ format \in SUBSET Blocks /\ ("start" \notin done) \in BOOLEAN
    BY <1>1 DEF HostOK, BuilderTypeOK, NoSums
  <2>3. k \in Runs
    BY <1>2, <2>1, <2>2 DEF Run, Runs
  <2>4. QED
    BY <1>2, <2>3, RunBegins
<1>4. \E ssh_ok \in BOOLEAN : Outcome(ssh_ok, TRUE)
  BY DEF Request
<1>5. \/ Begin(o, k) /\ report' = None
      \/ UNCHANGED <<job, report>>
  BY <1>2 DEF Request
<1>6. /\ UNCHANGED <<format, device, prepared, done, keys, file, staged, image>>
      /\ UNCHANGED builderVars
  BY DEF Request, hostVars, disks, files, intent
<1>7. HostOK'
  <2>1. faults' \in 0..MaxFaults
    BY <1>1, <1>4, OutcomeCounts DEF HostOK
  <2>2. report' = None \/ report' \in Report
    BY <1>1, <1>5 DEF HostOK
  <2>3. BuilderTypeOK'
    BY <1>1, <1>6 DEF HostOK, BuilderTypeOK, builderVars
  <2>4. QED
    BY <1>1, <1>6, <2>1, <2>2, <2>3 DEF HostOK
<1>8. Grows /\ NotStartedUnprepared'
  BY <1>1, <1>6 DEF Grows, NotStartedUnprepared
<1>9. o \in Operators /\ o \notin Upgraders
  BY ProvisionAssumption DEF Operators
<1>10. JobsOK'
  BY <1>1, <1>3, <1>5, <1>8, <1>9, JobsBegin, JobsSame
<1>11. QED
  BY <1>7, <1>8, <1>10 DEF Inv
-----------------------------------------------------------------------------
(* Theorems. *)

LEMMA InvInit == Init => Inv
<1> SUFFICES ASSUME Init PROVE Inv
  OBVIOUS
<1>1. BuilderTypeOK
  BY DEF Init, BuilderInit, BuilderTypeOK, Content
<1>2. HostOK
  BY <1>1, ProvisionAssumption DEF Init, HostOK, NoFiles
<1>3. JobsOK
  BY DEF Init, JobsOK, Operators
<1>4. NotStartedUnprepared
  BY DEF Init, NotStartedUnprepared
<1>5. QED
  BY <1>2, <1>3, <1>4 DEF Inv

LEMMA InvNext == Inv /\ [Next]_vars => Inv'
<1> SUFFICES ASSUME Inv, [Next]_vars PROVE Inv'
  OBVIOUS
<1>1. CASE UNCHANGED vars
  <2>1. UNCHANGED <<hostVars, intent, report, job, faults>> /\ UNCHANGED builderVars
    BY <1>1 DEF vars
  <2>2. BuilderTypeOK' /\ faults' \in 0..MaxFaults
    BY <2>1 DEF Inv, HostOK, BuilderTypeOK, builderVars
  <2>3. Grows /\ HostOK' /\ NotStartedUnprepared'
    BY <2>1, <2>2, HostSame
  <2>4. QED
    BY <2>1, <2>3, JobsSame DEF Inv
<1>2. ASSUME NEW o \in Provisioners, HostWork(o) PROVE Inv'
  BY <1>2, StageStep, UnitStep, ProbeStep, MkfsStep, MountStep, DisksCheckedStep, PushStep,
     VerifyStep, CheckStep, SwapStep, CheckKeyStep, CatchUpStep, FinishStep DEF HostWork
<1>3. QED
  BY <1>1, <1>2, BuilderStep, RequestStep, OperatorStep, LaunchStep, ProcessStep, IntentStep
     DEF Next

\* The invariant is inductive, and so holds always.
THEOREM Invariance == Spec => []Inv
<1>1. QED
  BY InvInit, InvNext, PTL DEF Spec

\* Every variable keeps its type, the plan of every run and of every build
\* included, whatever the disks, the operators and the failures.
THEOREM TypesKept == Spec => []TypeOK
<1>1. QED
  BY Invariance, InvTypes, PTL

\* provision.py:5: however many operators provision the host at the same
\* time, and wherever their runs are cut short, the unit is started only
\* once every key is placed and every disk set up.
THEOREM StartsArePrepared == Spec => []NotStartedUnprepared
<1>1. Inv => NotStartedUnprepared
  BY DEF Inv
<1>2. QED
  BY <1>1, Invariance, PTL

\* What formatting a device takes from it.
Unseen(d) ==
  \E o \in Provisioners :
    /\ At(o, "mkfs") /\ Head(job[o].plan).part = d
    /\ d \in job[o].format \cap job[o].ack \cap job[o].blind

LEMMA FormatIsBlind ==
  ASSUME Inv, NEW o \in Provisioners, Mkfs(o), NEW x \in Blocks,
         device[x] = "data", device'[x] # "data"
  PROVE  Unseen(x)
<1>1. HostOK /\ NotStartedUnprepared /\ faults \in 0..MaxFaults
  BY DEF Inv, HostOK
<1>2. PICK j \in Runs :
        /\ job[o] = j /\ RunOK(j) /\ j.plan \in Seq(Step) /\ j.plan[1] \in Step
        /\ Head(j.plan) = j.plan[1] /\ j.plan[1].do = "mkfs" /\ Len(j.plan) \in Nat /\ Len(j.plan) > 1
  <2>1. At(o, "mkfs")
    BY DEF Mkfs
  <2>2. QED
    BY <2>1, AtRun
<1> DEFINE d == j.plan[1].part
<1>3. PICK ok \in BOOLEAN, effect \in BOOLEAN :
        /\ Effect(ok, d \notin prepared, effect)
        /\ device' = IF effect THEN [device EXCEPT ![d] = "fs"] ELSE device
  BY <1>2 DEF Mkfs
<1>4. device \in [Blocks -> {"blank", "fs", "data"}]
  BY <1>1 DEF HostOK
<1>5. x = d /\ effect
  BY <1>3, <1>4
<1>6. d \notin prepared
  BY <1>3, <1>5 DEF Effect
<1>7. MayFormat(j, d)
  BY <1>2 DEF RunOK
<1>8. d \in j.format \cap j.ack \cap j.blind
  BY <1>5, <1>6, <1>7 DEF MayFormat
<1>9. At(o, "mkfs")
  BY DEF Mkfs
<1>10. Head(job[o].plan).part = x
  BY <1>2, <1>5
<1>11. QED
  BY <1>2, <1>5, <1>8, <1>9, <1>10 DEF Unseen

\* provision.py:6: however many operators provision the host at the same
\* time, a device loses its data only to a run that fleet.yaml told to
\* format it, that acknowledged it and that could not look at it.
THEOREM DataIsSafe == Spec => DataLostOnlyBlind
<1> DEFINE Safe == \A d \in Blocks : (device[d] = "data" /\ device'[d] # "data") => Unseen(d)
<1>1. Inv /\ [Next]_vars => [Safe]_vars
  <2> SUFFICES ASSUME Inv, Next PROVE Safe
    OBVIOUS
  <2>1. ASSUME NEW o \in Provisioners, HostWork(o) PROVE Safe
    <3>1. CASE Mkfs(o)
      BY <3>1, FormatIsBlind
    <3>2. Mkfs(o) \/ UNCHANGED device
      BY <2>1 DEF HostWork, Stage, InstallUnit, Probe, Mount, DisksChecked, Push, Verify, Check,
                  SwapOne, CheckKey, CatchUp, Finish, hostVars, disks
    <3>3. QED
      BY <3>1, <3>2
  <2>2. CASE Launch
    <3>1. device \in [Blocks -> {"blank", "fs", "data"}]
      BY DEF Inv, HostOK
    <3>2. QED
      BY <2>2, <3>1 DEF Launch
  <2>3. \/ UNCHANGED device \/ Launch
        \/ \E o \in Provisioners : HostWork(o)
    BY DEF Next, OnBuilder, Request, OperatorDies, ProcessDies, PlaceKey, DropFormat,
           hostVars, disks
  <2>4. QED
    BY <2>1, <2>2, <2>3
<1>2. Spec => [][Safe]_vars
  BY Invariance, <1>1, PTL DEF Spec
<1>3. QED
  BY <1>2 DEF DataLostOnlyBlind, Unseen
=============================================================================
