--------------------------- MODULE BuildFreshProofs ---------------------------
(***************************************************************************)
(* Proof that what a build collects is what its operator asked for, for    *)
(* every number of operators on the host and on its builder, every number  *)
(* of versions, refs and failures, unless others were on the builder too.  *)
(***************************************************************************)
EXTENDS ProvisionProofs

(* Plans. *)

\* The commands that bring the checkout of part x to what was asked for: if
\* no geyser_ref is set, the clone does.
Source(ref, x) == To(IF x = "geyser" /\ ref = None THEN "fetch" ELSE "checkout", x)

\* Each part is brought to its source, compiled, copied and collected.
InOrder(p, ref, x) ==
  /\ Waits(p, To("compile", x), Source(ref, x))
  /\ Waits(p, To("copy", x), To("compile", x))
  /\ Waits(p, To("collect", x), To("copy", x))

\* The cache is looked up once, and the checkout of the plugin stays where
\* it is if no geyser_ref is set.
Tidy(p, ref) ==
  /\ Clear(p, Dos({"cached"}), Dos({"cached"}))
  /\ ref = None => Lacks(p, To("checkout", "geyser"))

LEMMA JoinedWaits ==
  ASSUME NEW p \in Seq(Step), NEW q \in Seq(Step), NEW T, NEW S, Waits(p, T, S),
         Waits(q, T, S) \/ Has(p, S)
  PROVE  Waits(p \o q, T, S)
<1> DEFINE r == p \o q
<1>1. /\ Len(p) \in Nat /\ Len(q) \in Nat /\ Len(r) = Len(p) + Len(q)
      /\ \A i \in 1..Len(p) : i \in 1..Len(r) /\ r[i] = p[i]
      /\ \A i \in 1..Len(q) : i + Len(p) \in 1..Len(r) /\ r[i + Len(p)] = q[i]
      /\ \A i \in 1..Len(r) : i \notin 1..Len(p) => i - Len(p) \in 1..Len(q) /\ r[i] = q[i - Len(p)]
  BY JoinedIs
<1> HIDE DEF r
<1>2. ASSUME NEW i \in 1..Len(r), r[i] \in T
      PROVE  \E m \in 1..i-1 : r[m] \in S
  <2>1. CASE i \in 1..Len(p)
    <3>1. PICK m \in 1..i-1 : p[m] \in S
      BY <1>1, <1>2, <2>1 DEF Waits
    <3>2. m \in 1..Len(p)
      BY <1>1, <2>1
    <3>3. QED
      BY <1>1, <3>1, <3>2
  <2>2. CASE i \notin 1..Len(p) /\ Has(p, S)
    <3>1. PICK m \in 1..Len(p) : p[m] \in S
      BY <2>2 DEF Has
    <3>2. m \in 1..i-1 /\ r[m] = p[m]
      BY <1>1, <2>2
    <3>3. QED
      BY <3>1, <3>2
  <2>3. CASE i \notin 1..Len(p) /\ Waits(q, T, S)
    <3>1. i - Len(p) \in 1..Len(q) /\ q[i - Len(p)] \in T
      BY <1>1, <1>2, <2>3
    <3>2. PICK m \in 1..(i - Len(p))-1 : q[m] \in S
      BY <2>3, <3>1 DEF Waits
    <3>3. m \in 1..Len(q) /\ m + Len(p) \in 1..i-1
      BY <1>1, <3>1
    <3>4. r[m + Len(p)] \in S
      BY <1>1, <3>2, <3>3
    <3>5. QED
      BY <3>3, <3>4
  <2>4. QED
    BY <2>1, <2>2, <2>3
<1>3. QED
  BY <1>2 DEF Waits, r

LEMMA JoinedClear ==
  ASSUME NEW p \in Seq(Step), NEW q \in Seq(Step), NEW T,
         (Clear(p, T, T) /\ Lacks(q, T)) \/ (Lacks(p, T) /\ Clear(q, T, T))
  PROVE  Clear(p \o q, T, T)
<1> DEFINE r == p \o q
<1>1. /\ Len(p) \in Nat /\ Len(q) \in Nat /\ Len(r) = Len(p) + Len(q)
      /\ \A i \in 1..Len(p) : r[i] = p[i]
      /\ \A i \in 1..Len(r) : i \notin 1..Len(p) => i - Len(p) \in 1..Len(q) /\ r[i] = q[i - Len(p)]
  BY JoinedIs
<1> HIDE DEF r
<1>2. CASE Clear(p, T, T) /\ Lacks(q, T)
  <2>1. \A i \in 1..Len(r) : r[i] \in T => i \in 1..Len(p)
    BY <1>1, <1>2 DEF Lacks
  <2>2. QED
    BY <1>1, <1>2, <2>1 DEF Clear, r
<1>3. CASE Lacks(p, T) /\ Clear(q, T, T)
  <2>1. ASSUME NEW i \in 1..Len(r), NEW k \in 1..Len(r), i < k, r[i] \in T
        PROVE  r[k] \notin T
    <3>1. i \notin 1..Len(p) /\ k \notin 1..Len(p)
      BY <1>1, <1>3, <2>1 DEF Lacks
    <3>2. /\ i - Len(p) \in 1..Len(q) /\ k - Len(p) \in 1..Len(q) /\ i - Len(p) < k - Len(p)
          /\ r[i] = q[i - Len(p)] /\ r[k] = q[k - Len(p)]
      BY <1>1, <2>1, <3>1
    <3>3. QED
      BY <1>3, <2>1, <3>2 DEF Clear
  <2>2. QED
    BY <2>1 DEF Clear, r
<1>4. QED
  BY <1>2, <1>3

LEMMA OnlyLacks ==
  ASSUME NEW p, NEW C, NEW D, Only(p, C), C \cap D = {}
  PROVE  Lacks(p, Dos(D)) /\ \A c \in D : \A x : Lacks(p, To(c, x))
BY DEF Only, Lacks, Dos, To

\* What has no part in a build may come before it and after it.
LEMMA Around ==
  ASSUME NEW p \in Seq(Step), NEW q \in Seq(Step), NEW ref,
         \/ Tidy(p, ref) /\ (\A x \in Parts : InOrder(p, ref, x)) /\ Lacks(q, Dos(BuilderDo))
         \/ Lacks(p, Dos(BuilderDo)) /\ Tidy(q, ref) /\ (\A x \in Parts : InOrder(q, ref, x))
  PROVE  Tidy(p \o q, ref) /\ \A x \in Parts : InOrder(p \o q, ref, x)
<1>1. ASSUME NEW r, Lacks(r, Dos(BuilderDo))
      PROVE  /\ Lacks(r, Dos({"cached"})) /\ Clear(r, Dos({"cached"}), Dos({"cached"}))
             /\ \A c \in BuilderDo : \A x : Lacks(r, To(c, x))
             /\ Tidy(r, ref) /\ \A x \in Parts : InOrder(r, ref, x)
  <2>1. Lacks(r, Dos({"cached"})) /\ \A c \in BuilderDo : \A x : Lacks(r, To(c, x))
    BY <1>1 DEF Lacks, Dos, To, BuilderDo
  <2>2. Clear(r, Dos({"cached"}), Dos({"cached"}))
    BY <2>1 DEF Clear, Lacks
  <2>3. {"checkout", "compile", "copy", "collect"} \subseteq BuilderDo
    BY DEF BuilderDo, Compiling
  <2>4. \A x \in Parts : InOrder(r, ref, x)
    BY <2>1, <2>3 DEF InOrder, Waits, Lacks
  <2>5. QED
    BY <2>1, <2>2, <2>3, <2>4 DEF Tidy
<1>2. /\ Tidy(p, ref) /\ Tidy(q, ref) /\ \A x \in Parts : InOrder(p, ref, x) /\ InOrder(q, ref, x)
      /\ \/ Clear(p, Dos({"cached"}), Dos({"cached"})) /\ Lacks(q, Dos({"cached"}))
         \/ Lacks(p, Dos({"cached"})) /\ Clear(q, Dos({"cached"}), Dos({"cached"}))
  BY <1>1 DEF Tidy
<1>3. Clear(p \o q, Dos({"cached"}), Dos({"cached"}))
  BY <1>2, JoinedClear
<1>4. ref = None => Lacks(p \o q, To("checkout", "geyser"))
  BY <1>2, Joined DEF Tidy
<1>5. \A x \in Parts : InOrder(p \o q, ref, x)
  BY <1>2, JoinedWaits DEF InOrder
<1>6. QED
  BY <1>3, <1>4, <1>5 DEF Tidy

\* The commands for one part.
LEMMA PartInOrder ==
  ASSUME NEW p \in Seq(Step), NEW x \in Parts, NEW a, NEW b, NEW c,
         a \in Step, b \in Step, c \in Step, a.do \in {"fetch", "checkout"}, a.part = x,
         b = [do |-> "compile", part |-> x], c = [do |-> "copy", part |-> x],
         NEW ref, a \in Source(ref, x), p = <<a, b, c>> \/ \E d \in Step : p = <<d, a, b, c>> /\ d.do = "fetch"
  PROVE  InOrder(p, ref, x) /\ Has(p, To("copy", x))
<1>1. b \in To("compile", x) /\ c \in To("copy", x)
  BY DEF To, Dos
<1>2. /\ \A s \in To("compile", x) : s.do = "compile"
      /\ \A s \in To("copy", x) : s.do = "copy"
      /\ \A s \in To("collect", x) : s.do = "collect"
  BY DEF To, Dos
<1> DEFINE S == Source(ref, x)
           C == To("compile", x)
           Y == To("copy", x)
           L == To("collect", x)
<1> HIDE DEF S, C, Y, L
<1>3. CASE p = <<a, b, c>>
  <2>1. /\ Len(p) = 3 /\ p[1] = a /\ p[2] = b /\ p[3] = c
        /\ \A i \in 1..3 : i = 1 \/ i = 2 \/ i = 3
    BY <1>3
  <2>2. Waits(p, C, S)
    <3>1. ASSUME NEW i \in 1..Len(p), p[i] \in C PROVE \E m \in 1..i-1 : p[m] \in S
      <4>1. i = 2
        BY <1>2, <2>1, <3>1 DEF C
      <4>2. 1 \in 1..i-1
        BY <4>1
      <4>3. QED
        BY <2>1, <4>2 DEF S
    <3>2. QED
      BY <3>1 DEF Waits
  <2>3. Waits(p, Y, C)
    <3>1. ASSUME NEW i \in 1..Len(p), p[i] \in Y PROVE \E m \in 1..i-1 : p[m] \in C
      <4>1. i = 3
        BY <1>2, <2>1, <3>1 DEF Y
      <4>2. 2 \in 1..i-1
        BY <4>1
      <4>3. QED
        BY <1>1, <2>1, <4>2 DEF C
    <3>2. QED
      BY <3>1 DEF Waits
  <2>4. Waits(p, L, Y)
    <3>1. \A i \in 1..Len(p) : p[i] \notin L
      BY <1>2, <2>1 DEF L
    <3>2. QED
      BY <3>1 DEF Waits
  <2>5. Has(p, Y)
    BY <1>1, <2>1 DEF Has, Y
  <2>6. QED
    BY <2>2, <2>3, <2>4, <2>5 DEF InOrder, S, C, Y, L
<1>4. ASSUME NEW d \in Step, p = <<d, a, b, c>>, d.do = "fetch"
      PROVE  InOrder(p, ref, x) /\ Has(p, To("copy", x))
  <2>1. /\ Len(p) = 4 /\ p[1] = d /\ p[2] = a /\ p[3] = b /\ p[4] = c
        /\ \A i \in 1..4 : i = 1 \/ i = 2 \/ i = 3 \/ i = 4
    BY <1>4
  <2>2. Waits(p, C, S)
    <3>1. ASSUME NEW i \in 1..Len(p), p[i] \in C PROVE \E m \in 1..i-1 : p[m] \in S
      <4>1. i = 3
        BY <1>2, <1>4, <2>1, <3>1 DEF C
      <4>2. 2 \in 1..i-1
        BY <4>1
      <4>3. QED
        BY <2>1, <4>2 DEF S
    <3>2. QED
      BY <3>1 DEF Waits
  <2>3. Waits(p, Y, C)
    <3>1. ASSUME NEW i \in 1..Len(p), p[i] \in Y PROVE \E m \in 1..i-1 : p[m] \in C
      <4>1. i = 4
        BY <1>2, <1>4, <2>1, <3>1 DEF Y
      <4>2. 3 \in 1..i-1
        BY <4>1
      <4>3. QED
        BY <1>1, <2>1, <4>2 DEF C
    <3>2. QED
      BY <3>1 DEF Waits
  <2>4. Waits(p, L, Y)
    <3>1. \A i \in 1..Len(p) : p[i] \notin L
      BY <1>2, <1>4, <2>1 DEF L
    <3>2. QED
      BY <3>1 DEF Waits
  <2>5. Has(p, Y)
    BY <1>1, <2>1 DEF Has, Y
  <2>6. QED
    BY <2>2, <2>3, <2>4, <2>5 DEF InOrder, S, C, Y, L
<1>5. QED
  BY <1>3, <1>4

LEMMA Strung ==
  ASSUME NEW a \in Step, NEW b \in Step, NEW c \in Step, NEW d \in Step
  PROVE  <<a>> \o <<b>> \o <<c, d>> = <<a, b, c, d>> /\ <<a>> \o <<>> \o <<c, d>> = <<a, c, d>>
<1>1. /\ <<>> \in Seq(Step) /\ <<a>> \in Seq(Step) /\ <<b>> \in Seq(Step)
      /\ <<a, b>> \in Seq(Step) /\ <<c, d>> \in Seq(Step) /\ <<a, c, d>> \in Seq(Step)
      /\ <<a, b, c, d>> \in Seq(Step)
  OBVIOUS
<1>2. ASSUME NEW p \in Seq(Step), NEW q \in Seq(Step), NEW r \in Seq(Step),
             Len(r) = Len(p) + Len(q), \A i \in 1..Len(p) : r[i] = p[i],
             \A i \in 1..Len(q) : r[i + Len(p)] = q[i]
      PROVE  p \o q = r
  <2>1. /\ Len(p) \in Nat /\ Len(q) \in Nat /\ p \o q \in Seq(Step)
        /\ Len(p \o q) = Len(p) + Len(q)
        /\ \A i \in 1..Len(p) : (p \o q)[i] = p[i]
        /\ \A i \in 1..Len(p \o q) : i \notin 1..Len(p) =>
             i - Len(p) \in 1..Len(q) /\ (p \o q)[i] = q[i - Len(p)]
    BY JoinedIs
  <2>2. \A i \in 1..Len(r) : r[i] = (p \o q)[i]
    BY <1>2, <2>1
  <2>3. QED
    BY <1>2, <2>1, <2>2, SeqEqual
<1>3. <<a>> \o <<>> = <<a>>
  BY <1>1, ConcatEmptySeq
<1>4. <<a>> \o <<b>> = <<a, b>>
  <2> DEFINE p == <<a>>
             q == <<b>>
             r == <<a, b>>
  <2>1. p \in Seq(Step) /\ q \in Seq(Step) /\ r \in Seq(Step)
    BY <1>1
  <2>2. /\ Len(p) = 1 /\ Len(q) = 1 /\ Len(r) = 2
        /\ p[1] = a /\ q[1] = b /\ r[1] = a /\ r[2] = b
    OBVIOUS
  <2> HIDE DEF p, q, r
  <2>3. /\ Len(r) = Len(p) + Len(q) /\ \A i \in 1..Len(p) : r[i] = p[i]
        /\ \A i \in 1..Len(q) : r[i + Len(p)] = q[i]
    BY <2>2
  <2>4. p \o q = r
    BY <1>2, <2>1, <2>3
  <2>5. QED
    BY <2>4 DEF p, q, r
<1>5. <<a>> \o <<c, d>> = <<a, c, d>>
  <2> DEFINE p == <<a>>
             q == <<c, d>>
             r == <<a, c, d>>
  <2>1. p \in Seq(Step) /\ q \in Seq(Step) /\ r \in Seq(Step)
    BY <1>1
  <2>2. /\ Len(p) = 1 /\ Len(q) = 2 /\ Len(r) = 3
        /\ p[1] = a /\ q[1] = c /\ q[2] = d /\ r[1] = a /\ r[2] = c /\ r[3] = d
    OBVIOUS
  <2> HIDE DEF p, q, r
  <2>3. /\ Len(r) = Len(p) + Len(q) /\ \A i \in 1..Len(p) : r[i] = p[i]
        /\ \A i \in 1..Len(q) : r[i + Len(p)] = q[i]
    BY <2>2
  <2>4. p \o q = r
    BY <1>2, <2>1, <2>3
  <2>5. QED
    BY <2>4 DEF p, q, r
<1>6. <<a, b>> \o <<c, d>> = <<a, b, c, d>>
  <2> DEFINE p == <<a, b>>
             q == <<c, d>>
             r == <<a, b, c, d>>
  <2>1. p \in Seq(Step) /\ q \in Seq(Step) /\ r \in Seq(Step)
    BY <1>1
  <2>2. /\ Len(p) = 2 /\ Len(q) = 2 /\ Len(r) = 4
        /\ p[1] = a /\ p[2] = b /\ q[1] = c /\ q[2] = d /\ r[1] = a /\ r[2] = b /\ r[3] = c /\ r[4] = d
    OBVIOUS
  <2> HIDE DEF p, q, r
  <2>3. /\ Len(r) = Len(p) + Len(q) /\ \A i \in 1..Len(p) : r[i] = p[i]
        /\ \A i \in 1..Len(q) : r[i + Len(p)] = q[i]
    BY <2>2
  <2>4. p \o q = r
    BY <1>2, <2>1, <2>3
  <2>5. QED
    BY <2>4 DEF p, q, r
<1>7. QED
  BY <1>3, <1>4, <1>5, <1>6

\* The commands that build a set of artifacts.
LEMMA CommandsInOrder ==
  ASSUME NEW ref
  PROVE  /\ Only(BuildCommands(ref), Compiling)
         /\ ref = None => Lacks(BuildCommands(ref), To("checkout", "geyser"))
         /\ \A x \in Parts : InOrder(BuildCommands(ref), ref, x) /\ Has(BuildCommands(ref), To("copy", x))
<1> DEFINE own == <<Do("fetch"), Do("checkout"), Do("compile"), Do("copy")>>
           theirs == <<Geyser("fetch")>> \o (IF ref # None THEN <<Geyser("checkout")>> ELSE <<>>)
                     \o <<Geyser("compile"), Geyser("copy")>>
<1>1. "binary" \in Parts /\ \A c \in Compiling : Do(c) \in Step /\ Do(c).do = c /\ Do(c).part = "binary"
  BY StepIs DEF Do
<1>2. /\ own \in Seq(Step) /\ Only(own, Compiling)
      /\ InOrder(own, ref, "binary") /\ Has(own, To("copy", "binary"))
  <2>1. own \in Seq(Step) /\ Only(own, Compiling)
    <3>1. /\ Do("fetch") \in Step /\ Do("checkout") \in Step /\ Do("compile") \in Step
          /\ Do("copy") \in Step
      BY <1>1 DEF Compiling
    <3>2. Only(own, {Do("fetch").do, Do("checkout").do, Do("compile").do, Do("copy").do})
      BY <3>1, Listed
    <3>3. QED
      BY <1>1, <3>2, More DEF Compiling
  <2>2. Do("checkout") \in Source(ref, "binary")
    BY <1>1 DEF Source, To, Dos, Compiling
  <2>3. /\ Do("compile") = [do |-> "compile", part |-> "binary"]
        /\ Do("copy") = [do |-> "copy", part |-> "binary"]
    BY DEF Do
  <2>4. QED
    BY <1>1, <2>1, <2>2, <2>3, PartInOrder DEF Compiling
<1>3. \A x : x # "binary" => \A c \in Compiling \cup {"collect"} : Lacks(own, To(c, x))
  <2>1. \A i \in 1..Len(own) : own[i].part = "binary"
    BY DEF Do
  <2>2. QED
    BY <2>1 DEF Lacks, To, Dos
<1>4. CASE ~GeyserRepo
  <2>1. BuildCommands(ref) = own
    <3>1. BuildCommands(ref) = own \o <<>>
      BY <1>4 DEF BuildCommands
    <3>2. QED
      BY <1>2, <3>1
  <2>2. Parts = {"binary"}
    BY <1>4 DEF Parts
  <2> HIDE DEF own
  <2>3. QED
    BY <1>2, <1>3, <2>1, <2>2 DEF Compiling
<1>5. CASE GeyserRepo
  <2>1. Parts = {"binary", "geyser"} /\ BuildCommands(ref) = own \o theirs
    BY <1>5 DEF Parts, BuildCommands
  <2>2. \A c \in Compiling : Geyser(c) \in Step /\ Geyser(c).do = c /\ Geyser(c).part = "geyser"
    BY <2>1, StepIs DEF Geyser
  <2>3. /\ Geyser("fetch") \in Step /\ Geyser("checkout") \in Step /\ Geyser("compile") \in Step
        /\ Geyser("copy") \in Step
        /\ Geyser("compile") = [do |-> "compile", part |-> "geyser"]
        /\ Geyser("copy") = [do |-> "copy", part |-> "geyser"]
    BY <2>2 DEF Compiling, Geyser
  <2>4. theirs = IF ref # None
                 THEN <<Geyser("fetch"), Geyser("checkout"), Geyser("compile"), Geyser("copy")>>
                 ELSE <<Geyser("fetch"), Geyser("compile"), Geyser("copy")>>
    <3>1. CASE ref # None
      BY <2>3, <3>1, Strung
    <3>2. CASE ref = None
      BY <2>3, <3>2, Strung
    <3>3. QED
      BY <3>1, <3>2
  <2> HIDE DEF theirs
  <2>5. theirs \in Seq(Step) /\ Only(theirs, Compiling)
    <3>1. /\ Geyser("fetch").do \in Compiling /\ Geyser("checkout").do \in Compiling
          /\ Geyser("compile").do \in Compiling /\ Geyser("copy").do \in Compiling
      BY <2>2 DEF Compiling
    <3> DEFINE a == Geyser("fetch")
               b == Geyser("checkout")
               c == Geyser("compile")
               d == Geyser("copy")
    <3>2. a \in Step /\ b \in Step /\ c \in Step /\ d \in Step
      BY <2>3
    <3> HIDE DEF a, b, c, d
    <3>3. Only(<<a, b, c, d>>, {a.do, b.do, c.do, d.do}) /\ Only(<<a, c, d>>, {a.do, c.do, d.do})
      BY <3>2, Listed
    <3>4. Only(<<a, b, c, d>>, Compiling) /\ Only(<<a, c, d>>, Compiling)
      BY <3>1, <3>3, More DEF a, b, c, d
    <3>5. Only(theirs, Compiling)
      BY <2>4, <3>4 DEF a, b, c, d
    <3>6. QED
      BY <3>5 DEF Only
  <2>6. InOrder(theirs, ref, "geyser") /\ Has(theirs, To("copy", "geyser"))
    <3>1. CASE ref # None
      <4>1. Geyser("checkout") \in Source(ref, "geyser")
        BY <2>2, <3>1 DEF Source, To, Dos, Compiling
      <4>2. QED
        BY <2>1, <2>2, <2>3, <2>4, <2>5, <3>1, <4>1, PartInOrder DEF Compiling
    <3>2. CASE ref = None
      <4>1. Geyser("fetch") \in Source(ref, "geyser")
        BY <2>2, <3>2 DEF Source, To, Dos, Compiling
      <4>2. QED
        BY <2>1, <2>2, <2>3, <2>4, <2>5, <3>2, <4>1, PartInOrder DEF Compiling
    <3>3. QED
      BY <3>1, <3>2
  <2>7. /\ \A c \in Compiling \cup {"collect"} : Lacks(theirs, To(c, "binary"))
        /\ ref = None => Lacks(theirs, To("checkout", "geyser"))
    <3>1. \A i \in 1..Len(theirs) : /\ theirs[i].part = "geyser"
                                    /\ ref = None => theirs[i].do # "checkout"
      BY <2>4 DEF Geyser
    <3>2. QED
      BY <3>1 DEF Lacks, To, Dos
  <2> HIDE DEF own
  <2>8. Only(own \o theirs, Compiling)
    BY <1>2, <2>5, Joined, More
  <2>9. Lacks(own, To("checkout", "geyser")) /\ (ref = None => Lacks(own \o theirs, To("checkout", "geyser")))
    BY <1>2, <1>3, <2>5, <2>7, Joined DEF Compiling
  <2>10. \A x \in Parts : Has(own \o theirs, To("copy", x))
    BY <1>2, <2>1, <2>5, <2>6, Joined
  <2>11. \A x \in Parts : InOrder(own, ref, x) /\ InOrder(theirs, ref, x)
    <3>1. InOrder(own, ref, "geyser")
      BY <1>3 DEF InOrder, Waits, Lacks, Compiling
    <3>2. InOrder(theirs, ref, "binary")
      BY <2>7 DEF InOrder, Waits, Lacks, Compiling
    <3>3. QED
      BY <1>2, <2>1, <2>6, <3>1, <3>2
  <2>12. \A x \in Parts : InOrder(own \o theirs, ref, x)
    BY <1>2, <2>5, <2>11, JoinedWaits DEF InOrder
  <2>13. QED
    BY <2>1, <2>8, <2>9, <2>10, <2>12
<1>6. QED
  BY <1>4, <1>5

\* A build: the cache is looked up, the set is built, then collected.
LEMMA BuildInOrder ==
  ASSUME NEW ref, NEW force \in BOOLEAN
  PROVE  /\ BuildPlan(ref, force) \in Seq(Step) /\ Tidy(BuildPlan(ref, force), ref)
         /\ \A x \in Parts : InOrder(BuildPlan(ref, force), ref, x)
<1> DEFINE first == IF force THEN <<>> ELSE <<Do("cached")>>
           build == BuildCommands(ref)
           collect == ForEach("collect", Artifacts)
           T == Dos({"cached"})
<1>1. /\ build \in Seq(Step) /\ Lacks(build, T) /\ \A x : Lacks(build, To("collect", x))
      /\ ref = None => Lacks(build, To("checkout", "geyser"))
      /\ \A x \in Parts : InOrder(build, ref, x) /\ Has(build, To("copy", x))
  <2>1. Only(build, Compiling) /\ Compiling \cap {"cached", "collect"} = {}
    BY CommandsInOrder DEF Compiling
  <2>2. Lacks(build, T) /\ \A x : Lacks(build, To("collect", x))
    BY <2>1, OnlyLacks
  <2>3. build \in Seq(Step)
    BY <2>1 DEF Only
  <2>4. QED
    BY <2>2, <2>3, CommandsInOrder
<1>2. /\ collect \in Seq(Step) /\ Lacks(collect, T)
      /\ \A c \in Compiling : \A x : Lacks(collect, To(c, x))
  <2>1. Only(collect, {"collect"}) /\ {"collect"} \cap ({"cached"} \cup Compiling) = {}
    BY StepIs, ForEachIs DEF Artifacts, Compiling
  <2>2. Lacks(collect, T) /\ \A c \in Compiling : \A x : Lacks(collect, To(c, x))
    BY <2>1, OnlyLacks
  <2>3. QED
    BY <2>1, <2>2 DEF Only
<1>3. /\ first \in Seq(Step) /\ Clear(first, T, T)
      /\ \A c \in Compiling \cup {"collect"} : \A x : Lacks(first, To(c, x))
  <2>1. Do("cached") \in Step /\ Do("cached").do = "cached"
    BY StepIs DEF Do
  <2>2. Only(<<>>, {}) /\ Only(<<Do("cached")>>, {"cached"})
    BY <2>1, Listed
  <2>3. Only(first, {"cached"})
    BY <2>2, More
  <2>4. {"cached"} \cap (Compiling \cup {"collect"}) = {}
    BY DEF Compiling
  <2>5. \A c \in Compiling \cup {"collect"} : \A x : Lacks(first, To(c, x))
    BY <2>3, <2>4, OnlyLacks
  <2>6. \A i, k \in 1..Len(first) : ~ (i < k)
    OBVIOUS
  <2>7. QED
    BY <2>3, <2>5, <2>6 DEF Only, Clear
<1> HIDE DEF first, build, collect
<1>4. \A p, S, U : Lacks(p, S) => Waits(p, S, U)
  BY DEF Lacks, Waits
<1>5. {"compile", "copy", "checkout"} \subseteq Compiling
  BY DEF Compiling
<1> DEFINE p == first \o build
<1>6. /\ p \in Seq(Step) /\ Clear(p, T, T)
      /\ ref = None => Lacks(p, To("checkout", "geyser"))
      /\ \A x \in Parts : InOrder(p, ref, x) /\ Has(p, To("copy", x))
  <2>1. p \in Seq(Step) /\ Clear(p, T, T)
    BY <1>1, <1>3, Joined, JoinedClear
  <2>2. ref = None => Lacks(p, To("checkout", "geyser"))
    BY <1>1, <1>3, <1>5, Joined
  <2>3. \A x \in Parts : Has(p, To("copy", x))
    BY <1>1, <1>3, Joined
  <2>4. \A x \in Parts : InOrder(first, ref, x)
    BY <1>3, <1>4, <1>5 DEF InOrder
  <2>5. \A x \in Parts : InOrder(p, ref, x)
    BY <1>1, <1>3, <2>4, JoinedWaits DEF InOrder
  <2>6. QED
    BY <2>1, <2>2, <2>3, <2>5
<1> HIDE DEF p
<1> DEFINE q == p \o collect
<1>7. q \in Seq(Step) /\ Clear(q, T, T)
  BY <1>2, <1>6, Joined, JoinedClear
<1>8. ref = None => Lacks(q, To("checkout", "geyser"))
  BY <1>2, <1>5, <1>6, Joined
<1>9. ASSUME NEW x \in Parts PROVE InOrder(q, ref, x)
  <2>1. Waits(collect, To("compile", x), Source(ref, x)) /\ Waits(collect, To("copy", x), To("compile", x))
    BY <1>2, <1>4, <1>5
  <2>2. /\ Waits(p, To("compile", x), Source(ref, x)) /\ Waits(p, To("copy", x), To("compile", x))
        /\ Waits(p, To("collect", x), To("copy", x)) /\ Has(p, To("copy", x))
    BY <1>6 DEF InOrder
  <2>3. Waits(q, To("compile", x), Source(ref, x)) /\ Waits(q, To("copy", x), To("compile", x))
    BY <1>2, <1>6, <2>1, <2>2, JoinedWaits
  <2>4. Waits(q, To("collect", x), To("copy", x))
    BY <1>2, <1>6, <2>2, JoinedWaits
  <2>5. QED
    BY <2>3, <2>4 DEF InOrder
<1>10. BuildPlan(ref, force) = q
  BY DEF BuildPlan, q, p, first, build, collect
<1>11. QED
  BY <1>7, <1>8, <1>9, <1>10 DEF Tidy

\* The operations that only build.
LEMMA BuildsInOrder ==
  ASSUME NEW ref, NEW force \in BOOLEAN, NEW p,
         p = BuildPlan(ref, force) \o <<Do("finish")>> \/ p = <<Do("bootstrap"), Do("finish")>>
  PROVE  Tidy(p, ref) /\ \A x \in Parts : InOrder(p, ref, x)
<1>1. Do("finish") \in Step /\ Do("finish").do = "finish" /\ Do("bootstrap").do = "bootstrap"
  BY StepIs DEF Do
<1>2. <<Do("finish")>> \in Seq(Step) /\ Lacks(<<Do("finish")>>, Dos(BuilderDo))
  BY <1>1 DEF Lacks, Dos, BuilderDo, Compiling
<1>3. CASE p = BuildPlan(ref, force) \o <<Do("finish")>>
  BY <1>2, <1>3, BuildInOrder, Around
<1>4. CASE p = <<Do("bootstrap"), Do("finish")>>
  <2>1. \A i \in 1..Len(p) : p[i].do \notin Compiling \cup {"cached", "collect"}
    BY <1>1, <1>4 DEF Compiling
  <2>2. \A c \in Compiling \cup {"cached", "collect"} : Lacks(p, Dos({c})) /\ \A x : Lacks(p, To(c, x))
    BY <2>1 DEF Lacks, Dos, To
  <2>3. Tidy(p, ref)
    BY <2>2 DEF Tidy, Clear, Lacks, Compiling
  <2>4. \A x \in Parts : InOrder(p, ref, x)
    BY <2>2 DEF InOrder, Waits, Lacks, Compiling
  <2>5. QED
    BY <2>3, <2>4
<1>5. QED
  BY <1>3, <1>4

\* A run of provision.
LEMMA RunInOrder ==
  Tidy(ProvisionPlan, pin) /\ \A x \in Parts : InOrder(ProvisionPlan, pin, x)
<1> DEFINE q1 == <<Do("user"), Do("system")>>
           q2 == DiskPlan
           q3 == <<Do("disks")>>
           q4 == BuildPlan(pin, FALSE)
           q5 == Distribute
           q6 == <<Do("check")>>
           q7 == ForEach("swap", Placed)
           q8 == <<Do("unit"), Do("identity")>>
           q9 == IF Voting THEN <<Do("vote")>> ELSE <<>>
           q10 == <<Do("start"), Do("catchup"), Do("finish")>>
           Foreign(q) == q \in Seq(Step) /\ Lacks(q, Dos(BuilderDo))
<1>1. \A q, C : Only(q, C) /\ C \cap BuilderDo = {} => Foreign(q)
  BY DEF Only, Lacks, Dos
<1>2. \A c \in {"disks", "check", "catchup", "finish"} \cup Stages \cup Keys :
        Do(c) \in Step /\ Do(c).do = c
  BY StepIs DEF Do
<1>3. /\ Foreign(q1) /\ Foreign(q3) /\ Foreign(q6) /\ Foreign(q8) /\ Foreign(q9) /\ Foreign(q10)
  <2>1. /\ Do("user") \in Step /\ Do("system") \in Step /\ Do("disks") \in Step
        /\ Do("check") \in Step /\ Do("unit") \in Step /\ Do("identity") \in Step
        /\ (Voting => Do("vote") \in Step) /\ Do("start") \in Step /\ Do("catchup") \in Step
        /\ Do("finish") \in Step
    BY <1>2 DEF Stages, Keys
  <2>2. /\ \A i \in 1..Len(q1) : q1[i].do \in {"user", "system"}
        /\ \A i \in 1..Len(q3) : q3[i].do \in {"disks"}
        /\ \A i \in 1..Len(q6) : q6[i].do \in {"check"}
        /\ \A i \in 1..Len(q8) : q8[i].do \in {"unit", "identity"}
        /\ \A i \in 1..Len(q9) : q9[i].do \in {"vote"}
        /\ \A i \in 1..Len(q10) : q10[i].do \in {"start", "catchup", "finish"}
    BY DEF Do
  <2> HIDE DEF q1, q3, q6, q8, q9, q10
  <2>3. /\ Lacks(q1, Dos(BuilderDo)) /\ Lacks(q3, Dos(BuilderDo)) /\ Lacks(q6, Dos(BuilderDo))
        /\ Lacks(q8, Dos(BuilderDo)) /\ Lacks(q9, Dos(BuilderDo)) /\ Lacks(q10, Dos(BuilderDo))
    BY <2>2 DEF Lacks, Dos, BuilderDo, Compiling
  <2>4. /\ q1 \in Seq(Step) /\ q3 \in Seq(Step) /\ q6 \in Seq(Step)
        /\ q8 \in Seq(Step) /\ q9 \in Seq(Step) /\ q10 \in Seq(Step)
    BY <2>1 DEF q1, q3, q6, q8, q9, q10
  <2>5. QED
    BY <2>3, <2>4
<1>4. Foreign(q2)
  <2>1. {"probe", "mount"} \cap BuilderDo = {}
    BY DEF BuilderDo, Compiling
  <2>2. QED
    BY <1>1, <2>1, DiskPlanIs
<1>5. Foreign(q7)
  <2>1. Only(q7, {"swap"})
    BY StepIs, ForEachIs DEF Placed
  <2>2. {"swap"} \cap BuilderDo = {}
    BY DEF BuilderDo, Compiling
  <2>3. QED
    BY <1>1, <2>1, <2>2
<1>6. Foreign(q5)
  <2>1. Do("push") \in Step /\ Do("verify") \in Step
    BY StepIs DEF Do
  <2>2. "geyser" \in Files => Geyser("push") \in Step /\ Geyser("verify") \in Step
    BY StepIs DEF Geyser
  <2>3. q5 \in Seq(Step)
    BY <2>1, <2>2 DEF Distribute
  <2>4. \A i \in 1..Len(q5) : q5[i].do \in {"push", "verify"}
    BY DEF Distribute, Do, Geyser
  <2>5. QED
    BY <2>3, <2>4 DEF Lacks, Dos, BuilderDo, Compiling
<1> DEFINE Good(q) == q \in Seq(Step) /\ Tidy(q, pin) /\ \A x \in Parts : InOrder(q, pin, x)
<1>7. Good(q4)
  BY BuildInOrder
<1>8. ASSUME NEW p, NEW q, Foreign(p), Foreign(q) PROVE Foreign(p \o q)
  BY <1>8, Joined
<1>9. ASSUME NEW p, NEW q, Foreign(p), Good(q) PROVE Good(p \o q)
  BY <1>9, Joined, Around
<1>10. ASSUME NEW p, NEW q, Good(p), Foreign(q) PROVE Good(p \o q)
  BY <1>10, Joined, Around
<1>11. ProvisionPlan = q1 \o q2 \o q3 \o q4 \o q5 \o q6 \o q7 \o q8 \o q9 \o q10
  BY DEF ProvisionPlan
<1> HIDE DEF q1, q2, q3, q4, q5, q6, q7, q8, q9, q10, Foreign, Good
<1>12. Good(q1 \o q2 \o q3 \o q4)
  BY <1>3, <1>4, <1>7, <1>8, <1>9
<1>13. Good(q1 \o q2 \o q3 \o q4 \o q5 \o q6 \o q7)
  BY <1>3, <1>5, <1>6, <1>10, <1>12
<1>14. Good(q1 \o q2 \o q3 \o q4 \o q5 \o q6 \o q7 \o q8 \o q9 \o q10)
  BY <1>3, <1>10, <1>13
<1>15. QED
  BY <1>11, <1>14 DEF Good
-----------------------------------------------------------------------------
(* The invariant. *)

\* What is still to be done on the builder.
OnIt(p) == \E i \in 1..Len(p) : p[i].do \in Compiling \cup {"collect"}

\* Part x of build j is what was asked for in the checkout, where it is
\* compiled, in the cache and in the report, or still to be brought there;
\* t, c and u are what these hold.
Traced(j, x, t, c, u) ==
  /\ Waits(j.plan, To("compile", x), Source(j.ref, x)) \/ t \in AsAsked(j, x)
  /\ Waits(j.plan, To("copy", x), To("compile", x)) \/ c \in AsAsked(j, x)
  /\ Waits(j.plan, To("collect", x), To("copy", x)) \/ u \in AsAsked(j, x)
  /\ j.sum[x] \in {None} \cup AsAsked(j, x)

TracedHere(j) ==
  \A x \in Parts : Traced(j, x, tree[x], Compiled(j.version, x), out[j.version][x])

Fresh(j) ==
  /\ Tidy(j.plan, j.ref)
  /\ j.cached => Lacks(j.plan, Dos({"cached"}))
  /\ (j.alone /\ ~j.cached) => TracedHere(j)

\* No checkout of the plugin is at anything but a ref.
SourcesOK == "geyser" \in Parts => tree["geyser"] \in Refs \cup {DefaultHead, None}

\* Whoever is alone on the builder is so.
Exclusive ==
  \A o, x \in Operators :
    (o # x /\ job[o] # None /\ job[x] # None /\ job[o].alone /\ OnIt(job[o].plan))
      => ~OnIt(job[x].plan)

FreshInv ==
  /\ Inv /\ SourcesOK /\ Exclusive
  /\ \A o \in Operators : job[o] # None => Fresh(job[o])
-----------------------------------------------------------------------------
(* One operation. *)

\* Operation k is j, further on.
Kept(j, k) ==
  /\ k.version = j.version /\ k.ref = j.ref /\ k.sum = j.sum
  /\ k.cached = j.cached /\ k.alone = j.alone

LEMMA WaitsMoves ==
  ASSUME NEW p \in Seq(Step), NEW m \in 1..Len(p), NEW T, NEW S, NEW v, NEW w, NEW A,
         Waits(p, T, S) \/ v \in A, v \in A => w \in A,
         (\E i \in 1..m-1 : p[i] \in S) => w \in A
  PROVE  Waits(From(p, m), T, S) \/ w \in A
<1>1. Waits(p, T, S) /\ (\A i \in 1..m-1 : p[i] \notin S) => Waits(From(p, m), T, S)
  BY Left
<1>2. QED
  BY <1>1

LEMMA TracedMoves ==
  ASSUME NEW j, NEW k, NEW x, j.plan \in Seq(Step), NEW m \in 1..Len(j.plan),
         k.plan = From(j.plan, m), k.version = j.version, k.ref = j.ref,
         NEW t, NEW c, NEW u, Traced(j, x, t, c, u), NEW t2, NEW c2, NEW u2,
         t \in AsAsked(j, x) => t2 \in AsAsked(j, x),
         (\E i \in 1..m-1 : j.plan[i] \in Source(j.ref, x)) => t2 \in AsAsked(j, x),
         c \in AsAsked(j, x) => c2 \in AsAsked(j, x),
         (\E i \in 1..m-1 : j.plan[i] \in To("compile", x)) => c2 \in AsAsked(j, x),
         u \in AsAsked(j, x) => u2 \in AsAsked(j, x),
         (\E i \in 1..m-1 : j.plan[i] \in To("copy", x)) => u2 \in AsAsked(j, x),
         k.sum[x] \in {None} \cup AsAsked(j, x)
  PROVE  Traced(k, x, t2, c2, u2)
<1>1. AsAsked(k, x) = AsAsked(j, x)
  BY DEF AsAsked, Asked
<1>2. Waits(k.plan, To("compile", x), Source(j.ref, x)) \/ t2 \in AsAsked(j, x)
  BY WaitsMoves DEF Traced
<1>3. Waits(k.plan, To("copy", x), To("compile", x)) \/ c2 \in AsAsked(j, x)
  BY WaitsMoves DEF Traced
<1>4. Waits(k.plan, To("collect", x), To("copy", x)) \/ u2 \in AsAsked(j, x)
  BY WaitsMoves DEF Traced
<1>5. QED
  BY <1>1, <1>2, <1>3, <1>4 DEF Traced

\* Commands before the m-th that change nothing on the builder, and those
\* that a hit in the cache makes needless.
LEMMA FreshMoves ==
  ASSUME NEW j, NEW k, Fresh(j), j.plan \in Seq(Step), NEW m \in 1..Len(j.plan),
         k.plan = From(j.plan, m), k.version = j.version, k.ref = j.ref, k.sum = j.sum,
         k.alone = j.alone, UNCHANGED <<tree, install, target, out>>,
         k.cached => j.cached \/ \E i \in 1..m-1 : j.plan[i] \in Dos({"cached"}),
         ~k.cached => ~j.cached /\ \A i \in 1..m-1 : j.plan[i].do \notin Compiling
  PROVE  Fresh(k)' /\ (OnIt(k.plan) => OnIt(j.plan))
<1>1. Tidy(k.plan, k.ref)
  BY Left DEF Fresh, Tidy
<1>2. k.cached => Lacks(k.plan, Dos({"cached"}))
  <2>1. j.cached => Lacks(k.plan, Dos({"cached"}))
    BY Left DEF Fresh
  <2>2. (\E i \in 1..m-1 : j.plan[i] \in Dos({"cached"})) => Lacks(k.plan, Dos({"cached"}))
    BY Left DEF Fresh, Tidy
  <2>3. QED
    BY <2>1, <2>2
<1>3. ASSUME k.alone, ~k.cached PROVE TracedHere(k)'
  <2>1. TracedHere(j) /\ k.version = j.version
    BY <1>3 DEF Fresh
  <2>2. ASSUME NEW x \in Parts PROVE Traced(k, x, tree[x], Compiled(k.version, x), out[k.version][x])
    <3>1. \A i \in 1..m-1 : /\ j.plan[i] \notin Source(j.ref, x)
                            /\ j.plan[i] \notin To("compile", x) /\ j.plan[i] \notin To("copy", x)
      BY <1>3 DEF Source, To, Dos, Compiling
    <3>2. Traced(j, x, tree[x], Compiled(j.version, x), out[j.version][x])
      BY <2>1 DEF TracedHere
    <3>3. k.sum[x] \in {None} \cup AsAsked(j, x)
      BY <3>2 DEF Traced
    <3>4. PICK t, c, u : t = tree[x] /\ c = Compiled(j.version, x) /\ u = out[j.version][x]
      OBVIOUS
    <3>5. /\ ~ \E i \in 1..m-1 : j.plan[i] \in Source(j.ref, x)
          /\ ~ \E i \in 1..m-1 : j.plan[i] \in To("compile", x)
          /\ ~ \E i \in 1..m-1 : j.plan[i] \in To("copy", x)
      BY <3>1
    <3>6. Traced(j, x, t, c, u)
      BY <3>2, <3>4
    <3>7. Traced(k, x, t, c, u)
      BY <3>3, <3>5, <3>6, TracedMoves
    <3>8. QED
      BY <2>1, <3>4, <3>7
  <2>3. QED
    BY <2>2 DEF TracedHere, Compiled
<1>4. OnIt(k.plan) => OnIt(j.plan)
  <2>1. ASSUME ~OnIt(j.plan) PROVE ~OnIt(k.plan)
    <3>1. \A i \in 1..Len(k.plan) : m+i-1 \in 1..Len(j.plan) /\ k.plan[i] = j.plan[m+i-1]
      <4>1. /\ Len(j.plan) \in Nat /\ Len(k.plan) = Len(j.plan) - m + 1
            /\ \A i \in 1..Len(j.plan) - m + 1 : k.plan[i] = j.plan[m+i-1]
        <5>1. /\ Len(From(j.plan, m)) = Len(j.plan) - m + 1
              /\ \A i \in 1..Len(j.plan) - m + 1 : From(j.plan, m)[i] = j.plan[m+i-1]
          BY FromIsPlan
        <5>2. QED
          BY <5>1, LenProperties
      <4>2. QED
        BY <4>1
    <3>2. QED
      BY <2>1, <3>1 DEF OnIt
  <2>2. QED
    BY <2>1
<1>5. QED
  BY <1>1, <1>2, <1>3, <1>4 DEF Fresh

\* The plan has nothing on the builder in it: no matter what is there.
LEMMA TracedOff ==
  ASSUME NEW k, NEW x, ~OnIt(k.plan), NEW t, NEW c, NEW u,
         k.sum[x] \in {None} \cup AsAsked(k, x)
  PROVE  Traced(k, x, t, c, u)
<1>1. /\ Lacks(k.plan, To("compile", x)) /\ Lacks(k.plan, To("copy", x))
      /\ Lacks(k.plan, To("collect", x))
  BY DEF OnIt, Lacks, To, Dos, Compiling
<1>2. QED
  BY <1>1, LacksWaits DEF Traced

\* The build has failed.
LEMMA FreshEnds ==
  ASSUME NEW j, NEW k, Fresh(j), Kept(j, k), k.plan = <<Do("finish")>>
  PROVE  Fresh(k)' /\ ~OnIt(k.plan)
<1>1. Len(k.plan) = 1 /\ k.plan[1].do = "finish"
  BY DEF Do
<1>2. ~OnIt(k.plan) /\ Lacks(k.plan, Dos({"cached"})) /\ Lacks(k.plan, To("checkout", "geyser"))
  BY <1>1 DEF OnIt, Lacks, Dos, To, Compiling
<1>3. Tidy(k.plan, k.ref)
  BY <1>2 DEF Tidy, Clear, Lacks
<1>4. ASSUME k.alone, ~k.cached PROVE TracedHere(k)'
  <2>1. ASSUME NEW x \in Parts PROVE k.sum[x] \in {None} \cup AsAsked(k, x)
    <3>1. k.sum[x] = j.sum[x] /\ AsAsked(k, x) = AsAsked(j, x)
      BY DEF Kept, AsAsked, Asked
    <3>2. j.sum[x] \in {None} \cup AsAsked(j, x)
      BY <1>4 DEF Fresh, Kept, TracedHere, Traced
    <3>3. QED
      BY <3>1, <3>2
  <2>3. QED
    BY <1>2, <2>1, TracedOff DEF TracedHere
<1>5. QED
  BY <1>2, <1>3, <1>4 DEF Fresh

\* An operation that waits while another actor takes a step.
LEMMA FreshWaits ==
  ASSUME NEW j, NEW k, Fresh(j), k.plan = j.plan, k.version = j.version, k.ref = j.ref,
         k.sum = j.sum, k.cached = j.cached, k.alone => j.alone,
         UNCHANGED <<tree, install, target, out>> \/ ~k.alone \/ ~OnIt(k.plan)
  PROVE  Fresh(k)'
<1>1. Tidy(k.plan, k.ref) /\ (k.cached => Lacks(k.plan, Dos({"cached"})))
  BY DEF Fresh
<1>2. ASSUME k.alone, ~k.cached PROVE TracedHere(k)'
  <2>1. TracedHere(j)
    BY <1>2 DEF Fresh
  <2>2. \A x \in Parts : \A t, c, u : Traced(j, x, t, c, u) => Traced(k, x, t, c, u)
    BY DEF Traced, AsAsked, Asked
  <2>3. TracedHere(k)
    BY <2>1, <2>2 DEF TracedHere
  <2>4. CASE UNCHANGED <<tree, install, target, out>>
    BY <2>3, <2>4 DEF TracedHere, Compiled
  <2>5. CASE ~OnIt(k.plan)
    <3>1. \A x \in Parts : k.sum[x] \in {None} \cup AsAsked(k, x)
      BY <2>3 DEF TracedHere, Traced
    <3>2. QED
      BY <2>5, <3>1, TracedOff DEF TracedHere
  <2>6. QED
    BY <1>2, <2>4, <2>5
<1>3. QED
  BY <1>1, <1>2 DEF Fresh

\* The command at the head of the plan is replaced, and neither has a part
\* in a build.
LEMMA FreshOnward ==
  ASSUME NEW j, NEW k, Fresh(j), Kept(j, k), j.plan \in Seq(Step), Len(j.plan) > 0,
         NEW s \in Step, s.do \notin BuilderDo, j.plan[1].do \notin BuilderDo,
         k.plan = [j.plan EXCEPT ![1] = s], UNCHANGED <<tree, install, target, out>>
  PROVE  Fresh(k)' /\ (OnIt(k.plan) => OnIt(j.plan))
<1> DEFINE p == j.plan
           q == [p EXCEPT ![1] = s]
<1>1. /\ Len(p) \in Nat /\ Len(p) > 0 /\ q \in Seq(Step) /\ Len(q) = Len(p) /\ q[1] = s
      /\ \A i \in 1..Len(p) : i # 1 => q[i] = p[i]
  BY LenProperties
<1>2. k.plan = q /\ p[1].do \notin BuilderDo
  OBVIOUS
<1>3. p = j.plan
  OBVIOUS
<1> HIDE DEF p, q
<1>4. ASSUME NEW C, C \subseteq BuilderDo, NEW T, T \subseteq Dos(C), NEW D, D \subseteq BuilderDo,
             NEW S, S \subseteq Dos(D)
      PROVE  /\ Lacks(p, T) => Lacks(q, T)
             /\ Clear(p, T, S) => Clear(q, T, S)
             /\ Waits(p, T, S) => Waits(q, T, S)
  <2>1. s \notin T /\ s \notin S /\ p[1] \notin T /\ p[1] \notin S
    BY <1>2, <1>4 DEF Dos
  <2>2. Lacks(p, T) => Lacks(q, T)
    BY <1>1, <2>1 DEF Lacks
  <2>3. Clear(p, T, S) => Clear(q, T, S)
    BY <1>1, <2>1 DEF Clear
  <2>4. ASSUME Waits(p, T, S), NEW i \in 1..Len(q), q[i] \in T PROVE \E m \in 1..i-1 : q[m] \in S
    <3>1. i # 1 /\ p[i] \in T /\ i \in 1..Len(p)
      BY <1>1, <2>1, <2>4
    <3>2. PICK m \in 1..i-1 : p[m] \in S
      BY <2>4, <3>1 DEF Waits
    <3>3. m # 1 /\ m \in 1..Len(p)
      BY <1>1, <2>1, <3>1, <3>2
    <3>4. QED
      BY <1>1, <3>2, <3>3
  <2>5. QED
    BY <2>2, <2>3, <2>4 DEF Waits
<1>5. /\ {"cached"} \subseteq BuilderDo /\ {"checkout"} \subseteq BuilderDo /\ {"fetch"} \subseteq BuilderDo
      /\ {"compile"} \subseteq BuilderDo /\ {"copy"} \subseteq BuilderDo /\ {"collect"} \subseteq BuilderDo
      /\ \A c, x : To(c, x) \subseteq Dos({c})
  BY DEF BuilderDo, Compiling, To
<1>6. Lacks(p, Dos({"cached"})) => Lacks(q, Dos({"cached"}))
  BY <1>4, <1>5
<1>7. Clear(p, Dos({"cached"}), Dos({"cached"})) => Clear(q, Dos({"cached"}), Dos({"cached"}))
  BY <1>4, <1>5
<1>8. Lacks(p, To("checkout", "geyser")) => Lacks(q, To("checkout", "geyser"))
  BY <1>4, <1>5
<1>9. /\ Tidy(k.plan, k.ref) /\ (k.cached => Lacks(k.plan, Dos({"cached"})))
  BY <1>2, <1>3, <1>6, <1>7, <1>8 DEF Fresh, Tidy, Kept
<1>10. ASSUME NEW x \in Parts, NEW t, NEW c, NEW u, Traced(j, x, t, c, u)
       PROVE  Traced(k, x, t, c, u)
  <2>1. Waits(p, To("compile", x), To("fetch", x)) => Waits(q, To("compile", x), To("fetch", x))
    BY <1>4, <1>5
  <2>2. Waits(p, To("compile", x), To("checkout", x)) => Waits(q, To("compile", x), To("checkout", x))
    BY <1>4, <1>5
  <2>3. Waits(p, To("copy", x), To("compile", x)) => Waits(q, To("copy", x), To("compile", x))
    BY <1>4, <1>5
  <2>4. Waits(p, To("collect", x), To("copy", x)) => Waits(q, To("collect", x), To("copy", x))
    BY <1>4, <1>5
  <2>5. Source(j.ref, x) = To("fetch", x) \/ Source(j.ref, x) = To("checkout", x)
    BY DEF Source
  <2>6. AsAsked(k, x) = AsAsked(j, x) /\ k.ref = j.ref /\ k.sum = j.sum
    BY DEF AsAsked, Asked, Kept
  <2>7. QED
    BY <1>2, <1>3, <1>10, <2>1, <2>2, <2>3, <2>4, <2>5, <2>6 DEF Traced
<1>11. ASSUME k.alone, ~k.cached PROVE TracedHere(k)'
  <2>1. TracedHere(j) /\ k.version = j.version
    BY <1>11 DEF Fresh, Kept
  <2>2. TracedHere(k)
    BY <1>10, <2>1 DEF TracedHere
  <2>3. QED
    BY <2>2 DEF TracedHere, Compiled
<1>12. OnIt(q) => OnIt(p)
  BY <1>1 DEF OnIt, BuilderDo
<1>13. QED
  BY <1>2, <1>3, <1>9, <1>11, <1>12 DEF Fresh

\* A new operation.
LEMMA FreshBegins ==
  ASSUME NEW k, Tidy(k.plan, k.ref), \A x \in Parts : InOrder(k.plan, k.ref, x),
         k.cached = FALSE, k.sum = NoSums
  PROVE  Fresh(k)'
<1>1. \A x \in Parts : k.sum[x] = None
  BY DEF NoSums
<1>2. TracedHere(k)'
  BY <1>1 DEF TracedHere, Traced, InOrder
<1>3. QED
  BY <1>2 DEF Fresh
-----------------------------------------------------------------------------
(* All operations. *)

\* A step of operator o, on the builder only if he had a part of a build to
\* do.
LEMMA FreshStep ==
  ASSUME FreshInv, Inv', SourcesOK', NEW o \in Operators, NEW j, job[o] = j, j # None, NEW k,
         job' = [job EXCEPT ![o] = k],
         k # None => Fresh(k)' /\ k.alone = j.alone /\ (OnIt(k.plan) => OnIt(j.plan)),
         UNCHANGED <<tree, install, target, out>> \/ OnIt(j.plan)
  PROVE  FreshInv'
<1>1. DOMAIN job = Operators
  BY DEF FreshInv, Inv, JobsOK
<1>2. job'[o] = k /\ \A x \in Operators : x # o => job'[x] = job[x]
  BY <1>1
<1>3. Exclusive'
  <2>1. ASSUME NEW x \in Operators, NEW y \in Operators, x # y, job'[x] # None, job'[y] # None,
               job'[x].alone, OnIt(job'[x].plan)
        PROVE  ~OnIt(job'[y].plan)
    <3>1. job[x] # None /\ job[y] # None
      BY <1>2, <2>1
    <3>2. job[x].alone /\ OnIt(job[x].plan) /\ (OnIt(job'[y].plan) => OnIt(job[y].plan))
      BY <1>2, <2>1
    <3>3. QED
      BY <2>1, <3>1, <3>2 DEF FreshInv, Exclusive
  <2>2. QED
    BY <2>1 DEF Exclusive
<1>4. ASSUME NEW x \in Operators, job'[x] # None PROVE Fresh(job[x])'
  <2>1. CASE x = o
    BY <1>2, <1>4, <2>1
  <2>2. CASE x # o
    <3>1. PICK i : i = job[x]
      OBVIOUS
    <3>2. job'[x] = i /\ i # None /\ Fresh(i)
      BY <1>2, <1>4, <2>2, <3>1 DEF FreshInv
    <3>3. UNCHANGED <<tree, install, target, out>> \/ ~i.alone \/ ~OnIt(i.plan)
      BY <2>2, <3>1, <3>2 DEF FreshInv, Exclusive
    <3>4. Fresh(i)'
      BY <3>2, <3>3, FreshWaits
    <3>5. QED
      BY <3>2, <3>4
  <2>3. QED
    BY <2>1, <2>2
<1>5. QED
  BY <1>3, <1>4 DEF FreshInv

\* A step that no operation takes.
LEMMA FreshIdle ==
  ASSUME FreshInv, Inv', UNCHANGED <<job, tree, install, target, out>>
  PROVE  FreshInv'
<1>1. SourcesOK' /\ Exclusive'
  BY DEF FreshInv, SourcesOK, Exclusive
<1>2. ASSUME NEW x \in Operators, job'[x] # None PROVE Fresh(job[x])'
  <2>1. PICK i : i = job[x]
    OBVIOUS
  <2>2. job'[x] = i /\ i # None /\ Fresh(i)
    BY <1>2, <2>1 DEF FreshInv
  <2>3. Fresh(i)'
    BY <2>2, FreshWaits
  <2>4. QED
    BY <2>2, <2>3
<1>3. QED
  BY <1>1, <1>2 DEF FreshInv

\* Operator o begins.
LEMMA FreshBegin ==
  ASSUME FreshInv, Inv', NEW o \in Operators, NEW j, j \in Runs \/ j \in Builds, Begin(o, j),
         job[o] = None, Tidy(j.plan, j.ref), \A x \in Parts : InOrder(j.plan, j.ref, x),
         j.cached = FALSE, j.sum = NoSums, UNCHANGED <<tree, install, target, out>>
  PROVE  FreshInv'
<1>1. DOMAIN job = Operators /\ DOMAIN job' = Operators
  BY DEF FreshInv, Inv, JobsOK
<1> DEFINE a == \A y \in DOMAIN job : ~Building(y)
<1>0. PICK k : k = [j EXCEPT !.alone = a]
  OBVIOUS
<1>2. /\ k.plan = j.plan /\ k.ref = j.ref /\ k.cached = j.cached /\ k.sum = j.sum
      /\ k.alone => a
  BY <1>0 DEF Runs, Builds
<1>3. job'[o] = k
  BY <1>0, <1>1 DEF Begin
<1>4. \A x \in Operators : job[x] # None => (Building(x) <=> OnIt(job[x].plan))
  <2>1. \A x \in Operators : job[x] # None => DOMAIN job[x].plan = 1..Len(job[x].plan)
    <3>1. \A x \in Operators : job[x] # None => job[x].plan \in Seq(Step)
      BY DEF FreshInv, Inv, JobsOK, RunOK, Ends, Operators
    <3>2. QED
      BY <3>1, LenProperties
  <2>2. QED
    BY <2>1 DEF Building, OnIt
<1>5. k.alone => \A x \in Operators : job[x] # None => ~OnIt(job[x].plan)
  BY <1>1, <1>2, <1>4
<1> HIDE DEF a
<1>6. ASSUME NEW x \in Operators, x # o, job'[x] # None
      PROVE  \E b \in BOOLEAN : /\ job[x] # None /\ job'[x] = [job[x] EXCEPT !.alone = b]
                                /\ b => job[x].alone /\ ~OnIt(job[x].plan)
  <2> DEFINE b == job[x].alone /\ ~Building(x)
  <2>1. job[x] # None /\ job'[x] = [job[x] EXCEPT !.alone = b] /\ b \in BOOLEAN
    BY <1>1, <1>6 DEF Begin
  <2>2. b => job[x].alone /\ ~OnIt(job[x].plan)
    BY <1>4, <2>1
  <2> HIDE DEF b
  <2>3. QED
    BY <2>1, <2>2
<1>7. ASSUME NEW x \in Operators, x # o, job'[x] # None
      PROVE  /\ job[x] # None /\ job'[x].plan = job[x].plan /\ Fresh(job[x])'
             /\ job'[x].alone => job[x].alone /\ ~OnIt(job[x].plan)
  <2>1. PICK b \in BOOLEAN : /\ job[x] # None /\ job'[x] = [job[x] EXCEPT !.alone = b]
                             /\ b => job[x].alone /\ ~OnIt(job[x].plan)
    BY <1>6, <1>7
  <2>2. PICK i, h : i = job[x] /\ h = job'[x]
    OBVIOUS
  <2>3. i \in Runs \/ i \in Builds
    BY <2>1, <2>2 DEF FreshInv, Inv, JobsOK, Operators
  <2>4. /\ h.plan = i.plan /\ h.version = i.version /\ h.ref = i.ref
        /\ h.sum = i.sum /\ h.cached = i.cached /\ h.alone = b
    BY <2>1, <2>2, <2>3 DEF Runs, Builds
  <2>5. Fresh(i)
    BY <2>1, <2>2 DEF FreshInv
  <2>6. Fresh(h)'
    BY <2>1, <2>2, <2>4, <2>5, FreshWaits
  <2>7. QED
    BY <2>1, <2>2, <2>4, <2>6
<1>8. Exclusive'
  <2>1. ASSUME NEW x \in Operators, NEW y \in Operators, x # y, job'[x] # None, job'[y] # None,
               job'[x].alone, OnIt(job'[x].plan)
        PROVE  ~OnIt(job'[y].plan)
    <3>1. x = o
      BY <1>7, <2>1
    <3>2. k.alone /\ job[y] # None /\ job'[y].plan = job[y].plan
      BY <1>3, <1>7, <2>1, <3>1
    <3>3. QED
      BY <1>5, <3>2
  <2>2. QED
    BY <2>1 DEF Exclusive
<1>9. Fresh(job[o])'
  <2>1. Fresh(k)'
    BY <1>2, FreshBegins
  <2>2. QED
    BY <1>3, <2>1
<1>10. SourcesOK'
  BY DEF FreshInv, SourcesOK
<1>11. QED
  BY <1>7, <1>8, <1>9, <1>10 DEF FreshInv
-----------------------------------------------------------------------------
(* The commands of a build. *)

\* The next command of operator o.
Doing(o, j, s) ==
  /\ job[o] = j /\ j # None /\ (j \in Runs \/ j \in Builds) /\ Fresh(j)
  /\ j.plan \in Seq(Step) /\ Len(j.plan) \in Nat /\ Len(j.plan) > 1 /\ 2 \in 1..Len(j.plan)
  /\ s \in Step /\ j.plan[1] = s /\ Head(j.plan) = s /\ Tail(j.plan) = From(j.plan, 2)
  /\ j.ref \in Refs \cup {None} /\ j.version \in Versions /\ Ends(j.plan)

LEMMA AtBuild ==
  ASSUME FreshInv, NEW o \in Operators, BuilderWork(o)
  PROVE  \E j : \E s : Doing(o, j, s) /\ s.part \in Parts
<1>1. PICK j : job[o] = j
  OBVIOUS
<1>2. j # None
  BY <1>1 DEF BuilderWork, Bootstrap, Cached, Fetch, Checkout, Compile, Copy, Collect, At
<1>3. (j \in Runs \/ j \in Builds) /\ Ends(j.plan) /\ Fresh(j)
  BY <1>1, <1>2 DEF FreshInv, Inv, JobsOK, RunOK, Operators
<1>4. Unfinished(j.plan, Step)
  BY <1>1, <1>3, WorkIsUnfinished
<1>5. /\ j.plan \in Seq(Step) /\ Len(j.plan) \in Nat /\ Len(j.plan) > 1 /\ Head(j.plan) = j.plan[1]
      /\ j.plan[1] \in Step /\ Head(j.plan).part \in Parts
  BY <1>3, <1>4, HeadIs DEF Unfinished
<1>6. Len(j.plan) > 0 /\ 2 \in 1..Len(j.plan)
  BY <1>5
<1>7. Tail(j.plan) = From(j.plan, 2)
  BY <1>5, <1>6, TailIsFrom
<1>8. j.ref \in Refs \cup {None} /\ j.version \in Versions
  BY <1>3 DEF Runs, Builds
<1>9. QED
  BY <1>1, <1>2, <1>3, <1>5, <1>6, <1>7, <1>8 DEF Doing

\* Command s does for part x of build j what it is for, and undoes nothing.
Serves(j, s, x) ==
  LET A == AsAsked(j, x) IN
  /\ (tree[x] \in A \/ s \in Source(j.ref, x)) => tree'[x] \in A
  /\ (IF s \in To("compile", x) THEN tree[x] \in A ELSE Compiled(j.version, x) \in A)
       => Compiled(j.version, x)' \in A
  /\ (IF s \in To("copy", x) THEN Compiled(j.version, x) \in A ELSE out[j.version][x] \in A)
       => out'[j.version][x] \in A

\* A command that succeeds takes the build on.
LEMMA FreshWorks ==
  ASSUME NEW o, NEW j, NEW s, Doing(o, j, s), NEW k, k.plan = Tail(j.plan),
         k.version = j.version, k.ref = j.ref, k.cached = j.cached, k.alone = j.alone,
         s.do \notin {"cached"}, \A x \in Parts : Serves(j, s, x),
         \A x \in Parts :
           k.sum[x] = j.sum[x]
           \/ (k.sum[x] \in {None, out[j.version][x]} /\ s \in To("collect", x))
  PROVE  Fresh(k)' /\ (OnIt(k.plan) => OnIt(j.plan))
<1>1. /\ Fresh(j) /\ j.plan \in Seq(Step) /\ Len(j.plan) \in Nat /\ Len(j.plan) > 1 /\ 2 \in 1..Len(j.plan)
      /\ k.plan = From(j.plan, 2) /\ j.plan[1] = s
  BY DEF Doing
<1>2. \A i \in 1..2-1 : i = 1
  OBVIOUS
<1>3. /\ Tidy(k.plan, k.ref)
      /\ k.cached => Lacks(k.plan, Dos({"cached"}))
  BY <1>1, Left DEF Fresh, Tidy
<1>4. ASSUME k.alone, ~k.cached PROVE TracedHere(k)'
  <2>1. ASSUME NEW x \in Parts
        PROVE  Traced(k, x, tree'[x], Compiled(k.version, x)', out'[k.version][x])
    <3>1. Traced(j, x, tree[x], Compiled(j.version, x), out[j.version][x])
      BY <1>1, <1>4 DEF Fresh, TracedHere
    <3>2. PICK t, c, u, t2, c2, u2 :
            /\ t = tree[x] /\ c = Compiled(j.version, x) /\ u = out[j.version][x]
            /\ t2 = tree'[x] /\ c2 = Compiled(j.version, x)' /\ u2 = out'[j.version][x]
      OBVIOUS
    <3> DEFINE A == AsAsked(j, x)
    <3>3. /\ (t \in A \/ s \in Source(j.ref, x)) => t2 \in A
          /\ (IF s \in To("compile", x) THEN t \in A ELSE c \in A) => c2 \in A
          /\ (IF s \in To("copy", x) THEN c \in A ELSE u \in A) => u2 \in A
      BY <3>2 DEF Serves
    <3>4. Traced(j, x, t, c, u)
      BY <3>1, <3>2
    <3>5. \A T, S : s \in T => ~ Waits(j.plan, T, S)
      BY <1>1, HeadWaits
    <3>6. /\ s \in To("compile", x) => t \in A
          /\ s \in To("copy", x) => c \in A
          /\ s \in To("collect", x) => u \in A
      BY <3>4, <3>5 DEF Traced
    <3>7. k.sum[x] \in {None} \cup A
      <4>1. j.sum[x] \in {None} \cup A
        BY <3>4 DEF Traced
      <4>2. QED
        BY <3>2, <3>6, <4>1
    <3>8. /\ (\E i \in 1..2-1 : j.plan[i] \in Source(j.ref, x)) => t2 \in A
          /\ (\E i \in 1..2-1 : j.plan[i] \in To("compile", x)) => c2 \in A
          /\ (\E i \in 1..2-1 : j.plan[i] \in To("copy", x)) => u2 \in A
      BY <1>1, <1>2, <3>3, <3>6
    <3>9. t \in A => t2 \in A
      BY <3>3
    <3>10. c \in A => c2 \in A
      BY <3>3, <3>6
    <3>11. u \in A => u2 \in A
      BY <3>3, <3>6
    <3>12. Traced(k, x, t2, c2, u2)
      BY <1>1, <3>4, <3>7, <3>8, <3>9, <3>10, <3>11, TracedMoves
    <3>13. QED
      BY <3>2, <3>12
  <2>2. QED
    BY <2>1 DEF TracedHere, Compiled
<1>5. OnIt(k.plan) => OnIt(j.plan)
  <2>1. /\ Len(k.plan) = Len(j.plan) - 2 + 1
        /\ \A i \in 1..Len(j.plan) - 2 + 1 : k.plan[i] = j.plan[2+i-1]
    BY <1>1, FromIsPlan
  <2>2. \A i \in 1..Len(k.plan) : 2+i-1 \in 1..Len(j.plan) /\ k.plan[i] = j.plan[2+i-1]
    BY <1>1, <2>1
  <2>3. QED
    BY <2>2 DEF OnIt
<1>6. QED
  BY <1>3, <1>4, <1>5 DEF Fresh

LEMMA ContinueIs ==
  ASSUME NEW o, NEW j, NEW s, Doing(o, j, s), NEW ok \in BOOLEAN, Continue(o, ok)
  PROVE  \E k : /\ job' = [job EXCEPT ![o] = k] /\ Kept(j, k)
                /\ k.plan = IF ok THEN Tail(j.plan) ELSE <<Do("finish")>>
<1>1. job[o] = j /\ (j \in Runs \/ j \in Builds)
  BY DEF Doing
<1>2. CASE ok
  <2> DEFINE k == [j EXCEPT !.plan = Tail(j.plan), !.ok = j.ok /\ ok]
  <2>1. job' = [job EXCEPT ![o] = k]
    BY <1>1, <1>2 DEF Continue, Proceed
  <2>2. Kept(j, k) /\ k.plan = Tail(j.plan)
    BY <1>1 DEF Kept, Runs, Builds
  <2>3. QED
    BY <1>2, <2>1, <2>2
<1>3. CASE ~ok
  <2> DEFINE k == [j EXCEPT !.plan = <<Do("finish")>>, !.ok = FALSE]
  <2>1. job' = [job EXCEPT ![o] = k]
    BY <1>1, <1>3 DEF Continue, GiveUp
  <2>2. Kept(j, k) /\ k.plan = <<Do("finish")>>
    BY <1>1 DEF Kept, Runs, Builds
  <2>3. QED
    BY <1>3, <2>1, <2>2
<1>4. QED
  BY <1>2, <1>3

\* A command that builds.
LEMMA FreshCommand ==
  ASSUME FreshInv, Inv', SourcesOK', NEW o \in Operators, NEW j, NEW s, Doing(o, j, s),
         s.do \in Compiling, NEW ok \in BOOLEAN, Continue(o, ok),
         ok => \A x \in Parts : Serves(j, s, x)
  PROVE  FreshInv'
<1>1. /\ job[o] = j /\ j # None /\ Fresh(j) /\ j.plan[1] = s
      /\ Len(j.plan) \in Nat /\ Len(j.plan) > 1
  BY DEF Doing
<1>2. PICK k : /\ job' = [job EXCEPT ![o] = k] /\ Kept(j, k)
               /\ k.plan = IF ok THEN Tail(j.plan) ELSE <<Do("finish")>>
  BY ContinueIs
<1>3. Fresh(k)' /\ (OnIt(k.plan) => OnIt(j.plan))
  <2>1. CASE ok
    <3>1. k.plan = Tail(j.plan) /\ \A x \in Parts : Serves(j, s, x)
      BY <1>2, <2>1
    <3>2. /\ k.version = j.version /\ k.ref = j.ref /\ k.cached = j.cached /\ k.alone = j.alone
          /\ k.sum = j.sum /\ s.do \notin {"cached"}
      BY <1>2 DEF Kept, Compiling
    <3>3. QED
      BY <3>1, <3>2, FreshWorks
  <2>2. CASE ~ok
    BY <1>1, <1>2, <2>2, FreshEnds
  <2>3. QED
    BY <2>1, <2>2
<1>4. OnIt(j.plan)
  BY <1>1 DEF OnIt
<1>5. k.alone = j.alone
  BY <1>2 DEF Kept
<1>6. QED
  BY <1>1, <1>2, <1>3, <1>4, <1>5, FreshStep

LEMMA AskedIs ==
  ASSUME NEW j, j.version \in Versions, j.ref \in Refs \cup {None}, NEW x
  PROVE  /\ None \notin AsAsked(j, x)
         /\ Asked(j, x) # None => Asked(j, x) \in AsAsked(j, x)
         /\ (x # "geyser" \/ j.ref # None) /\ x \in Parts => Asked(j, x) # None
         /\ x = "geyser" /\ j.ref = None => AsAsked(j, x) = Refs \cup {DefaultHead}
<1>1. None \notin Versions /\ None \notin Refs /\ None # DefaultHead
  BY BuilderAssumption
<1>2. x \in Parts => x = "binary" \/ x = "geyser"
  BY DEF Parts
<1>3. QED
  BY <1>1, <1>2 DEF AsAsked, Asked

LEMMA HereIs ==
  ASSUME FreshInv
  PROVE  /\ DOMAIN tree = Parts /\ DOMAIN out = Versions /\ DOMAIN install = Versions
         /\ \A v \in Versions : DOMAIN out[v] = Parts
BY DEF FreshInv, Inv, HostOK, BuilderTypeOK

LEMMA FreshFetch ==
  ASSUME FreshInv, Inv', NEW o \in Operators, Fetch(o)
  PROVE  FreshInv'
<1>1. PICK j, s : Doing(o, j, s) /\ s.part \in Parts
  BY AtBuild DEF BuilderWork
<1> DEFINE p == s.part
<1>2. s.do = "fetch" /\ s \in Step
  BY <1>1 DEF Fetch, At, Doing
<1>3. PICK ok \in BOOLEAN, done_ \in BOOLEAN :
        /\ ok => done_
        /\ tree' = IF done_ /\ tree[p] = None THEN [tree EXCEPT ![p] = DefaultHead] ELSE tree
        /\ Continue(o, ok)
  BY <1>1 DEF Fetch, Doing, Effect
<1>4. UNCHANGED <<install, target, out>>
  BY DEF Fetch
<1>5. \A x \in Parts : tree'[x] = IF x = p /\ done_ /\ tree[x] = None THEN DefaultHead ELSE tree[x]
  BY <1>1, <1>3, HereIs
<1>6. j.version \in Versions /\ j.ref \in Refs \cup {None}
  BY <1>1 DEF Doing
<1>7. ASSUME ok, NEW x \in Parts PROVE Serves(j, s, x)
  <2>1. tree[x] \in AsAsked(j, x) => tree'[x] \in AsAsked(j, x)
    BY <1>5, <1>6, AskedIs
  <2>2. ASSUME s \in Source(j.ref, x) PROVE tree'[x] \in AsAsked(j, x)
    <3>1. x = "geyser" /\ j.ref = None /\ s.part = x
      BY <1>2, <2>2 DEF Source, To, Dos
    <3>2. AsAsked(j, x) = Refs \cup {DefaultHead}
      BY <1>6, <3>1, AskedIs
    <3>3. tree[x] \in Refs \cup {DefaultHead, None}
      BY <3>1 DEF FreshInv, SourcesOK
    <3>4. QED
      BY <1>3, <1>5, <1>7, <3>1, <3>2, <3>3
  <2>3. s \notin To("compile", x) /\ s \notin To("copy", x)
    BY <1>2 DEF To, Dos
  <2>4. Compiled(j.version, x)' = Compiled(j.version, x) /\ out'[j.version][x] = out[j.version][x]
    BY <1>4 DEF Compiled
  <2>5. QED
    BY <2>1, <2>2, <2>3, <2>4 DEF Serves
<1>8. SourcesOK'
  BY <1>5 DEF FreshInv, SourcesOK
<1>9. s.do \in Compiling
  BY <1>2 DEF Compiling
<1>10. QED
  BY <1>1, <1>3, <1>7, <1>8, <1>9, FreshCommand

LEMMA FreshCheckout ==
  ASSUME FreshInv, Inv', NEW o \in Operators, Checkout(o)
  PROVE  FreshInv'
<1>1. PICK j, s : Doing(o, j, s) /\ s.part \in Parts
  BY AtBuild DEF BuilderWork
<1> DEFINE p == s.part
<1>2. s.do = "checkout" /\ s \in Step
  BY <1>1 DEF Checkout, At, Doing
<1>3. PICK ok \in BOOLEAN, done_ \in BOOLEAN :
        /\ ok => done_
        /\ tree' = IF done_ THEN [tree EXCEPT ![p] = Asked(j, p)] ELSE tree
        /\ Continue(o, ok)
  BY <1>1 DEF Checkout, Doing, Effect
<1>4. UNCHANGED <<install, target, out>>
  BY DEF Checkout
<1>5. \A x \in Parts : tree'[x] = IF x = p /\ done_ THEN Asked(j, x) ELSE tree[x]
  BY <1>1, <1>3, HereIs
<1>6. j.version \in Versions /\ j.ref \in Refs \cup {None}
  BY <1>1 DEF Doing
<1>7. p # "geyser" \/ j.ref # None
  <2>1. s \in To("checkout", p) /\ 1 \in 1..Len(j.plan) /\ j.plan[1] = s
    BY <1>1, <1>2 DEF To, Dos, Doing
  <2>2. j.ref = None => Lacks(j.plan, To("checkout", "geyser"))
    BY <1>1 DEF Doing, Fresh, Tidy
  <2>3. QED
    BY <2>1, <2>2 DEF Lacks
<1>8. Asked(j, p) # None /\ Asked(j, p) \in AsAsked(j, p)
  BY <1>1, <1>6, <1>7, AskedIs
<1>9. ASSUME ok, NEW x \in Parts PROVE Serves(j, s, x)
  <2>1. (tree[x] \in AsAsked(j, x) \/ s \in Source(j.ref, x)) => tree'[x] \in AsAsked(j, x)
    <3>1. s \in Source(j.ref, x) => x = p
      BY DEF Source, To
    <3>2. QED
      BY <1>3, <1>5, <1>8, <1>9, <3>1
  <2>2. s \notin To("compile", x) /\ s \notin To("copy", x)
    BY <1>2 DEF To, Dos
  <2>3. Compiled(j.version, x)' = Compiled(j.version, x) /\ out'[j.version][x] = out[j.version][x]
    BY <1>4 DEF Compiled
  <2>4. QED
    BY <2>1, <2>2, <2>3 DEF Serves
<1>10. SourcesOK'
  <2>1. p = "geyser" => Asked(j, p) \in Refs
    BY <1>6, <1>7 DEF Asked
  <2>2. QED
    BY <1>5, <2>1 DEF FreshInv, SourcesOK
<1>11. s.do \in Compiling
  BY <1>2 DEF Compiling
<1>12. QED
  BY <1>1, <1>3, <1>9, <1>10, <1>11, FreshCommand

LEMMA FreshCompile ==
  ASSUME FreshInv, Inv', NEW o \in Operators, Compile(o)
  PROVE  FreshInv'
<1>1. PICK j, s : Doing(o, j, s) /\ s.part \in Parts
  BY AtBuild DEF BuilderWork
<1> DEFINE p == s.part
<1>2. s.do = "compile" /\ s \in Step
  BY <1>1 DEF Compile, At, Doing
<1>3. PICK ok \in BOOLEAN, done_ \in BOOLEAN :
        /\ ok => done_
        /\ install' = IF done_ /\ p = "binary" THEN [install EXCEPT ![j.version] = tree[p]] ELSE install
        /\ target' = IF done_ /\ p = "geyser" THEN tree[p] ELSE target
        /\ Continue(o, ok)
  BY <1>1 DEF Compile, Doing, Effect
<1>4. UNCHANGED <<tree, out>>
  BY DEF Compile
<1>5. j.version \in Versions
  BY <1>1 DEF Doing
<1>6. \A x \in Parts : Compiled(j.version, x)' = IF x = p /\ done_ THEN tree[x] ELSE Compiled(j.version, x)
  <2>1. \A x \in Parts : x = "binary" \/ x = "geyser"
    BY DEF Parts
  <2>2. install'[j.version] = IF done_ /\ p = "binary" THEN tree[p] ELSE install[j.version]
    BY <1>3, <1>5, HereIs
  <2>3. QED
    BY <1>1, <1>3, <2>1, <2>2 DEF Compiled
<1>7. ASSUME ok, NEW x \in Parts PROVE Serves(j, s, x)
  <2>1. s \notin To("copy", x) /\ s \notin Source(j.ref, x)
    BY <1>2 DEF To, Dos, Source
  <2>2. s \in To("compile", x) => x = p
    BY DEF To
  <2>3. tree'[x] = tree[x] /\ out'[j.version][x] = out[j.version][x]
    BY <1>4
  <2>4. CASE x # p
    BY <1>6, <2>1, <2>2, <2>3, <2>4 DEF Serves
  <2>5. CASE x = p
    <3>1. s \in To("compile", x)
      BY <1>2, <2>5 DEF To, Dos
    <3>2. Compiled(j.version, x)' = tree[x]
      BY <1>3, <1>6, <1>7, <2>5
    <3>3. QED
      BY <2>1, <2>3, <3>1, <3>2 DEF Serves
  <2>6. QED
    BY <2>4, <2>5
<1>8. SourcesOK'
  BY <1>4 DEF FreshInv, SourcesOK
<1>9. s.do \in Compiling
  BY <1>2 DEF Compiling
<1>10. QED
  BY <1>1, <1>3, <1>7, <1>8, <1>9, FreshCommand

LEMMA FreshCopy ==
  ASSUME FreshInv, Inv', NEW o \in Operators, Copy(o)
  PROVE  FreshInv'
<1>1. PICK j, s : Doing(o, j, s) /\ s.part \in Parts
  BY AtBuild DEF BuilderWork
<1> DEFINE p == s.part
           v == j.version
<1>2. s.do = "copy" /\ s \in Step
  BY <1>1 DEF Copy, At, Doing
<1>3. PICK ok \in BOOLEAN, content \in Content \cup {None} :
        /\ content \in IF ok THEN {Compiled(v, p)} ELSE {Compiled(v, p), Bad, out[v][p]}
        /\ out' = [out EXCEPT ![v][p] = content]
        /\ Continue(o, ok)
  BY <1>1 DEF Copy, Doing
<1>4. UNCHANGED <<tree, install, target>>
  BY DEF Copy
<1>5. v \in Versions
  BY <1>1 DEF Doing
<1>6. \A x \in Parts : out'[v][x] = IF x = p THEN content ELSE out[v][x]
  BY <1>1, <1>3, <1>5, HereIs
<1>7. ASSUME ok, NEW x \in Parts PROVE Serves(j, s, x)
  <2>1. s \notin To("compile", x) /\ s \notin Source(j.ref, x)
    BY <1>2 DEF To, Dos, Source
  <2>2. s \in To("copy", x) <=> x = p
    BY <1>2 DEF To, Dos
  <2>3. tree'[x] = tree[x] /\ Compiled(v, x)' = Compiled(v, x)
    BY <1>4 DEF Compiled
  <2>4. out'[v][x] = IF x = p THEN Compiled(v, p) ELSE out[v][x]
    BY <1>3, <1>6, <1>7
  <2>5. QED
    BY <2>1, <2>2, <2>3, <2>4 DEF Serves
<1>8. SourcesOK'
  BY <1>4 DEF FreshInv, SourcesOK
<1>9. s.do \in Compiling
  BY <1>2 DEF Compiling
<1>10. QED
  BY <1>1, <1>3, <1>7, <1>8, <1>9, FreshCommand

LEMMA FreshCollect ==
  ASSUME FreshInv, Inv', NEW o \in Operators, Collect(o)
  PROVE  FreshInv'
<1>1. PICK j, s : Doing(o, j, s) /\ s.part \in Parts
  BY AtBuild DEF BuilderWork
<1> DEFINE p == s.part
           v == j.version
<1>2. /\ s.do = "collect" /\ s \in Step /\ job[o] = j /\ j # None
      /\ (j \in Runs \/ j \in Builds) /\ Fresh(j)
      /\ j.plan[1] = s /\ 1 \in 1..Len(j.plan)
  BY <1>1 DEF Collect, At, Doing
<1>3. PICK ok \in BOOLEAN :
        job' = [job EXCEPT ![o].plan = Tail(@), ![o].sum[p] = IF ok THEN out[v][p] ELSE None]
  BY <1>1 DEF Collect, Doing
<1>4. PICK c : c = IF ok THEN out[v][p] ELSE None
  OBVIOUS
<1>5. PICK k : k = [j EXCEPT !.plan = Tail(j.plan), !.sum = [j.sum EXCEPT ![p] = c]]
  OBVIOUS
<1>6. job' = [job EXCEPT ![o] = k]
  BY <1>2, <1>3, <1>4, <1>5
<1>7. /\ k.plan = Tail(j.plan) /\ k.version = j.version /\ k.ref = j.ref
      /\ k.cached = j.cached /\ k.alone = j.alone /\ k.sum = [j.sum EXCEPT ![p] = c]
  BY <1>2, <1>5 DEF Runs, Builds
<1>8. \A x \in Parts : k.sum[x] = IF x = p THEN c ELSE j.sum[x]
  BY <1>2, <1>7 DEF Runs, Builds
<1>9. UNCHANGED <<tree, install, target, out>>
  BY DEF Collect, builderVars
<1>10. ASSUME NEW x \in Parts PROVE Serves(j, s, x)
  <2>1. s \notin To("compile", x) /\ s \notin Source(j.ref, x) /\ s \notin To("copy", x)
    BY <1>2 DEF To, Dos, Source
  <2>2. Compiled(v, x)' = Compiled(v, x)
    BY <1>9 DEF Compiled
  <2>3. QED
    BY <1>9, <2>1, <2>2 DEF Serves
<1>11. ASSUME NEW x \in Parts
       PROVE  k.sum[x] = j.sum[x] \/ (k.sum[x] \in {None, out[v][x]} /\ s \in To("collect", x))
  <2>1. s \in To("collect", p)
    BY <1>2 DEF To, Dos
  <2>2. QED
    BY <1>4, <1>8, <2>1
<1>12. Fresh(k)' /\ (OnIt(k.plan) => OnIt(j.plan))
  <2>1. s.do \notin {"cached"}
    BY <1>2
  <2>2. QED
    BY <1>1, <1>7, <1>10, <1>11, <2>1, FreshWorks
<1>13. SourcesOK'
  BY <1>9 DEF FreshInv, SourcesOK
<1>14. QED
  BY <1>2, <1>6, <1>7, <1>9, <1>12, <1>13, FreshStep

\* The cache is looked up, or the toolchain is installed.
LEMMA FreshCached ==
  ASSUME FreshInv, Inv', NEW o \in Operators, Cached(o)
  PROVE  FreshInv'
<1>1. PICK j, s : Doing(o, j, s) /\ s.part \in Parts
  BY AtBuild DEF BuilderWork
<1>2. /\ s.do = "cached" /\ s \in Step /\ job[o] = j /\ j # None
      /\ (j \in Runs \/ j \in Builds) /\ Fresh(j) /\ Ends(j.plan)
      /\ j.plan[1] = s /\ j.plan \in Seq(Step) /\ Len(j.plan) \in Nat /\ Len(j.plan) > 1
  BY <1>1 DEF Cached, At, Doing
<1>3. PICK hit \in BOOLEAN :
        job' = [job EXCEPT ![o].cached = hit,
                           ![o].plan = IF hit THEN Skip(Tail(@), Compiling) ELSE Tail(@)]
  BY DEF Cached
<1>4. PICK q : q = IF hit THEN Skip(Tail(j.plan), Compiling) ELSE Tail(j.plan)
  OBVIOUS
<1>5. PICK k : k = [j EXCEPT !.cached = hit, !.plan = q]
  OBVIOUS
<1>6. job' = [job EXCEPT ![o] = k]
  BY <1>2, <1>3, <1>4, <1>5
<1>7. /\ k.plan = q /\ k.version = j.version /\ k.ref = j.ref /\ k.sum = j.sum
      /\ k.cached = hit /\ k.alone = j.alone
  BY <1>2, <1>5 DEF Runs, Builds
<1>8. UNCHANGED <<tree, install, target, out>>
  BY DEF Cached, builderVars
<1>9. PICK m \in 2..Len(j.plan) :
        q = From(j.plan, m) /\ (~hit => \A i \in 1..m-1 : j.plan[i].do \notin Compiling)
  <2>1. CASE ~hit
    <3>1. q = From(j.plan, 2) /\ 2 \in 2..Len(j.plan)
      BY <1>1, <1>2, <1>4, <2>1 DEF Doing
    <3>2. \A i \in 1..2-1 : j.plan[i].do \notin Compiling
      BY <1>2 DEF Compiling
    <3>3. QED
      BY <3>1, <3>2
  <2>2. CASE hit
    <3>1. q = Skip(Tail(j.plan), Compiling)
      BY <1>4, <2>2
    <3>2. Unfinished(j.plan, Step)
      BY <1>2, WorkIsUnfinished DEF BuilderWork
    <3>3. \E m \in 2..Len(j.plan) : Skip(Tail(j.plan), Compiling) = From(j.plan, m)
      BY <3>2, HitIsFrom
    <3>4. QED
      BY <2>2, <3>1, <3>3
  <2>3. QED
    BY <2>1, <2>2
<1>10. ~j.cached
  <2>1. s \in Dos({"cached"}) /\ 1 \in 1..Len(j.plan)
    BY <1>2 DEF Dos
  <2>2. QED
    BY <1>2, <2>1 DEF Fresh, Lacks
<1>11. Fresh(k)' /\ (OnIt(k.plan) => OnIt(j.plan))
  <2>1. m \in 1..Len(j.plan) /\ 1 \in 1..m-1 /\ j.plan[1] \in Dos({"cached"})
    BY <1>2, <1>9 DEF Dos
  <2>2. \E i \in 1..m-1 : j.plan[i] \in Dos({"cached"})
    BY <2>1
  <2>3. ~k.cached => ~j.cached /\ \A i \in 1..m-1 : j.plan[i].do \notin Compiling
    BY <1>7, <1>9, <1>10
  <2>4. k.plan = From(j.plan, m)
    BY <1>7, <1>9
  <2>5. QED
    BY <1>2, <1>7, <1>8, <2>1, <2>2, <2>3, <2>4, FreshMoves
<1>12. SourcesOK'
  BY <1>8 DEF FreshInv, SourcesOK
<1>13. QED
  BY <1>2, <1>6, <1>7, <1>8, <1>11, <1>12, FreshStep

LEMMA FreshBootstrap ==
  ASSUME FreshInv, Inv', NEW o \in Operators, Bootstrap(o)
  PROVE  FreshInv'
<1>1. PICK j, s : Doing(o, j, s) /\ s.part \in Parts
  BY AtBuild DEF BuilderWork
<1>2. /\ s.do = "bootstrap" /\ job[o] = j /\ j # None
      /\ (j \in Runs \/ j \in Builds) /\ Fresh(j) /\ j.plan \in Seq(Step) /\ 2 \in 1..Len(j.plan)
      /\ j.plan[1] = s /\ Tail(j.plan) = From(j.plan, 2)
  BY <1>1 DEF Bootstrap, At, Doing
<1>3. PICK ok \in BOOLEAN : Proceed(o, ok)
  BY DEF Bootstrap
<1>4. PICK k : k = [j EXCEPT !.plan = Tail(j.plan), !.ok = j.ok /\ ok]
  OBVIOUS
<1>5. job' = [job EXCEPT ![o] = k]
  BY <1>2, <1>3, <1>4 DEF Proceed
<1>6. k.plan = From(j.plan, 2) /\ Kept(j, k)
  BY <1>2, <1>4 DEF Kept, Runs, Builds
<1>7. UNCHANGED <<tree, install, target, out>>
  BY DEF Bootstrap
<1>8. Fresh(k)' /\ (OnIt(k.plan) => OnIt(j.plan))
  <2>1. \A i \in 1..2-1 : j.plan[i].do \notin Compiling
    BY <1>2 DEF Compiling
  <2>2. QED
    BY <1>2, <1>6, <1>7, <2>1, FreshMoves DEF Kept
<1>9. SourcesOK'
  BY <1>7 DEF FreshInv, SourcesOK
<1>10. QED
  BY <1>2, <1>5, <1>6, <1>7, <1>8, <1>9, FreshStep DEF Kept
-----------------------------------------------------------------------------
(* The commands on the host. *)

LEMMA FreshRun ==
  ASSUME FreshInv, Inv', NEW o \in Provisioners, NEW j \in Runs, job[o] = j, j # None, NEW k,
         job' = [job EXCEPT ![o] = k], UNCHANGED builderVars,
         k = None \/ Kept(j, k),
         \/ k = None
         \/ \E m \in 1..Len(j.plan) : /\ k.plan = From(j.plan, m)
                                      /\ \A i \in 1..m-1 : j.plan[i].do \notin BuilderDo
         \/ \E s \in Step : /\ s.do \notin BuilderDo /\ j.plan[1].do \notin BuilderDo
                            /\ k.plan = [j.plan EXCEPT ![1] = s]
  PROVE  FreshInv'
<1>1. o \in Operators /\ Fresh(j) /\ RunOK(j)
  BY DEF FreshInv, Inv, JobsOK, Operators
<1>2. j.plan \in Seq(Step) /\ Len(j.plan) > 0
  BY <1>1, HeadIs DEF RunOK
<1>3. UNCHANGED <<tree, install, target, out>>
  BY DEF builderVars
<1>4. ASSUME k # None PROVE Fresh(k)' /\ k.alone = j.alone /\ (OnIt(k.plan) => OnIt(j.plan))
  <2>1. Kept(j, k)
    BY <1>4
  <2>2. ASSUME NEW m \in 1..Len(j.plan), k.plan = From(j.plan, m),
               \A i \in 1..m-1 : j.plan[i].do \notin BuilderDo
        PROVE  Fresh(k)' /\ (OnIt(k.plan) => OnIt(j.plan))
    <3>1. \A i \in 1..m-1 : j.plan[i].do \notin Compiling
      BY <2>2 DEF BuilderDo
    <3>2. QED
      BY <1>1, <1>2, <1>3, <2>1, <2>2, <3>1, FreshMoves DEF Kept
  <2>3. ASSUME NEW s \in Step, s.do \notin BuilderDo, j.plan[1].do \notin BuilderDo,
               k.plan = [j.plan EXCEPT ![1] = s]
        PROVE  Fresh(k)' /\ (OnIt(k.plan) => OnIt(j.plan))
    BY <1>1, <1>2, <1>3, <2>1, <2>3, FreshOnward
  <2>4. QED
    BY <1>4, <2>1, <2>2, <2>3 DEF Kept
<1>5. SourcesOK'
  BY <1>3 DEF FreshInv, SourcesOK
<1>6. QED
  BY <1>1, <1>3, <1>4, <1>5, FreshStep

\* The next command is one on the host, and is done with.
LEMMA FreshTail ==
  ASSUME FreshInv, Inv', NEW o \in Provisioners, NEW j \in Runs, job[o] = j, NEW c, At(o, c),
         c \notin BuilderDo, c # "finish", NEW k, job' = [job EXCEPT ![o] = k],
         UNCHANGED builderVars, Kept(j, k), k.plan = Tail(j.plan)
  PROVE  FreshInv'
<1>1. /\ j # None /\ j.plan \in Seq(Step) /\ j.plan[1].do = c
      /\ Len(j.plan) \in Nat /\ Len(j.plan) > 1
  <2>1. Inv
    BY DEF FreshInv
  <2>2. QED
    BY <2>1, AtRun
<1>2. Len(j.plan) > 0 /\ 2 \in 1..Len(j.plan)
  BY <1>1
<1>3. k.plan = From(j.plan, 2)
  BY <1>1, <1>2, TailIsFrom
<1>4. \A i \in 1..2-1 : j.plan[i].do \notin BuilderDo
  BY <1>1
<1>5. QED
  BY <1>1, <1>2, <1>3, <1>4, FreshRun

LEMMA RunAt ==
  ASSUME FreshInv, NEW o \in Provisioners, NEW c, At(o, c)
  PROVE  \E j \in Runs : job[o] = j /\ j # None
BY DEF At, FreshInv, Inv, JobsOK

LEMMA FreshProceed ==
  ASSUME FreshInv, Inv', NEW o \in Provisioners, NEW c, At(o, c), c \notin BuilderDo,
         c # "finish", NEW ok \in BOOLEAN, Proceed(o, ok), UNCHANGED builderVars
  PROVE  FreshInv'
<1>1. PICK j \in Runs : job[o] = j /\ j # None
  BY RunAt
<1>2. PICK k : k = [j EXCEPT !.plan = Tail(j.plan), !.ok = j.ok /\ ok]
  OBVIOUS
<1>3. job' = [job EXCEPT ![o] = k]
  BY <1>1, <1>2 DEF Proceed
<1>4. Kept(j, k) /\ k.plan = Tail(j.plan)
  BY <1>2 DEF Kept, Runs
<1>5. QED
  BY <1>1, <1>3, <1>4, FreshTail

LEMMA FreshGone ==
  ASSUME FreshInv, Inv', NEW o \in Operators, job[o] # None, NEW k, k = None,
         job' = [job EXCEPT ![o] = k], UNCHANGED builderVars
  PROVE  FreshInv'
<1>1. UNCHANGED <<tree, install, target, out>>
  BY DEF builderVars
<1>2. SourcesOK'
  BY <1>1 DEF FreshInv, SourcesOK
<1>3. PICK j : job[o] = j
  OBVIOUS
<1>4. j # None
  BY <1>3
<1>5. ASSUME NEW h, job' = [job EXCEPT ![o] = h],
             h # None => Fresh(h)' /\ h.alone = j.alone /\ (OnIt(h.plan) => OnIt(j.plan))
      PROVE  FreshInv'
  BY <1>1, <1>2, <1>3, <1>4, <1>5, FreshStep
<1>6. QED
  BY <1>5

LEMMA FreshFinished ==
  ASSUME FreshInv, Inv', NEW o \in Provisioners, job[o] # None, NEW b, Finished(o, b),
         UNCHANGED builderVars
  PROVE  FreshInv'
<1>1. PICK k : k = None
  OBVIOUS
<1>2. o \in Operators /\ job' = [job EXCEPT ![o] = k]
  BY <1>1 DEF Finished, Operators
<1>3. QED
  BY <1>1, <1>2, FreshGone

LEMMA FreshDiskFails ==
  ASSUME FreshInv, Inv', NEW o \in Provisioners, NEW c \in {"mkfs", "mount"}, At(o, c),
         DiskFails(o), UNCHANGED builderVars
  PROVE  FreshInv'
<1>1. PICK j \in Runs : job[o] = j /\ j # None
  BY RunAt
<1>2. PICK k : k = [j EXCEPT !.plan = Tail(j.plan), !.disks_ok = FALSE]
  OBVIOUS
<1>3. job' = [job EXCEPT ![o] = k]
  BY <1>1, <1>2 DEF DiskFails
<1>4. Kept(j, k) /\ k.plan = Tail(j.plan)
  BY <1>2 DEF Kept, Runs
<1>5. c \notin BuilderDo /\ c # "finish"
  BY DEF BuilderDo, Compiling
<1>6. QED
  BY <1>1, <1>3, <1>4, <1>5, FreshTail

LEMMA FreshProbe ==
  ASSUME FreshInv, Inv', NEW o \in Provisioners, Probe(o)
  PROVE  FreshInv'
<1>1. At(o, "probe") /\ UNCHANGED builderVars
  BY DEF Probe
<1>2. PICK j \in Runs : job[o] = j /\ j # None
  BY <1>1, RunAt
<1>3. /\ j.plan \in Seq(Step) /\ Head(j.plan) = j.plan[1] /\ j.plan[1] \in Step
      /\ j.plan[1].do = "probe" /\ Len(j.plan) \in Nat /\ Len(j.plan) > 1
  <2>1. Inv
    BY DEF FreshInv
  <2>2. QED
    BY <1>1, <1>2, <2>1, AtRun
<1> DEFINE d == j.plan[1].part
           next == IF d \in j.format THEN "mkfs" ELSE "mount"
<1>4. PICK answered \in BOOLEAN, empty \in BOOLEAN :
        job' = [job EXCEPT
          ![o].plan = IF MaySetUp(j, d, empty) THEN Onward(@, next) ELSE Tail(@),
          ![o].disks_ok = @ /\ MaySetUp(j, d, empty),
          ![o].blind = IF answered THEN @ ELSE @ \cup {d}]
  BY <1>2, <1>3 DEF Probe
<1>5. PICK q : q = IF MaySetUp(j, d, empty) THEN Onward(j.plan, next) ELSE Tail(j.plan)
  OBVIOUS
<1>6. PICK k : k = [j EXCEPT !.plan = q, !.disks_ok = j.disks_ok /\ MaySetUp(j, d, empty),
                             !.blind = IF answered THEN j.blind ELSE j.blind \cup {d}]
  OBVIOUS
<1>7. job' = [job EXCEPT ![o] = k]
  BY <1>2, <1>4, <1>5, <1>6
<1>8. Kept(j, k) /\ k.plan = q
  BY <1>6 DEF Kept, Runs
<1>9. CASE MaySetUp(j, d, empty)
  <2>1. q = [j.plan EXCEPT ![1] = [do |-> next, part |-> d]]
    BY <1>3, <1>5, <1>9 DEF Onward, On
  <2>2. [do |-> next, part |-> d] \in Step
    BY <1>3, PartIs DEF Step, Blocks
  <2>3. next \notin BuilderDo /\ j.plan[1].do \notin BuilderDo
    BY <1>3 DEF BuilderDo, Compiling
  <2>4. PICK s \in Step : s = [do |-> next, part |-> d] /\ s.do = next
    BY <2>2
  <2>5. s.do \notin BuilderDo /\ k.plan = [j.plan EXCEPT ![1] = s]
    BY <1>8, <2>1, <2>3, <2>4
  <2>6. QED
    BY <1>1, <1>2, <1>7, <1>8, <2>3, <2>5, FreshRun
<1>10. CASE ~MaySetUp(j, d, empty)
  <2>1. k.plan = Tail(j.plan) /\ "probe" \notin BuilderDo
    BY <1>5, <1>8, <1>10 DEF BuilderDo, Compiling
  <2>2. QED
    BY <1>1, <1>2, <1>7, <1>8, <2>1, FreshTail
<1>11. QED
  BY <1>9, <1>10

LEMMA FreshMkfs ==
  ASSUME FreshInv, Inv', NEW o \in Provisioners, Mkfs(o)
  PROVE  FreshInv'
<1>1. At(o, "mkfs") /\ UNCHANGED builderVars
  BY DEF Mkfs
<1>2. PICK j \in Runs : job[o] = j /\ j # None
  BY <1>1, RunAt
<1>3. /\ j.plan \in Seq(Step) /\ Head(j.plan) = j.plan[1] /\ j.plan[1] \in Step
      /\ j.plan[1].do = "mkfs" /\ Len(j.plan) \in Nat /\ Len(j.plan) > 1
  <2>1. Inv
    BY DEF FreshInv
  <2>2. QED
    BY <1>1, <1>2, <2>1, AtRun
<1>4. job' = [job EXCEPT ![o].plan = Onward(@, "mount")] \/ DiskFails(o)
  BY DEF Mkfs
<1>5. CASE DiskFails(o)
  BY <1>1, <1>5, FreshDiskFails
<1>6. CASE job' = [job EXCEPT ![o].plan = Onward(@, "mount")]
  <2>1. PICK k : k = [j EXCEPT !.plan = Onward(j.plan, "mount")]
    OBVIOUS
  <2>2. job' = [job EXCEPT ![o] = k]
    BY <1>2, <1>6, <2>1
  <2>3. PICK s : s = [do |-> "mount", part |-> j.plan[1].part]
    OBVIOUS
  <2>4. s \in Step /\ s.do = "mount"
    BY <1>3, <2>3, PartIs DEF Step, Blocks
  <2>5. Kept(j, k) /\ k.plan = [j.plan EXCEPT ![1] = s]
    BY <1>3, <2>1, <2>3 DEF Kept, Runs, Onward, On
  <2>6. s.do \notin BuilderDo /\ j.plan[1].do \notin BuilderDo
    BY <1>3, <2>4 DEF BuilderDo, Compiling
  <2>7. QED
    BY <1>1, <1>2, <2>2, <2>4, <2>5, <2>6, FreshRun
<1>7. QED
  BY <1>4, <1>5, <1>6

LEMMA FreshSoftware ==
  ASSUME FreshInv, Inv', NEW o \in Provisioners, Push(o) \/ Verify(o)
  PROVE  FreshInv'
<1>1. /\ At(o, "push") \/ At(o, "verify")
      /\ UNCHANGED builderVars
  BY DEF Push, Verify
<1>2. PICK j \in Runs : job[o] = j /\ j # None
  BY <1>1, RunAt
<1>3. PICK ok \in BOOLEAN : job' = [job EXCEPT ![o].plan = Tail(@), ![o].dist_ok = @ /\ ok]
  BY DEF Push, Verify
<1>4. PICK k : k = [j EXCEPT !.plan = Tail(j.plan), !.dist_ok = j.dist_ok /\ ok]
  OBVIOUS
<1>5. job' = [job EXCEPT ![o] = k]
  BY <1>2, <1>3, <1>4
<1>6. Kept(j, k) /\ k.plan = Tail(j.plan)
  BY <1>4 DEF Kept, Runs
<1>7. "push" \notin BuilderDo /\ "verify" \notin BuilderDo
  BY DEF BuilderDo, Compiling
<1>8. QED
  BY <1>1, <1>2, <1>5, <1>6, <1>7, FreshTail

LEMMA FreshSwap ==
  ASSUME FreshInv, Inv', NEW o \in Provisioners, SwapOne(o)
  PROVE  FreshInv'
<1>1. At(o, "swap") /\ UNCHANGED builderVars
  BY DEF SwapOne
<1>2. PICK j \in Runs : job[o] = j /\ j # None /\ Ends(j.plan) /\ j.plan[1].do = "swap"
                        /\ j.plan \in Seq(Step) /\ Len(j.plan) \in Nat /\ Len(j.plan) > 1
  <2>1. Inv
    BY DEF FreshInv
  <2>2. QED
    BY <1>1, <2>1, AtRun
<1>3. PICK ok \in BOOLEAN :
        job' = [job EXCEPT ![o].plan = IF ok THEN Tail(@) ELSE SkipSwaps(@), ![o].ok = @ /\ ok]
  BY DEF SwapOne
<1>4. PICK q : q = IF ok THEN Tail(j.plan) ELSE SkipSwaps(j.plan)
  OBVIOUS
<1>5. PICK k : k = [j EXCEPT !.plan = q, !.ok = j.ok /\ ok]
  OBVIOUS
<1>6. job' = [job EXCEPT ![o] = k]
  BY <1>2, <1>3, <1>4, <1>5
<1>7. Kept(j, k) /\ k.plan = q
  BY <1>5 DEF Kept, Runs
<1>8. "swap" \notin BuilderDo
  BY DEF BuilderDo, Compiling
<1>9. CASE ok
  <2>1. k.plan = Tail(j.plan)
    BY <1>4, <1>7, <1>9
  <2>2. QED
    BY <1>1, <1>2, <1>6, <1>7, <1>8, <2>1, FreshTail
<1>10. CASE ~ok
  <2>1. PICK m \in 2..Len(j.plan) :
          SkipSwaps(j.plan) = From(j.plan, m) /\ \A i \in 1..m-1 : j.plan[i].do = "swap"
    BY <1>2, SkipSwapsIs
  <2>2. m \in 1..Len(j.plan) /\ k.plan = From(j.plan, m)
    BY <1>2, <1>4, <1>7, <1>10, <2>1
  <2>3. \A i \in 1..m-1 : j.plan[i].do \notin BuilderDo
    BY <1>8, <2>1
  <2>4. QED
    BY <1>1, <1>2, <1>6, <1>7, <2>2, <2>3, FreshRun
<1>11. QED
  BY <1>9, <1>10

LEMMA FreshHost ==
  ASSUME FreshInv, Inv', NEW o \in Provisioners, HostWork(o)
  PROVE  FreshInv'
<1>1. \A c \in {"user", "system", "start", "unit", "mount", "disks", "check", "catchup"} \cup Keys :
        c \notin BuilderDo /\ c # "finish"
  BY DEF BuilderDo, Compiling, Keys
<1>2. UNCHANGED builderVars
  BY DEF HostWork, Stage, InstallUnit, Probe, Mkfs, Mount, DisksChecked, Push, Verify, Check,
         SwapOne, CheckKey, CatchUp, Finish
<1>3. ASSUME NEW c \in {"user", "system", "start"}, Stage(o, c) PROVE FreshInv'
  <2>1. At(o, c) /\ \E ok \in BOOLEAN : Proceed(o, ok)
    BY <1>3 DEF Stage
  <2>2. QED
    BY <1>1, <1>2, <2>1, FreshProceed
<1>4. CASE InstallUnit(o)
  <2>1. At(o, "unit") /\ \E ok \in BOOLEAN : Proceed(o, ok)
    BY <1>4 DEF InstallUnit
  <2>2. QED
    BY <1>1, <1>2, <2>1, FreshProceed
<1>5. CASE Mount(o)
  <2>1. At(o, "mount") /\ (Proceed(o, TRUE) \/ DiskFails(o))
    BY <1>5 DEF Mount
  <2>2. TRUE \in BOOLEAN
    OBVIOUS
  <2>3. CASE Proceed(o, TRUE)
    BY <1>1, <1>2, <2>1, <2>2, <2>3, FreshProceed
  <2>4. CASE DiskFails(o)
    BY <1>2, <2>1, <2>4, FreshDiskFails
  <2>5. QED
    BY <2>1, <2>3, <2>4
<1>6. ASSUME NEW c \in {"disks", "check"} \cup Keys, At(o, c), Proceed(o, TRUE) \/ Finished(o, FALSE)
      PROVE  FreshInv'
  <2>1. job[o] # None /\ TRUE \in BOOLEAN
    BY <1>6 DEF At
  <2>2. CASE Proceed(o, TRUE)
    BY <1>1, <1>2, <1>6, <2>1, <2>2, FreshProceed
  <2>3. CASE Finished(o, FALSE)
    BY <1>2, <2>1, <2>3, FreshFinished
  <2>4. QED
    BY <1>6, <2>2, <2>3
<1>7. CASE DisksChecked(o)
  <2>1. At(o, "disks") /\ (Proceed(o, TRUE) \/ Finished(o, FALSE))
    BY <1>7 DEF DisksChecked
  <2>2. QED
    BY <1>6, <2>1
<1>8. CASE Check(o)
  <2>1. At(o, "check") /\ (Proceed(o, TRUE) \/ Finished(o, FALSE))
    BY <1>8 DEF Check
  <2>2. QED
    BY <1>6, <2>1
<1>9. ASSUME NEW c \in Keys, CheckKey(o, c) PROVE FreshInv'
  <2>1. At(o, c) /\ (Proceed(o, TRUE) \/ Finished(o, FALSE))
    BY <1>9 DEF CheckKey
  <2>2. QED
    BY <1>6, <2>1
<1>10. CASE CatchUp(o)
  <2>1. At(o, "catchup") /\ \E ok \in BOOLEAN : Proceed(o, ok)
    BY <1>10 DEF CatchUp
  <2>2. QED
    BY <1>1, <1>2, <2>1, FreshProceed
<1>11. CASE Finish(o)
  <2>1. job[o] # None /\ Finished(o, Succeeded(job[o]))
    BY <1>11 DEF Finish, At
  <2>2. QED
    BY <1>2, <2>1, FreshFinished
<1>12. QED
  BY <1>3, <1>4, <1>5, <1>7, <1>8, <1>9, <1>10, <1>11, FreshProbe, FreshMkfs, FreshSoftware,
     FreshSwap DEF HostWork
-----------------------------------------------------------------------------
(* The theorem. *)

LEMMA FreshBuilder ==
  ASSUME FreshInv, Inv', OnBuilder
  PROVE  FreshInv'
<1>1. HostOK /\ BuilderTypeOK /\ DOMAIN job = Operators
  BY DEF FreshInv, Inv, HostOK, JobsOK
<1>2. ASSUME NEW o \in Upgraders, NEW v \in Versions, NEW force \in BOOLEAN,
             RequestBuild(o, v, force)
      PROVE  FreshInv'
  <2>1. PICK k : k = BuildJob("build", v, BuildPlan(pin, force) \o <<Do("finish")>>)
    OBVIOUS
  <2>2. k \in Builds
    BY <1>1, <2>1, BuildEnds
  <2>3. /\ k.plan = BuildPlan(pin, force) \o <<Do("finish")>> /\ k.ref = pin
        /\ k.cached = FALSE /\ k.sum = NoSums
    BY <2>1 DEF BuildJob
  <2>4. Tidy(k.plan, k.ref) /\ \A x \in Parts : InOrder(k.plan, k.ref, x)
    BY <2>3, BuildsInOrder
  <2>5. /\ Begin(o, k) /\ job[o] = None /\ o \in Operators
        /\ UNCHANGED <<tree, install, target, out>>
    BY <1>2, <2>1 DEF RequestBuild, builderVars, Operators
  <2>6. QED
    BY <2>2, <2>3, <2>4, <2>5, FreshBegin
<1>3. ASSUME NEW o \in Upgraders, NEW v \in Versions, NEW confirm \in BOOLEAN,
             RequestBootstrap(o, v, confirm)
      PROVE  FreshInv'
  <2>1. PICK k : k = BuildJob("bootstrap", v, <<Do("bootstrap"), Do("finish")>>)
    OBVIOUS
  <2>2. k \in Builds
    BY <1>1, <2>1, BuildEnds
  <2>3. /\ k.plan = <<Do("bootstrap"), Do("finish")>> /\ k.ref = pin
        /\ k.cached = FALSE /\ k.sum = NoSums
    BY <2>1 DEF BuildJob
  <2>4. Tidy(k.plan, k.ref) /\ \A x \in Parts : InOrder(k.plan, k.ref, x)
    <3>1. FALSE \in BOOLEAN
      OBVIOUS
    <3>2. QED
      BY <2>3, <3>1, BuildsInOrder
  <2>5. /\ Begin(o, k) \/ UNCHANGED job
        /\ job[o] = None /\ o \in Operators /\ UNCHANGED <<tree, install, target, out>>
    BY <1>3, <2>1 DEF RequestBootstrap, builderVars, Operators
  <2>6. CASE Begin(o, k)
    BY <2>2, <2>3, <2>4, <2>5, <2>6, FreshBegin
  <2>7. CASE UNCHANGED job
    BY <2>5, <2>7, FreshIdle
  <2>8. QED
    BY <2>5, <2>6, <2>7
<1>4. ASSUME NEW o \in Upgraders, Built(o) PROVE FreshInv'
  <2>1. PICK k : k = None
    OBVIOUS
  <2>2. /\ o \in Operators /\ job[o] # None /\ job' = [job EXCEPT ![o] = k]
        /\ UNCHANGED builderVars
    BY <1>4, <2>1 DEF Built, At, Operators
  <2>3. QED
    BY <2>1, <2>2, FreshGone
<1>5. CASE EditPin
  BY <1>5, FreshIdle DEF EditPin
<1>6. ASSUME NEW o \in Operators, BuilderWork(o) PROVE FreshInv'
  BY <1>6, FreshBootstrap, FreshCached, FreshFetch, FreshCheckout, FreshCompile, FreshCopy,
     FreshCollect DEF BuilderWork
<1>7. QED
  BY <1>1, <1>2, <1>3, <1>4, <1>5, <1>6 DEF OnBuilder, BuilderNext

LEMMA FreshRequest ==
  ASSUME FreshInv, Inv', NEW o \in Provisioners, NEW v \in Versions, NEW ack \in SUBSET Blocks,
         NEW confirm \in BOOLEAN, Request(o, v, ack, confirm)
  PROVE  FreshInv'
<1>1. PICK k : k = Run(v, ack)
  OBVIOUS
<1>2. k \in Runs
  <2>1. k.plan \in Seq(Step)
    BY <1>1, PlanIs DEF Run, Ends
  <2>2. pin \in Refs \cup {None} /\ NoSums \in [Parts -> Content \cup {None}]
        /\ format \in SUBSET Blocks /\ ("start" \notin done) \in BOOLEAN
    BY DEF FreshInv, Inv, HostOK, BuilderTypeOK, NoSums
  <2>3. QED
    BY <1>1, <2>1, <2>2 DEF Run, Runs
<1>3. k.plan = ProvisionPlan /\ k.ref = pin /\ k.cached = FALSE /\ k.sum = NoSums
  BY <1>1 DEF Run
<1>4. Tidy(k.plan, k.ref) /\ \A x \in Parts : InOrder(k.plan, k.ref, x)
  BY <1>3, RunInOrder
<1>5. /\ Begin(o, k) \/ UNCHANGED job
      /\ job[o] = None /\ o \in Operators /\ UNCHANGED <<tree, install, target, out>>
  BY <1>1 DEF Request, builderVars, Operators
<1>6. CASE Begin(o, k)
  BY <1>2, <1>3, <1>4, <1>5, <1>6, FreshBegin
<1>7. CASE UNCHANGED job
  BY <1>5, <1>7, FreshIdle
<1>8. QED
  BY <1>5, <1>6, <1>7

LEMMA FreshInit == Init => FreshInv
<1> SUFFICES ASSUME Init PROVE FreshInv
  OBVIOUS
<1>1. Inv
  BY InvInit
<1>2. \A o \in Operators : job[o] = None
  BY DEF Init
<1>3. SourcesOK
  BY DEF Init, BuilderInit, SourcesOK
<1>4. QED
  BY <1>1, <1>2, <1>3 DEF FreshInv, Exclusive

LEMMA FreshNext == FreshInv /\ [Next]_vars => FreshInv'
<1> SUFFICES ASSUME FreshInv, [Next]_vars PROVE FreshInv'
  OBVIOUS
<1>1. Inv'
  BY InvNext DEF FreshInv
<1>2. CASE UNCHANGED vars
  <2>1. UNCHANGED <<job, tree, install, target, out>>
    BY <1>2 DEF vars, builderVars
  <2>2. QED
    BY <1>1, <2>1, FreshIdle
<1>3. ASSUME NEW o \in Operators, OperatorDies(o) PROVE FreshInv'
  <2>1. PICK k : k = None
    OBVIOUS
  <2>2. job[o] # None /\ job' = [job EXCEPT ![o] = k] /\ UNCHANGED builderVars
    BY <1>3, <2>1 DEF OperatorDies
  <2>3. QED
    BY <1>1, <2>1, <2>2, FreshGone
<1>4. CASE Launch \/ ProcessDies \/ (\E k \in Keys : PlaceKey(k)) \/ \E d \in Blocks : DropFormat(d)
  <2>1. UNCHANGED <<job, tree, install, target, out>>
    BY <1>4 DEF Launch, ProcessDies, PlaceKey, DropFormat, builderVars
  <2>2. QED
    BY <1>1, <2>1, FreshIdle
<1>5. QED
  BY <1>1, <1>2, <1>3, <1>4, FreshBuilder, FreshRequest, FreshHost DEF Next

\* builder.py:10 "we build it from the exact ref the operator pins": the
\* checksums of every set that was built are those of the version and the
\* ref asked for, however many operators use the builder, whichever command
\* of theirs fails or is cut short and whenever the pin is edited, as long as
\* nobody else was on the builder at the same time.
THEOREM BuildsAreAsPinned == Spec => []FreshBuildIsAsPinned
<1>1. FreshInv => FreshBuildIsAsPinned
  <2>1. ASSUME FreshInv, NEW o \in DOMAIN job, job[o] # None, ~job[o].cached, job[o].alone,
               NEW p \in Parts
        PROVE  job[o].sum[p] \in {None} \cup AsAsked(job[o], p)
    <3>1. o \in Operators
      BY <2>1 DEF FreshInv, Inv, JobsOK
    <3>2. Fresh(job[o])
      BY <2>1, <3>1 DEF FreshInv
    <3>3. QED
      BY <2>1, <3>2 DEF Fresh, TracedHere, Traced
  <2>2. QED
    BY <2>1 DEF FreshBuildIsAsPinned
<1>2. QED
  BY <1>1, FreshInit, FreshNext, PTL DEF Spec
=============================================================================
