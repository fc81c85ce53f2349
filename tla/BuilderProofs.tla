---------------------------- MODULE BuilderProofs ----------------------------
(***************************************************************************)
(* What the commands of a build do to the plan of an operation and to the  *)
(* build host, whatever else the operation consists of.                    *)
(***************************************************************************)
EXTENDS Builder, LeastElement, SequenceTheorems

(* Plans. *)

\* What is left of plan p from command m on.
From(p, m) == SubSeq(p, m, Len(p))

LEMMA FromIsPlan ==
  ASSUME NEW X, NEW p \in Seq(X), NEW m \in 1..Len(p)
  PROVE  /\ From(p, m) \in Seq(X) /\ Len(From(p, m)) = Len(p) - m + 1
         /\ \A i \in 1..Len(p) - m + 1 : From(p, m)[i] = p[m+i-1]
<1>1. Len(p) \in Nat /\ \A i \in m..Len(p) : p[i] \in X
  BY ElementOfSeq, LenProperties
<1>2. QED
  BY <1>1, SubSeqProperties DEF From

LEMMA TailIsFrom ==
  ASSUME NEW X, NEW p \in Seq(X), Len(p) > 0
  PROVE  Tail(p) = From(p, 2) /\ Head(p) = p[1]
<1>1. p # <<>>
  OBVIOUS
<1>2. QED
  BY <1>1, TailIsSubSeq DEF From

\* Skip stops at the first command that is not to be skipped.
LEMMA SkipIsFrom ==
  ASSUME NEW X, NEW p \in Seq(X), NEW cmds, \E i \in 1..Len(p) : p[i].do \notin cmds
  PROVE  \E m \in 1..Len(p) : /\ Skip(p, cmds) = From(p, m) /\ p[m].do \notin cmds
                              /\ \A k \in 1..m-1 : p[k].do \in cmds
<1>1. DOMAIN p = 1..Len(p) /\ Len(p) \in Nat
  BY LenProperties
<1> DEFINE T == {i \in 1..Len(p) : p[i].do \notin cmds}
<1>2. PICK m \in T : \A k \in T : m <= k
  <2>1. T \subseteq Nat /\ T # {}
    BY <1>1
  <2> HIDE DEF T
  <2>2. QED
    BY <2>1, Least
<1>3. \A k \in 1..m-1 : p[k].do \in cmds
  BY <1>1, <1>2
<1> DEFINE next == CHOOSE i \in DOMAIN p :
                     p[i].do \notin cmds /\ \A k \in 1..i-1 : p[k].do \in cmds
<1>4. next \in DOMAIN p /\ p[next].do \notin cmds /\ \A k \in 1..next-1 : p[k].do \in cmds
  BY <1>1, <1>2, <1>3
<1>5. Skip(p, cmds) = From(p, next)
  BY DEF Skip, From
<1>6. QED
  BY <1>1, <1>4, <1>5
-----------------------------------------------------------------------------
(* Commands. *)

BuilderDo == Compiling \cup {"cached", "collect", "bootstrap"}

\* Plan q is what is left of p past commands of the build.
Past(p, q) ==
  \E m \in 2..Len(p) : q = From(p, m) /\ \A i \in 1..m-1 : p[i].do \in BuilderDo

\* A command of the build takes operation j to k.
Advances(o, j, k) ==
  /\ job' = [job EXCEPT ![o] = k]
  /\ \/ \E plan : \E ok \in BOOLEAN :
          /\ k = [j EXCEPT !.plan = plan, !.ok = ok] /\ (ok => j.ok)
          /\ Past(j.plan, plan) \/ (plan = <<Do("finish")>> /\ ~ok)
     \/ \E plan : \E hit \in BOOLEAN :
          k = [j EXCEPT !.cached = hit, !.plan = plan] /\ Past(j.plan, plan)
     \/ \E plan : \E sum \in [Parts -> Content \cup {None}] :
          /\ k = [j EXCEPT !.plan = plan, !.sum = sum] /\ Past(j.plan, plan)
          /\ Head(j.plan).do = "collect"

\* An operation that has more to do than to finish.
Unfinished(p, X) ==
  /\ p \in Seq(X) /\ Len(p) > 1 /\ p[Len(p)].do = "finish"
  /\ Head(p).do \in BuilderDo /\ Head(p).part \in Parts

LEMMA TailIsPast ==
  ASSUME NEW X, NEW p, Unfinished(p, X)
  PROVE  Past(p, Tail(p))
<1>1. p \in Seq(X) /\ Len(p) \in Nat /\ Len(p) > 1 /\ Head(p).do \in BuilderDo
  BY DEF Unfinished
<1>2. Tail(p) = From(p, 2) /\ Head(p) = p[1]
  BY <1>1, TailIsFrom
<1>3. 2 \in 2..Len(p) /\ \A i \in 1..2-1 : p[i].do \in BuilderDo
  BY <1>1, <1>2
<1>4. QED
  BY <1>2, <1>3 DEF Past

LEMMA ProceedAdvances ==
  ASSUME NEW X, NEW o, NEW j, job[o] = j, j.ok \in BOOLEAN, Unfinished(j.plan, X),
         NEW ok \in BOOLEAN, Proceed(o, ok)
  PROVE  \E k : Advances(o, j, k)
<1> DEFINE k == [j EXCEPT !.plan = Tail(j.plan), !.ok = j.ok /\ ok]
<1>1. job' = [job EXCEPT ![o] = k]
  BY DEF Proceed
<1>2. Past(j.plan, Tail(j.plan))
  BY TailIsPast
<1>3. (j.ok /\ ok) \in BOOLEAN /\ ((j.ok /\ ok) => j.ok)
  OBVIOUS
<1>4. QED
  BY <1>1, <1>2, <1>3 DEF Advances

LEMMA ContinueAdvances ==
  ASSUME NEW X, NEW o, NEW j, job[o] = j, j.ok \in BOOLEAN, Unfinished(j.plan, X),
         NEW ok \in BOOLEAN, Continue(o, ok)
  PROVE  \E k : Advances(o, j, k)
<1>1. CASE ok
  BY <1>1, ProceedAdvances DEF Continue
<1>2. CASE ~ok
  <2> DEFINE k == [j EXCEPT !.plan = <<Do("finish")>>, !.ok = FALSE]
  <2>1. job' = [job EXCEPT ![o] = k]
    BY <1>2 DEF Continue, GiveUp
  <2>2. QED
    BY <2>1 DEF Advances
<1>3. QED
  BY <1>1, <1>2

\* A hit in the cache is past the commands that compile.
LEMMA HitIsFrom ==
  ASSUME NEW X, NEW p, Unfinished(p, X)
  PROVE  \E m \in 2..Len(p) : /\ Skip(Tail(p), Compiling) = From(p, m)
                              /\ \A i \in 1..m-1 : p[i].do \in BuilderDo
<1>1. p \in Seq(X) /\ Len(p) \in Nat /\ Len(p) > 1 /\ Head(p).do \in BuilderDo
      /\ p[Len(p)].do = "finish"
  BY DEF Unfinished
<1>2. Tail(p) = From(p, 2) /\ Head(p) = p[1]
  BY <1>1, TailIsFrom
<1>3. /\ Tail(p) \in Seq(X) /\ Len(Tail(p)) = Len(p) - 1
      /\ \A i \in 1..Len(p) - 1 : Tail(p)[i] = p[i+1]
  <2>1. 2 \in 1..Len(p)
    BY <1>1
  <2>2. /\ From(p, 2) \in Seq(X) /\ Len(From(p, 2)) = Len(p) - 2 + 1
        /\ \A i \in 1..Len(p) - 2 + 1 : From(p, 2)[i] = p[2+i-1]
    BY <1>1, <2>1, FromIsPlan
  <2>3. QED
    BY <1>1, <1>2, <2>2
<1>4. Tail(p)[Len(p) - 1].do \notin Compiling /\ Len(p) - 1 \in 1..Len(Tail(p))
  <2>1. Len(p) - 1 \in 1..Len(p) - 1 /\ (Len(p) - 1) + 1 = Len(p)
    BY <1>1
  <2>2. Tail(p)[Len(p) - 1] = p[Len(p)]
    BY <1>3, <2>1
  <2>3. QED
    BY <1>1, <1>3, <2>1, <2>2 DEF Compiling
<1>5. PICK m \in 1..Len(Tail(p)) :
        /\ Skip(Tail(p), Compiling) = From(Tail(p), m)
        /\ \A i \in 1..m-1 : Tail(p)[i].do \in Compiling
  BY <1>3, <1>4, SkipIsFrom
<1>6. From(Tail(p), m) = From(p, m + 1)
  <2>1. m + 1 \in 2..Len(p) /\ m \in Int /\ Len(p) - 1 \in Int
    BY <1>1, <1>3
  <2>2. /\ 2 \in 1..Len(p) /\ Len(p) \in 1..Len(p)
        /\ m \in 1..Len(p)-2+1 /\ Len(p) - 1 \in 1..Len(p)-2+1
    BY <1>1, <1>3
  <2>3. SubSeq(SubSeq(p, 2, Len(p)), m, Len(p) - 1) = SubSeq(p, 2+m-1, 2+(Len(p)-1)-1)
    <3>1. \A s \in Seq(X) : \A i, j \in 1..Len(s) : \A a, b \in 1..j-i+1 :
            SubSeq(SubSeq(s, i, j), a, b) = SubSeq(s, i+a-1, i+b-1)
      BY SubSeqOfSubSeq
    <3>2. p \in Seq(X)
      BY <1>1
    <3>3. QED
      BY <2>2, <3>1, <3>2
  <2>4. 2+m-1 = m+1 /\ 2+(Len(p)-1)-1 = Len(p)
    BY <1>1, <2>1
  <2>5. QED
    BY <1>1, <1>2, <1>3, <2>3, <2>4 DEF From
<1>7. \A i \in 1..(m+1)-1 : p[i].do \in BuilderDo
  <2>1. ASSUME NEW i \in 1..m PROVE p[i].do \in BuilderDo
    <3>1. CASE i = 1
      BY <1>1, <1>2, <3>1
    <3>2. CASE i # 1
      <4>1. i - 1 \in 1..m-1 /\ i - 1 \in 1..Len(p) - 1 /\ (i - 1) + 1 = i
        BY <1>1, <1>3, <3>2
      <4>2. p[i].do \in Compiling
        BY <1>3, <1>5, <4>1
      <4>3. QED
        BY <4>2 DEF BuilderDo
    <3>3. QED
      BY <3>1, <3>2
  <2>2. QED
    BY <1>3, <2>1
<1>8. QED
  BY <1>1, <1>3, <1>5, <1>6, <1>7

LEMMA CachedAdvances ==
  ASSUME NEW X, NEW o, NEW j, job[o] = j, Unfinished(j.plan, X), Cached(o)
  PROVE  \E k : Advances(o, j, k)
<1> DEFINE p == j.plan
<1>1. PICK hit \in BOOLEAN :
        job' = [job EXCEPT ![o].cached = hit,
                           ![o].plan = IF hit THEN Skip(Tail(@), Compiling) ELSE Tail(@)]
  BY DEF Cached
<1> DEFINE plan == IF hit THEN Skip(Tail(p), Compiling) ELSE Tail(p)
           k == [j EXCEPT !.cached = hit, !.plan = plan]
<1>2. job' = [job EXCEPT ![o] = k]
  BY <1>1
<1> HIDE DEF k
<1>3. Past(p, plan)
  <2>1. CASE ~hit
    BY <2>1, TailIsPast
  <2>2. CASE hit
    <3>1. PICK m \in 2..Len(p) : /\ Skip(Tail(p), Compiling) = From(p, m)
                                 /\ \A i \in 1..m-1 : p[i].do \in BuilderDo
      BY HitIsFrom
    <3>2. QED
      BY <2>2, <3>1 DEF Past
  <2>3. QED
    BY <2>1, <2>2
<1> HIDE DEF plan
<1>4. QED
  BY <1>2, <1>3 DEF Advances, k

LEMMA CollectAdvances ==
  ASSUME NEW X, NEW o, NEW j, job[o] = j, Unfinished(j.plan, X), Collect(o),
         j.version \in Versions, j.sum \in [Parts -> Content \cup {None}], BuilderTypeOK
  PROVE  \E k : Advances(o, j, k)
<1> DEFINE p == Head(j.plan).part
<1>0. PICK ok \in BOOLEAN :
        job' = [job EXCEPT ![o].plan = Tail(@),
                           ![o].sum[p] = IF ok THEN out[j.version][p] ELSE None]
  BY DEF Collect
<1> DEFINE c == IF ok THEN out[j.version][p] ELSE None
<1>1. job' = [job EXCEPT ![o].plan = Tail(@), ![o].sum[p] = c] /\ c \in Content \cup {None}
  BY <1>0 DEF BuilderTypeOK, Unfinished
<1> HIDE DEF c
<1> DEFINE sum == [j.sum EXCEPT ![p] = c]
           k == [j EXCEPT !.plan = Tail(j.plan), !.sum = sum]
<1>2. job' = [job EXCEPT ![o] = k]
  BY <1>1
<1>3. sum \in [Parts -> Content \cup {None}]
  BY <1>1
<1>4. Past(j.plan, Tail(j.plan)) /\ Head(j.plan).do = "collect"
  BY TailIsPast DEF Collect, At
<1> HIDE DEF sum
<1>5. QED
  BY <1>2, <1>3, <1>4 DEF Advances

\* Every command of a build advances the operation.
LEMMA WorkAdvances ==
  ASSUME NEW X, NEW o, NEW j, job[o] = j, j.ok \in BOOLEAN, Unfinished(j.plan, X),
         j.version \in Versions, j.sum \in [Parts -> Content \cup {None}], BuilderTypeOK,
         BuilderWork(o)
  PROVE  \E k : Advances(o, j, k)
<1>1. CASE Bootstrap(o)
  BY <1>1, ProceedAdvances DEF Bootstrap
<1>2. CASE Fetch(o)
  BY <1>2, ContinueAdvances DEF Fetch
<1>3. CASE Checkout(o)
  BY <1>3, ContinueAdvances DEF Checkout
<1>4. CASE Compile(o)
  BY <1>4, ContinueAdvances DEF Compile
<1>5. CASE Copy(o)
  BY <1>5, ContinueAdvances DEF Copy
<1>6. QED
  BY <1>1, <1>2, <1>3, <1>4, <1>5, CachedAdvances, CollectAdvances DEF BuilderWork
-----------------------------------------------------------------------------
(* The build host. *)

\* The commands of a build keep the builder's types.
LEMMA WorkKeepsTypes ==
  ASSUME NEW X, NEW o, NEW j, job[o] = j, Unfinished(j.plan, X),
         j.version \in Versions, j.ref \in Refs \cup {None},
         BuilderTypeOK, faults \in 0..MaxFaults, MaxFaults \in Nat, BuilderWork(o)
  PROVE  BuilderTypeOK' /\ faults' \in 0..MaxFaults
<1> DEFINE p == Head(j.plan).part
           v == j.version
<1>1. p \in Parts
  BY DEF Unfinished
<1>2. faults' \in 0..MaxFaults
  <2>1. \E ok, possible \in BOOLEAN : Outcome(ok, possible)
    BY DEF BuilderWork, Bootstrap, Cached, Fetch, Checkout, Compile, Copy, Collect, BuilderTypeOK
  <2>2. QED
    BY <2>1 DEF Outcome
<1>3. CASE Bootstrap(o)
  BY <1>2, <1>3 DEF Bootstrap, BuilderTypeOK
<1>4. CASE Cached(o) \/ Collect(o)
  BY <1>2, <1>4 DEF Cached, Collect, BuilderTypeOK, builderVars
<1>5. CASE Fetch(o)
  <2>1. tree' = tree \/ tree' = [tree EXCEPT ![p] = DefaultHead]
    BY <1>5 DEF Fetch
  <2>2. QED
    BY <1>1, <1>2, <1>5, <2>1 DEF Fetch, BuilderTypeOK, Content
<1>6. CASE Checkout(o)
  <2>1. tree' = tree \/ tree' = [tree EXCEPT ![p] = Asked(j, p)]
    BY <1>6 DEF Checkout
  <2>2. Asked(j, p) \in Content \cup {None}
    BY DEF Asked, Content
  <2>3. QED
    BY <1>1, <1>2, <1>6, <2>1, <2>2 DEF Checkout, BuilderTypeOK
<1>7. CASE Compile(o)
  <2>1. /\ install' = install \/ install' = [install EXCEPT ![v] = tree[p]]
        /\ target' = target \/ target' = tree[p]
    BY <1>7 DEF Compile
  <2>2. tree[p] \in Content \cup {None}
    BY <1>1 DEF BuilderTypeOK
  <2>3. QED
    BY <1>2, <1>7, <2>1, <2>2 DEF Compile, BuilderTypeOK
<1>8. CASE Copy(o)
  <2>1. PICK c \in Content \cup {None} : out' = [out EXCEPT ![v][p] = c]
    BY <1>8 DEF Copy
  <2>2. QED
    BY <1>1, <1>2, <1>8, <2>1 DEF Copy, BuilderTypeOK
<1>9. QED
  BY <1>3, <1>4, <1>5, <1>6, <1>7, <1>8 DEF BuilderWork
=============================================================================
