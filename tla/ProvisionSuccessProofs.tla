------------------------ MODULE ProvisionSuccessProofs ------------------------
(***************************************************************************)
(* Proof that a run of provision which reports success leaves the host as  *)
(* it says, for every set of disks, every number of operators on the       *)
(* builder and every number of failures, while one operator provisions.    *)
(***************************************************************************)
EXTENDS ProvisionProofs

Finishing == Dos({"finish"})

\* The order of a plan that is never changed.
Ordered(p) ==
  /\ \A f \in Files :
       /\ Clear(p, To("verify", f), To("push", f) \cup Dos({"collect"}))
       /\ Clear(p, To("swap", f), To("swap", f) \cup Dos({"collect"}))
  /\ Clear(p, Dos({"check"}), Dos({"push", "verify"}))
  /\ Clear(p, Dos({"start"}), Dos({"start", "swap"}))

StagesOK(j) ==
  \A c \in {"user", "system", "start"} :
    c \in done \/ ~j.ok \/ Waits(j.plan, Finishing, Dos({c}))

\* A file is swapped in by the end, or it is in place and stays there.
FilesOK(j) ==
  \A f \in Files :
    \/ ~j.ok
    \/ Waits(j.plan, Finishing, To("swap", f))
    \/ file[f] = j.sum[f] /\ Lacks(j.plan, To("swap", f) \cup Dos({"collect"}))

\* A file is verified before it is swapped in, and not replaced in between.
VerifiesOK(j) ==
  \A f \in Files :
    \/ ~j.dist_ok
    \/ Waits(j.plan, To("swap", f), To("verify", f))
    \/ /\ staged[f] = j.sum[f] /\ j.sum[f] # None
       /\ Lacks(j.plan, To("push", f) \cup Dos({"collect"}))

ChecksOK(j) ==
  \/ Waits(j.plan, Dos({"swap"}), Dos({"check"}))
  \/ j.dist_ok /\ Lacks(j.plan, Dos({"push", "verify"}))

\* A run that began on a host whose unit was not started changes no file
\* once it is, so that the process is the one the files are for.
ColdOK(j) ==
  j.cold => \/ "start" \notin done
            \/ /\ Lacks(j.plan, Dos({"start", "swap"}))
               /\ image # None => image = file /\ Whole(file)

CatchesUp(j) ==
  j.cold => \/ ~j.ok
            \/ Waits(j.plan, Finishing, Dos({"catchup"}))
            \/ "start" \in done /\ Whole(file)

Solo(j) ==
  /\ Ordered(j.plan) /\ StagesOK(j) /\ FilesOK(j) /\ VerifiesOK(j)
  /\ ChecksOK(j) /\ ColdOK(j) /\ CatchesUp(j)

LEMMA OrderedLeft ==
  ASSUME NEW p \in Seq(Step), NEW m \in 1..Len(p), Ordered(p)
  PROVE  Ordered(From(p, m))
<1>1. \A T, S : Clear(p, T, S) => Clear(From(p, m), T, S)
  BY Left
<1>2. QED
  BY <1>1 DEF Ordered

\* A command that touches neither the files nor the process.
LEMMA SoloQuiet ==
  ASSUME NEW j, Ends(j.plan), Solo(j), NEW m \in 2..Len(j.plan), NEW k,
         k.plan = From(j.plan, m), k.cold = j.cold, k.dist_ok = j.dist_ok, k.ok => j.ok,
         k.sum = j.sum \/ j.plan[1].do = "collect",
         UNCHANGED <<file, staged, image>>,
         done \subseteq done', "start" \in done' => "start" \in done,
         \A i \in 1..m-1 :
           /\ j.plan[i].do \notin {"push", "verify", "swap", "start"}
           /\ j.plan[i].do \in {"user", "system"} => j.plan[i].do \in done' \/ ~k.ok
           /\ j.plan[i].do = "check" => j.dist_ok
           /\ j.plan[i].do = "catchup" => ~k.ok \/ (j.cold => "start" \in done /\ Whole(file))
  PROVE  Solo(k)'
<1> DEFINE p == j.plan
           r == From(p, m)
<1>1. /\ p \in Seq(Step) /\ Len(p) \in Nat /\ m \in 1..Len(p) /\ 1 \in 1..m-1
      /\ Len(p) > 0 /\ p[1] \in Step
  BY HeadIs
<1>2. /\ \A T : Lacks(p, T) => Lacks(r, T)
      /\ \A T, S : Waits(p, T, S) /\ (\A i \in 1..m-1 : p[i] \notin S) => Waits(r, T, S)
      /\ \A T, S : Clear(p, T, S) /\ (\E i \in 1..m-1 : p[i] \in T) => Lacks(r, S)
  BY <1>1, Left
<1>3. Ordered(r)
  BY <1>1, OrderedLeft DEF Solo
<1>4. k.plan = r /\ \A T : p[1] \in T => ~ Lacks(p, T)
  BY <1>1, HeadWaits
<1>5. j.plan[1].do = "collect" => p[1] \in Dos({"collect"})
  BY <1>1 DEF Dos
<1> HIDE DEF r
<1>6. StagesOK(k)'
  <2> SUFFICES ASSUME NEW c \in {"user", "system", "start"}, c \notin done', k.ok
               PROVE  Waits(r, Finishing, Dos({c}))
    BY <1>4 DEF StagesOK
  <2>1. Waits(p, Finishing, Dos({c}))
    BY DEF Solo, StagesOK
  <2>2. \A i \in 1..m-1 : p[i] \notin Dos({c})
    BY DEF Dos
  <2>3. QED
    BY <1>2, <2>1, <2>2
<1>7. FilesOK(k)'
  <2> SUFFICES ASSUME NEW f \in Files, k.ok, ~ Waits(r, Finishing, To("swap", f))
               PROVE  file'[f] = k.sum[f] /\ Lacks(r, To("swap", f) \cup Dos({"collect"}))
    BY <1>4 DEF FilesOK
  <2>1. \A i \in 1..m-1 : p[i] \notin To("swap", f)
    BY DEF To, Dos
  <2>2. ~ Waits(p, Finishing, To("swap", f))
    BY <1>2, <2>1
  <2>3. file[f] = j.sum[f] /\ Lacks(p, To("swap", f) \cup Dos({"collect"}))
    BY <2>2 DEF Solo, FilesOK
  <2>4. k.sum = j.sum
    BY <1>4, <1>5, <2>3
  <2>5. QED
    BY <1>2, <2>3, <2>4
<1>8. VerifiesOK(k)'
  <2> SUFFICES ASSUME NEW f \in Files, k.dist_ok, ~ Waits(r, To("swap", f), To("verify", f))
               PROVE  /\ staged'[f] = k.sum[f] /\ k.sum[f] # None
                      /\ Lacks(r, To("push", f) \cup Dos({"collect"}))
    BY <1>4 DEF VerifiesOK
  <2>1. \A i \in 1..m-1 : p[i] \notin To("verify", f)
    BY DEF To, Dos
  <2>2. ~ Waits(p, To("swap", f), To("verify", f))
    BY <1>2, <2>1
  <2>3. /\ staged[f] = j.sum[f] /\ j.sum[f] # None
        /\ Lacks(p, To("push", f) \cup Dos({"collect"}))
    BY <2>2 DEF Solo, VerifiesOK
  <2>4. k.sum = j.sum
    BY <1>4, <1>5, <2>3
  <2>5. QED
    BY <1>2, <2>3, <2>4
<1>9. ChecksOK(k)'
  <2>1. CASE Waits(p, Dos({"swap"}), Dos({"check"}))
    <3>1. CASE \A i \in 1..m-1 : p[i] \notin Dos({"check"})
      BY <1>2, <1>4, <2>1, <3>1 DEF ChecksOK
    <3>2. CASE \E i \in 1..m-1 : p[i] \in Dos({"check"})
      <4>1. j.dist_ok
        BY <3>2 DEF Dos
      <4>2. Lacks(r, Dos({"push", "verify"}))
        BY <1>2, <3>2 DEF Solo, Ordered
      <4>3. QED
        BY <1>4, <4>1, <4>2 DEF ChecksOK
    <3>3. QED
      BY <3>1, <3>2
  <2>2. CASE j.dist_ok /\ Lacks(p, Dos({"push", "verify"}))
    BY <1>2, <1>4, <2>2 DEF ChecksOK
  <2>3. QED
    BY <2>1, <2>2 DEF Solo, ChecksOK
<1>10. ColdOK(k)'
  BY <1>2, <1>4 DEF Solo, ColdOK, Whole
<1>11. CatchesUp(k)'
  <2> SUFFICES ASSUME k.cold, k.ok, ~ Waits(r, Finishing, Dos({"catchup"}))
               PROVE  "start" \in done' /\ Whole(file)'
    BY <1>4 DEF CatchesUp
  <2>1. CASE Waits(p, Finishing, Dos({"catchup"}))
    <3>1. PICK i \in 1..m-1 : p[i] \in Dos({"catchup"})
      BY <1>2, <2>1
    <3>2. "start" \in done /\ Whole(file)
      BY <3>1 DEF Dos
    <3>3. QED
      BY <3>2 DEF Whole
  <2>2. CASE "start" \in done /\ Whole(file)
    BY <2>2 DEF Whole
  <2>3. QED
    BY <2>1, <2>2 DEF Solo, CatchesUp
<1>12. QED
  BY <1>3, <1>4, <1>6, <1>7, <1>8, <1>9, <1>10, <1>11 DEF Solo

\* The run goes on to report that it failed.
LEMMA SoloEnds ==
  ASSUME NEW j, Solo(j), NEW k, k.plan = <<Do("finish")>>, ~ k.ok, k.cold = j.cold,
         UNCHANGED <<file, image, done>>
  PROVE  Solo(k)'
<1> DEFINE p == k.plan
<1>1. Len(p) = 1 /\ p[1].do = "finish"
  BY DEF Do
<1> HIDE DEF p
<1>2. \A T, S : Clear(p, T, S)
  BY <1>1 DEF Clear
<1>3. Ordered(p)
  BY <1>2 DEF Ordered
<1>4. Lacks(p, Dos({"start", "swap"})) /\ Lacks(p, Dos({"swap"}))
      /\ \A f : Lacks(p, To("swap", f))
  BY <1>1 DEF Lacks, To, Dos
<1>5. StagesOK(k)' /\ FilesOK(k)' /\ CatchesUp(k)'
  BY DEF StagesOK, FilesOK, CatchesUp
<1>6. VerifiesOK(k)' /\ ChecksOK(k)'
  BY <1>4, LacksWaits DEF VerifiesOK, ChecksOK, p
<1>7. ColdOK(k)'
  BY <1>4 DEF Solo, ColdOK, Whole, p
<1>8. QED
  BY <1>3, <1>5, <1>6, <1>7 DEF Solo, p

\* The disk at the head of the plan is to be treated otherwise.
LEMMA SoloOnward ==
  ASSUME NEW j, Ends(j.plan), Solo(j), NEW k, NEW c \in {"mkfs", "mount"}, NEW d,
         j.plan[1].do \in {"probe", "mkfs"}, j.plan[1].part = d,
         k.plan = Onward(j.plan, c), k.cold = j.cold, k.dist_ok = j.dist_ok, k.ok = j.ok,
         k.sum = j.sum, UNCHANGED <<file, staged, image, done>>
  PROVE  Solo(k)'
<1> DEFINE p == j.plan
           q == k.plan
           C == {"user", "system", "start", "finish", "push", "verify", "swap", "check",
                 "catchup", "collect"}
<1>1. p \in Seq(Step) /\ Len(p) \in Nat /\ Len(p) > 0
  BY HeadIs
<1>2. Len(q) = Len(p) /\ q[1].do = c /\ \A i \in 1..Len(p) : i # 1 => q[i] = p[i]
  BY <1>1 DEF Onward, On
<1> HIDE DEF p, q
<1>3. p[1] \notin Dos(C) /\ q[1] \notin Dos(C)
  BY <1>2 DEF Dos, p
<1>4. \A T \in SUBSET Dos(C) : \A i \in 1..Len(p) : p[i] \in T <=> q[i] \in T
  BY <1>2, <1>3
<1>5. \A T \in SUBSET Dos(C) : Lacks(p, T) => Lacks(q, T)
  BY <1>2, <1>4 DEF Lacks
<1>6. ASSUME NEW T \in SUBSET Dos(C), NEW S \in SUBSET Dos(C), Waits(p, T, S)
      PROVE  Waits(q, T, S)
  <2>1. ASSUME NEW i \in 1..Len(q), q[i] \in T PROVE \E m \in 1..i-1 : q[m] \in S
    <3>1. i \in 1..Len(p) /\ p[i] \in T
      BY <1>2, <1>4, <2>1
    <3>2. PICK m \in 1..i-1 : p[m] \in S
      BY <1>6, <3>1 DEF Waits
    <3>3. m \in 1..Len(p)
      BY <1>1, <3>1, <3>2
    <3>4. QED
      BY <1>4, <3>2, <3>3
  <2>2. QED
    BY <2>1 DEF Waits
<1>7. \A T, S \in SUBSET Dos(C) : Clear(p, T, S) => Clear(q, T, S)
  BY <1>2, <1>4 DEF Clear
<1>8. \A B \in SUBSET C : Dos(B) \in SUBSET Dos(C)
  BY DEF Dos
<1>9. \A x \in C : Dos({x}) \in SUBSET Dos(C) /\ \A f : To(x, f) \in SUBSET Dos(C)
  BY DEF Dos, To
<1>10. /\ {"start", "swap"} \in SUBSET C /\ {"push", "verify"} \in SUBSET C
       /\ \A x \in {"user", "system", "start", "finish", "push", "verify", "swap", "check",
                 "catchup", "collect"} : x \in C
  OBVIOUS
<1> HIDE DEF C
<1>11. Ordered(q)
  <2>1. Ordered(p)
    BY DEF Solo, p
  <2>2. ASSUME NEW f \in Files
        PROVE  /\ Clear(q, To("verify", f), To("push", f) \cup Dos({"collect"}))
               /\ Clear(q, To("swap", f), To("swap", f) \cup Dos({"collect"}))
    <3>1. /\ To("push", f) \cup Dos({"collect"}) \in SUBSET Dos(C)
          /\ To("swap", f) \cup Dos({"collect"}) \in SUBSET Dos(C)
          /\ To("verify", f) \in SUBSET Dos(C) /\ To("swap", f) \in SUBSET Dos(C)
      BY <1>9, <1>10
    <3>2. QED
      BY <1>7, <2>1, <3>1 DEF Ordered
  <2>3. /\ Clear(q, Dos({"check"}), Dos({"push", "verify"}))
        /\ Clear(q, Dos({"start"}), Dos({"start", "swap"}))
    BY <1>7, <1>8, <1>9, <1>10, <2>1 DEF Ordered
  <2>4. QED
    BY <2>2, <2>3 DEF Ordered
<1>12. StagesOK(k)'
  <2> SUFFICES ASSUME NEW x \in {"user", "system", "start"}, Waits(p, Finishing, Dos({x}))
               PROVE  Waits(q, Finishing, Dos({x}))
    BY DEF Solo, StagesOK, p, q
  <2>1. QED
    BY <1>6, <1>9, <1>10 DEF Finishing
<1>13. ASSUME NEW f \in Files
       PROVE  /\ Waits(p, Finishing, To("swap", f)) => Waits(q, Finishing, To("swap", f))
              /\ Waits(p, To("swap", f), To("verify", f)) => Waits(q, To("swap", f), To("verify", f))
              /\ Lacks(p, To("swap", f) \cup Dos({"collect"}))
                   => Lacks(q, To("swap", f) \cup Dos({"collect"}))
              /\ Lacks(p, To("push", f) \cup Dos({"collect"}))
                   => Lacks(q, To("push", f) \cup Dos({"collect"}))
  <2>1. /\ To("push", f) \cup Dos({"collect"}) \in SUBSET Dos(C)
        /\ To("swap", f) \cup Dos({"collect"}) \in SUBSET Dos(C)
        /\ To("verify", f) \in SUBSET Dos(C) /\ To("swap", f) \in SUBSET Dos(C)
        /\ Finishing \in SUBSET Dos(C)
    BY <1>9, <1>10 DEF Finishing
  <2>2. QED
    BY <1>5, <1>6, <2>1
<1>14. FilesOK(k)' /\ VerifiesOK(k)'
  <2>1. FilesOK(j) /\ VerifiesOK(j)
    BY DEF Solo
  <2>2. FilesOK(k)'
    BY <1>13, <2>1 DEF FilesOK, p, q
  <2>3. VerifiesOK(k)'
    BY <1>13, <2>1 DEF VerifiesOK, p, q
  <2>4. QED
    BY <2>2, <2>3
<1>15. ChecksOK(k)'
  <2>1. /\ Waits(p, Dos({"swap"}), Dos({"check"})) => Waits(q, Dos({"swap"}), Dos({"check"}))
        /\ Lacks(p, Dos({"push", "verify"})) => Lacks(q, Dos({"push", "verify"}))
    BY <1>5, <1>6, <1>8, <1>9, <1>10
  <2>2. QED
    BY <2>1 DEF Solo, ChecksOK, p, q
<1>16. ColdOK(k)' /\ CatchesUp(k)'
  <2>1. /\ Waits(p, Finishing, Dos({"catchup"})) => Waits(q, Finishing, Dos({"catchup"}))
        /\ Lacks(p, Dos({"start", "swap"})) => Lacks(q, Dos({"start", "swap"}))
    BY <1>5, <1>6, <1>8, <1>9, <1>10 DEF Finishing
  <2>2. ColdOK(k)'
    BY <2>1 DEF Solo, ColdOK, Whole, p, q
  <2>3. CatchesUp(k)'
    BY <2>1 DEF Solo, CatchesUp, Whole, p, q
  <2>4. QED
    BY <2>2, <2>3
<1>17. QED
  BY <1>11, <1>12, <1>14, <1>15, <1>16 DEF Solo, q

\* A step of another actor.
LEMMA SoloSame ==
  ASSUME NEW j, Solo(j), NEW k, k.plan = j.plan, k.cold = j.cold, k.dist_ok = j.dist_ok,
         k.ok = j.ok, k.sum = j.sum, UNCHANGED <<file, staged, done>>,
         image' \in {None, image} \/ (image' = file /\ Whole(file))
  PROVE  Solo(k)'
<1>1. Ordered(k.plan) /\ StagesOK(k)' /\ FilesOK(k)' /\ VerifiesOK(k)' /\ ChecksOK(k)'
  BY DEF Solo, StagesOK, FilesOK, VerifiesOK, ChecksOK
<1>2. ColdOK(k)' /\ CatchesUp(k)'
  BY DEF Solo, ColdOK, CatchesUp, Whole
<1>3. QED
  BY <1>1, <1>2 DEF Solo

LEMMA SoloPush ==
  ASSUME NEW j, Ends(j.plan), Solo(j), NEW m, m = 2, m \in 2..Len(j.plan), NEW k, NEW x, NEW content,
         NEW ok \in BOOLEAN,
         j.plan[1].do = "push", j.plan[1].part = x, k.plan = From(j.plan, m), k.cold = j.cold,
         k.dist_ok = (j.dist_ok /\ ok), k.ok = j.ok, k.sum = j.sum,
         staged' = [staged EXCEPT ![x] = content], DOMAIN staged = Files, UNCHANGED <<file, image, done>>
  PROVE  Solo(k)'
<1> DEFINE p == j.plan
           r == From(p, m)
<1>1. /\ p \in Seq(Step) /\ Len(p) \in Nat /\ m \in 1..Len(p) /\ 1 \in 1..m-1
      /\ Len(p) > 0 /\ p[1] \in Step
  BY HeadIs
<1>2. /\ \A T : Lacks(p, T) => Lacks(r, T)
      /\ \A T, S : Waits(p, T, S) /\ (\A i \in 1..m-1 : p[i] \notin S) => Waits(r, T, S)
      /\ \A T, S : Clear(p, T, S) /\ p[1] \in T => Lacks(r, S)
  BY <1>1, Left
<1>3. Ordered(p) /\ Ordered(r)
  BY <1>1, OrderedLeft DEF Solo
<1>4. k.plan = r /\ \A T : p[1] \in T => ~ Lacks(p, T) /\ \A S : ~ Waits(p, T, S)
  BY <1>1, HeadWaits
<1> HIDE DEF r
<1>5. p[1] \in To("push", x) /\ p[1] \in Dos({"push", "verify"})
      /\ \A i \in 1..m-1 : i = 1
  BY <1>1 DEF To, Dos
<1>6. StagesOK(k)'
  <2> SUFFICES ASSUME NEW c \in {"user", "system", "start"}, c \notin done, k.ok
               PROVE  Waits(r, Finishing, Dos({c}))
    BY <1>4 DEF StagesOK
  <2>1. Waits(p, Finishing, Dos({c}))
    BY DEF Solo, StagesOK
  <2>2. \A i \in 1..m-1 : p[i] \notin Dos({c})
    BY DEF Dos
  <2>3. QED
    BY <1>2, <2>1, <2>2
<1>7. FilesOK(k)'
  <2> SUFFICES ASSUME NEW f \in Files, k.ok, ~ Waits(r, Finishing, To("swap", f))
               PROVE  file'[f] = k.sum[f] /\ Lacks(r, To("swap", f) \cup Dos({"collect"}))
    BY <1>4 DEF FilesOK
  <2>1. \A i \in 1..m-1 : p[i] \notin To("swap", f)
    BY DEF To, Dos
  <2>2. ~ Waits(p, Finishing, To("swap", f))
    BY <1>2, <2>1
  <2>3. file[f] = j.sum[f] /\ Lacks(p, To("swap", f) \cup Dos({"collect"}))
    BY <2>2 DEF Solo, FilesOK
  <2>4. QED
    BY <1>2, <2>3
<1>8. VerifiesOK(k)'
  <2> SUFFICES ASSUME NEW f \in Files, k.dist_ok, ~ Waits(r, To("swap", f), To("verify", f))
               PROVE  /\ staged'[f] = k.sum[f] /\ k.sum[f] # None
                      /\ Lacks(r, To("push", f) \cup Dos({"collect"}))
    BY <1>4 DEF VerifiesOK
  <2>1. \A i \in 1..m-1 : p[i] \notin To("verify", f)
    BY DEF To, Dos
  <2>2. ~ Waits(p, To("swap", f), To("verify", f))
    BY <1>2, <2>1
  <2>3. /\ staged[f] = j.sum[f] /\ j.sum[f] # None
        /\ Lacks(p, To("push", f) \cup Dos({"collect"}))
    BY <2>2 DEF Solo, VerifiesOK
  <2>4. f # x
    BY <1>4, <1>5, <2>3
  <2>5. QED
    BY <1>2, <2>3, <2>4
<1>9. ChecksOK(k)'
  <2>1. \A i \in 1..m-1 : p[i] \notin Dos({"check"})
    BY DEF Dos
  <2>2. QED
    BY <1>2, <1>4, <1>5, <2>1 DEF Solo, ChecksOK
<1>10. ColdOK(k)' /\ CatchesUp(k)'
  <2>1. \A i \in 1..m-1 : p[i] \notin Dos({"catchup"})
    BY DEF Dos
  <2>2. ColdOK(k)'
    BY <1>2, <1>4 DEF Solo, ColdOK, Whole
  <2>3. CatchesUp(k)'
    BY <1>2, <1>4, <2>1 DEF Solo, CatchesUp, Whole
  <2>4. QED
    BY <2>2, <2>3
<1>11. QED
  BY <1>3, <1>4, <1>5, <1>6, <1>7, <1>8, <1>9, <1>10 DEF Solo

LEMMA SoloVerify ==
  ASSUME NEW j, Ends(j.plan), Solo(j), NEW m, m = 2, m \in 2..Len(j.plan), NEW k, NEW x,
         NEW ok \in BOOLEAN, ok => ShaMatch(j, x),
         j.plan[1].do = "verify", j.plan[1].part = x, k.plan = From(j.plan, m), k.cold = j.cold,
         k.dist_ok = (j.dist_ok /\ ok), k.ok = j.ok, k.sum = j.sum,
         UNCHANGED <<staged, file, image, done>>
  PROVE  Solo(k)'
<1> DEFINE p == j.plan
           r == From(p, m)
<1>1. /\ p \in Seq(Step) /\ Len(p) \in Nat /\ m \in 1..Len(p) /\ 1 \in 1..m-1
      /\ Len(p) > 0 /\ p[1] \in Step
  BY HeadIs
<1>2. /\ \A T : Lacks(p, T) => Lacks(r, T)
      /\ \A T, S : Waits(p, T, S) /\ (\A i \in 1..m-1 : p[i] \notin S) => Waits(r, T, S)
      /\ \A T, S : Clear(p, T, S) /\ p[1] \in T => Lacks(r, S)
  BY <1>1, Left
<1>3. Ordered(p) /\ Ordered(r)
  BY <1>1, OrderedLeft DEF Solo
<1>4. k.plan = r /\ \A T : p[1] \in T => ~ Lacks(p, T) /\ \A S : ~ Waits(p, T, S)
  BY <1>1, HeadWaits
<1> HIDE DEF r
<1>5. p[1] \in To("verify", x) /\ p[1] \in Dos({"push", "verify"})
      /\ \A i \in 1..m-1 : i = 1
  BY <1>1 DEF To, Dos
<1>6. StagesOK(k)'
  <2> SUFFICES ASSUME NEW c \in {"user", "system", "start"}, c \notin done, k.ok
               PROVE  Waits(r, Finishing, Dos({c}))
    BY <1>4 DEF StagesOK
  <2>1. Waits(p, Finishing, Dos({c}))
    BY DEF Solo, StagesOK
  <2>2. \A i \in 1..m-1 : p[i] \notin Dos({c})
    BY DEF Dos
  <2>3. QED
    BY <1>2, <2>1, <2>2
<1>7. FilesOK(k)'
  <2> SUFFICES ASSUME NEW f \in Files, k.ok, ~ Waits(r, Finishing, To("swap", f))
               PROVE  file'[f] = k.sum[f] /\ Lacks(r, To("swap", f) \cup Dos({"collect"}))
    BY <1>4 DEF FilesOK
  <2>1. \A i \in 1..m-1 : p[i] \notin To("swap", f)
    BY DEF To, Dos
  <2>2. ~ Waits(p, Finishing, To("swap", f))
    BY <1>2, <2>1
  <2>3. file[f] = j.sum[f] /\ Lacks(p, To("swap", f) \cup Dos({"collect"}))
    BY <2>2 DEF Solo, FilesOK
  <2>4. QED
    BY <1>2, <2>3
<1>8. VerifiesOK(k)'
  <2> SUFFICES ASSUME NEW f \in Files, k.dist_ok, ~ Waits(r, To("swap", f), To("verify", f))
               PROVE  /\ staged'[f] = k.sum[f] /\ k.sum[f] # None
                      /\ Lacks(r, To("push", f) \cup Dos({"collect"}))
    BY <1>4 DEF VerifiesOK
  <2>1. CASE f = x
    <3>1. staged[f] = j.sum[f] /\ j.sum[f] # None
      BY <2>1 DEF ShaMatch
    <3>2. Lacks(r, To("push", f) \cup Dos({"collect"}))
      BY <1>2, <1>3, <1>5, <2>1 DEF Ordered
    <3>3. QED
      BY <3>1, <3>2
  <2>2. CASE f # x
    <3>1. \A i \in 1..m-1 : p[i] \notin To("verify", f)
      BY <1>5, <2>2 DEF To, Dos
    <3>2. ~ Waits(p, To("swap", f), To("verify", f))
      BY <1>2, <3>1
    <3>3. /\ staged[f] = j.sum[f] /\ j.sum[f] # None
          /\ Lacks(p, To("push", f) \cup Dos({"collect"}))
      BY <3>2 DEF Solo, VerifiesOK
    <3>4. QED
      BY <1>2, <3>3
  <2>3. QED
    BY <2>1, <2>2
<1>9. ChecksOK(k)'
  <2>1. \A i \in 1..m-1 : p[i] \notin Dos({"check"})
    BY DEF Dos
  <2>2. QED
    BY <1>2, <1>4, <1>5, <2>1 DEF Solo, ChecksOK
<1>10. ColdOK(k)' /\ CatchesUp(k)'
  <2>1. \A i \in 1..m-1 : p[i] \notin Dos({"catchup"})
    BY DEF Dos
  <2>2. ColdOK(k)'
    BY <1>2, <1>4 DEF Solo, ColdOK, Whole
  <2>3. CatchesUp(k)'
    BY <1>2, <1>4, <2>1 DEF Solo, CatchesUp, Whole
  <2>4. QED
    BY <2>2, <2>3
<1>11. QED
  BY <1>3, <1>4, <1>5, <1>6, <1>7, <1>8, <1>9, <1>10 DEF Solo

LEMMA SoloSwap ==
  ASSUME NEW j, Ends(j.plan), Solo(j), NEW m \in 2..Len(j.plan), NEW k, NEW x,
         NEW ok \in BOOLEAN, NEW effect \in BOOLEAN, ok => effect /\ m = 2,
         \A i \in 1..m-1 : j.plan[i].do = "swap",
         j.plan[1].part = x, k.plan = From(j.plan, m), k.cold = j.cold,
         k.dist_ok = j.dist_ok, k.ok = (j.ok /\ ok), k.sum = j.sum,
         file' = IF effect THEN [file EXCEPT ![x] = staged[x]] ELSE file,
         staged' = IF effect THEN [staged EXCEPT ![x] = None] ELSE staged,
         DOMAIN file = Files, DOMAIN staged = Files, UNCHANGED <<image, done>>
  PROVE  Solo(k)'
<1> DEFINE p == j.plan
           r == From(p, m)
<1>1. /\ p \in Seq(Step) /\ Len(p) \in Nat /\ m \in 1..Len(p) /\ 1 \in 1..m-1
      /\ Len(p) > 0 /\ p[1] \in Step
  BY HeadIs
<1>2. /\ \A T : Lacks(p, T) => Lacks(r, T)
      /\ \A T, S : Waits(p, T, S) /\ (\A i \in 1..m-1 : p[i] \notin S) => Waits(r, T, S)
      /\ \A T, S : Clear(p, T, S) /\ p[1] \in T => Lacks(r, S)
  BY <1>1, Left
<1>3. Ordered(p) /\ Ordered(r)
  BY <1>1, OrderedLeft DEF Solo
<1>4. k.plan = r /\ \A T : p[1] \in T => ~ Lacks(p, T) /\ \A S : ~ Waits(p, T, S)
  BY <1>1, HeadWaits
<1> HIDE DEF r
<1>5. p[1] \in To("swap", x) /\ p[1] \in Dos({"swap"}) /\ p[1] \in Dos({"start", "swap"})
  BY <1>1 DEF To, Dos
<1>6. StagesOK(k)'
  <2> SUFFICES ASSUME NEW c \in {"user", "system", "start"}, c \notin done, k.ok
               PROVE  Waits(r, Finishing, Dos({c}))
    BY <1>4 DEF StagesOK
  <2>1. Waits(p, Finishing, Dos({c}))
    BY DEF Solo, StagesOK
  <2>2. \A i \in 1..m-1 : p[i] \notin Dos({c})
    BY DEF Dos
  <2>3. QED
    BY <1>2, <2>1, <2>2
<1>7. FilesOK(k)'
  <2> SUFFICES ASSUME NEW f \in Files, k.ok, ~ Waits(r, Finishing, To("swap", f))
               PROVE  file'[f] = k.sum[f] /\ Lacks(r, To("swap", f) \cup Dos({"collect"}))
    BY <1>4 DEF FilesOK
  <2>1. CASE f = x
    <3>1. j.dist_ok /\ ~ Waits(p, To("swap", f), To("verify", f))
      BY <1>4, <1>5, <2>1 DEF Solo, ChecksOK
    <3>2. staged[f] = j.sum[f]
      BY <3>1 DEF Solo, VerifiesOK
    <3>3. Lacks(r, To("swap", f) \cup Dos({"collect"}))
      BY <1>2, <1>3, <1>5, <2>1 DEF Ordered
    <3>4. QED
      BY <2>1, <3>2, <3>3
  <2>2. CASE f # x
    <3>1. \A i \in 1..m-1 : p[i] \notin To("swap", f)
      <4>1. \A i \in 1..m-1 : i = 1
        OBVIOUS
      <4>2. QED
        BY <2>2, <4>1 DEF To, Dos
    <3>2. ~ Waits(p, Finishing, To("swap", f))
      BY <1>2, <3>1
    <3>3. file[f] = j.sum[f] /\ Lacks(p, To("swap", f) \cup Dos({"collect"}))
      BY <3>2 DEF Solo, FilesOK
    <3>4. QED
      BY <1>2, <2>2, <3>3
  <2>3. QED
    BY <2>1, <2>2
<1>8. VerifiesOK(k)'
  <2> SUFFICES ASSUME NEW f \in Files, k.dist_ok, ~ Waits(r, To("swap", f), To("verify", f))
               PROVE  /\ staged'[f] = k.sum[f] /\ k.sum[f] # None
                      /\ Lacks(r, To("push", f) \cup Dos({"collect"}))
    BY <1>4 DEF VerifiesOK
  <2>1. f # x
    <3>1. CASE f = x
      <4>1. Lacks(r, To("swap", f) \cup Dos({"collect"}))
        BY <1>2, <1>3, <1>5, <3>1 DEF Ordered
      <4>2. Lacks(r, To("swap", f))
        BY <4>1 DEF Lacks
      <4>3. QED
        BY <4>2, LacksWaits
    <3>2. QED
      BY <3>1
  <2>2. \A i \in 1..m-1 : p[i] \notin To("verify", f)
    BY DEF To, Dos
  <2>3. ~ Waits(p, To("swap", f), To("verify", f))
    BY <1>2, <2>2
  <2>4. /\ staged[f] = j.sum[f] /\ j.sum[f] # None
        /\ Lacks(p, To("push", f) \cup Dos({"collect"}))
    BY <2>3 DEF Solo, VerifiesOK
  <2>5. QED
    BY <1>2, <2>1, <2>4
<1>9. ChecksOK(k)'
  BY <1>2, <1>4, <1>5 DEF Solo, ChecksOK
<1>10. ColdOK(k)' /\ CatchesUp(k)'
  <2>1. \A i \in 1..m-1 : p[i] \notin Dos({"catchup"})
    BY DEF Dos
  <2>2. j.cold => "start" \notin done
    BY <1>4, <1>5 DEF Solo, ColdOK
  <2>3. ColdOK(k)'
    BY <2>2 DEF ColdOK
  <2>4. CatchesUp(k)'
    BY <1>2, <1>4, <2>1, <2>2 DEF Solo, CatchesUp
  <2>5. QED
    BY <2>3, <2>4
<1>11. QED
  BY <1>3, <1>4, <1>5, <1>6, <1>7, <1>8, <1>9, <1>10 DEF Solo

LEMMA SoloStart ==
  ASSUME NEW j, Ends(j.plan), Solo(j), NEW m, m = 2, m \in 2..Len(j.plan), NEW k,
         NEW ok \in BOOLEAN, NEW effect \in BOOLEAN, ok => effect,
         j.plan[1].do = "start", k.plan = From(j.plan, m), k.cold = j.cold,
         k.dist_ok = j.dist_ok, k.ok = (j.ok /\ ok), k.sum = j.sum,
         done' = IF effect THEN done \cup {"start"} ELSE done,
         UNCHANGED <<file, staged, image>>, image # None => "start" \in done
  PROVE  Solo(k)'
<1> DEFINE p == j.plan
           r == From(p, m)
<1>1. /\ p \in Seq(Step) /\ Len(p) \in Nat /\ m \in 1..Len(p) /\ 1 \in 1..m-1
      /\ Len(p) > 0 /\ p[1] \in Step
  BY HeadIs
<1>2. /\ \A T : Lacks(p, T) => Lacks(r, T)
      /\ \A T, S : Waits(p, T, S) /\ (\A i \in 1..m-1 : p[i] \notin S) => Waits(r, T, S)
      /\ \A T, S : Clear(p, T, S) /\ p[1] \in T => Lacks(r, S)
  BY <1>1, Left
<1>3. Ordered(p) /\ Ordered(r)
  BY <1>1, OrderedLeft DEF Solo
<1>4. k.plan = r /\ \A T : p[1] \in T => ~ Lacks(p, T) /\ \A S : ~ Waits(p, T, S)
  BY <1>1, HeadWaits
<1> HIDE DEF r
<1>5. p[1] \in Dos({"start"}) /\ p[1] \in Dos({"start", "swap"})
      /\ \A i \in 1..m-1 : i = 1
  BY <1>1 DEF Dos
<1>6. StagesOK(k)'
  <2> SUFFICES ASSUME NEW c \in {"user", "system", "start"}, c \notin done', k.ok
               PROVE  Waits(r, Finishing, Dos({c}))
    BY <1>4 DEF StagesOK
  <2>1. c # "start" /\ c \notin done
    OBVIOUS
  <2>2. Waits(p, Finishing, Dos({c}))
    BY <2>1 DEF Solo, StagesOK
  <2>3. \A i \in 1..m-1 : p[i] \notin Dos({c})
    BY <1>5, <2>1 DEF Dos
  <2>4. QED
    BY <1>2, <2>2, <2>3
<1>7. FilesOK(k)'
  <2> SUFFICES ASSUME NEW f \in Files, k.ok, ~ Waits(r, Finishing, To("swap", f))
               PROVE  file'[f] = k.sum[f] /\ Lacks(r, To("swap", f) \cup Dos({"collect"}))
    BY <1>4 DEF FilesOK
  <2>1. \A i \in 1..m-1 : p[i] \notin To("swap", f)
    BY DEF To, Dos
  <2>2. ~ Waits(p, Finishing, To("swap", f))
    BY <1>2, <2>1
  <2>3. file[f] = j.sum[f] /\ Lacks(p, To("swap", f) \cup Dos({"collect"}))
    BY <2>2 DEF Solo, FilesOK
  <2>4. QED
    BY <1>2, <2>3
<1>8. VerifiesOK(k)'
  <2> SUFFICES ASSUME NEW f \in Files, k.dist_ok, ~ Waits(r, To("swap", f), To("verify", f))
               PROVE  /\ staged'[f] = k.sum[f] /\ k.sum[f] # None
                      /\ Lacks(r, To("push", f) \cup Dos({"collect"}))
    BY <1>4 DEF VerifiesOK
  <2>1. \A i \in 1..m-1 : p[i] \notin To("verify", f)
    BY DEF To, Dos
  <2>2. ~ Waits(p, To("swap", f), To("verify", f))
    BY <1>2, <2>1
  <2>3. QED
    BY <1>2, <2>2 DEF Solo, VerifiesOK
<1>9. ChecksOK(k)'
  <2>1. \A i \in 1..m-1 : p[i] \notin Dos({"check"})
    BY DEF Dos
  <2>2. QED
    BY <1>2, <1>4, <2>1 DEF Solo, ChecksOK
<1>10. ColdOK(k)' /\ CatchesUp(k)'
  <2>1. \A i \in 1..m-1 : p[i] \notin Dos({"catchup"})
    BY DEF Dos
  <2>2. j.cold => "start" \notin done
    BY <1>4, <1>5 DEF Solo, ColdOK
  <2>3. Lacks(r, Dos({"start", "swap"}))
    BY <1>2, <1>3, <1>5 DEF Ordered
  <2>4. ColdOK(k)'
    BY <1>4, <2>2, <2>3 DEF ColdOK
  <2>5. CatchesUp(k)'
    BY <1>2, <1>4, <2>1, <2>2 DEF Solo, CatchesUp
  <2>6. QED
    BY <2>4, <2>5
<1>11. QED
  BY <1>3, <1>4, <1>5, <1>6, <1>7, <1>8, <1>9, <1>10 DEF Solo

\* A new run.
LEMMA SoloBegins ==
  ASSUME NEW v, NEW ack
  PROVE  Solo(Run(v, ack))
<1> DEFINE p == ProvisionPlan
           k == Run(v, ack)
<1>1. k.plan = p /\ k.cold = ("start" \notin done)
  BY DEF Run
<1> HIDE DEF k
<1>2. /\ Piece(p, 1, 18) /\ Ends(p)
      /\ \A c \in {"user", "system", "check", "start", "catchup"} : Has(p, {Do(c)})
      /\ \A f \in Files : Has(p, To("verify", f)) /\ Has(p, To("swap", f))
  BY PlanIs
<1> HIDE DEF p
<1>3. \A T, S : (\A s \in S : \A t \in T : Rank(s) < Rank(t)) =>
                Clear(p, T, S) /\ (Has(p, S) => Waits(p, T, S))
  BY <1>2, PieceOrders
<1>4. ASSUME NEW c \in {"user", "system", "check", "start", "catchup"} PROVE Has(p, Dos({c}))
  <2>1. {Do(c)} \subseteq Dos({c})
    BY StepIs DEF Dos, Do, Stages
  <2>2. QED
    BY <1>2, <2>1 DEF Has
<1>5. \A c \in {"user", "system", "start", "catchup"} :
        \A s \in Dos({c}) : \A t \in Finishing : Rank(s) < Rank(t)
  BY DEF Finishing, Dos, Rank, BuilderDo, Compiling
<1>6. \A f \in Files : \A s \in To("swap", f) : \A t \in Finishing : Rank(s) < Rank(t)
  BY DEF Finishing, To, Dos, Rank, BuilderDo, Compiling
<1>7. \A f \in Files : \A s \in To("verify", f) : \A t \in To("swap", f) : Rank(s) < Rank(t)
  BY DEF To, Dos, Rank, BuilderDo, Compiling
<1>8. \A s \in Dos({"check"}) : \A t \in Dos({"swap"}) : Rank(s) < Rank(t)
  BY DEF Dos, Rank, BuilderDo, Compiling
<1>9. Ordered(p)
  <2>1. ASSUME NEW T, NEW n \in Nat \ {3, 5}, \A t \in T : Rank(t) = n PROVE Clear(p, T, T)
    <3>1. \A i, l \in 1..Len(p) : i < l =>
            Rank(p[i]) < Rank(p[l]) \/ (Rank(p[i]) = Rank(p[l]) /\ Rank(p[i]) \in {3, 5})
      BY <1>2 DEF Piece
    <3>2. \A i, l \in 1..Len(p) : i < l /\ p[i] \in T => p[l] \notin T
      BY <2>1, <3>1
    <3>3. QED
      BY <3>2 DEF Clear
  <2>2. ASSUME NEW T, NEW S, NEW U, Clear(p, T, S), Clear(p, T, U) PROVE Clear(p, T, S \cup U)
    BY <2>2 DEF Clear
  <2>3. ASSUME NEW f \in Files
        PROVE  /\ Clear(p, To("verify", f), To("push", f) \cup Dos({"collect"}))
               /\ Clear(p, To("swap", f), To("swap", f) \cup Dos({"collect"}))
    <3>1. \A s \in To("push", f) : \A t \in To("verify", f) : Rank(s) < Rank(t)
      BY DEF To, Dos, Rank, BuilderDo, Compiling
    <3>2. /\ \A s \in Dos({"collect"}) : \A t \in To("verify", f) : Rank(s) < Rank(t)
          /\ \A s \in Dos({"collect"}) : \A t \in To("swap", f) : Rank(s) < Rank(t)
      BY DEF To, Dos, Rank, BuilderDo, Compiling
    <3>3. \E n \in Nat \ {3, 5} : \A t \in To("swap", f) : Rank(t) = n
      <4>1. \A t \in To("swap", f) : Rank(t) = IF f = "binary" THEN 11 ELSE 12
        BY DEF To, Dos, Rank, BuilderDo, Compiling
      <4>2. QED
        BY <4>1
    <3>4. /\ Clear(p, To("verify", f), To("push", f)) /\ Clear(p, To("verify", f), Dos({"collect"}))
          /\ Clear(p, To("swap", f), Dos({"collect"}))
      BY <1>3, <3>1, <3>2
    <3>5. Clear(p, To("swap", f), To("swap", f))
      BY <2>1, <3>3
    <3>6. QED
      BY <2>2, <3>4, <3>5
  <2>4. Clear(p, Dos({"check"}), Dos({"push", "verify"}))
    <3>1. \A s \in Dos({"push", "verify"}) : \A t \in Dos({"check"}) : Rank(s) < Rank(t)
      BY DEF Dos, Rank, BuilderDo, Compiling
    <3>2. QED
      BY <1>3, <3>1
  <2>5. Clear(p, Dos({"start"}), Dos({"start", "swap"}))
    <3>1. \A s \in Dos({"swap"}) : \A t \in Dos({"start"}) : Rank(s) < Rank(t)
      BY DEF Dos, Rank, BuilderDo, Compiling
    <3>2. \A t \in Dos({"start"}) : Rank(t) = 16
      BY DEF Dos, Rank, BuilderDo, Compiling
    <3>3. Clear(p, Dos({"start"}), Dos({"swap"})) /\ Clear(p, Dos({"start"}), Dos({"start"}))
      BY <1>3, <2>1, <3>1, <3>2
    <3>4. Dos({"start", "swap"}) = Dos({"start"}) \cup Dos({"swap"})
      BY DEF Dos
    <3>5. QED
      BY <2>2, <3>3, <3>4
  <2>6. QED
    BY <2>3, <2>4, <2>5 DEF Ordered
<1>10. StagesOK(k)
  BY <1>1, <1>3, <1>4, <1>5 DEF StagesOK
<1>11. FilesOK(k)
  BY <1>1, <1>2, <1>3, <1>6 DEF FilesOK
<1>12. VerifiesOK(k)
  BY <1>1, <1>2, <1>3, <1>7 DEF VerifiesOK
<1>13. ChecksOK(k)
  BY <1>1, <1>3, <1>4, <1>8 DEF ChecksOK
<1>14. ColdOK(k) /\ CatchesUp(k)
  BY <1>1, <1>3, <1>4, <1>5 DEF ColdOK, CatchesUp
<1>15. QED
  BY <1>1, <1>9, <1>10, <1>11, <1>12, <1>13, <1>14 DEF Solo, k
-----------------------------------------------------------------------------
(* The invariant. *)

\* What a report of success says of the files, and of the process.
Reported ==
  (report # None /\ report.succeeded) =>
    /\ done = Stages
    /\ \A f \in Files : file[f] = report.sum[f]
    /\ report.cold => Whole(file) /\ image \in {None, file}

SoloInv ==
  /\ Inv
  /\ "start" \in done => "unit" \in done
  /\ image # None => "start" \in done
  /\ \A o \in Provisioners : job[o] # None => Solo(job[o]) /\ report = None
  /\ Reported

LEMMA SoloMeans == SoloInv => SuccessMeansServing
<1> SUFFICES ASSUME SoloInv, report # None, report.succeeded
             PROVE  SuccessMeansServing
  BY DEF SuccessMeansServing
<1>1. Reported /\ NotStartedUnprepared
  BY DEF SoloInv, Inv
<1>2. "start" \in done
  BY <1>1 DEF Reported, Stages
<1>3. QED
  BY <1>1, <1>2 DEF Reported, NotStartedUnprepared, SuccessMeansServing

\* A step of another actor.
LEMMA SoloOthers ==
  ASSUME NEW op, Provisioners = {op}, SoloInv, Inv', UNCHANGED <<file, staged, done, report>>,
         image' \in {None, image} \/ (image' = file /\ Whole(file) /\ "start" \in done),
         job'[op] # None => LET j == job[op]
                                k == job'[op]
                            IN /\ j # None /\ k.plan = j.plan /\ k.cold = j.cold /\ k.ok = j.ok
                               /\ k.dist_ok = j.dist_ok /\ k.sum = j.sum
  PROVE  SoloInv'
<1>1. ASSUME job'[op] # None PROVE Solo(job[op])' /\ report' = None
  <2>1. PICK j, k : j = job[op] /\ k = job'[op]
    OBVIOUS
  <2>2. /\ j # None /\ k.plan = j.plan /\ k.cold = j.cold /\ k.ok = j.ok
        /\ k.dist_ok = j.dist_ok /\ k.sum = j.sum
    BY <1>1, <2>1
  <2>3. Solo(j) /\ report = None
    BY <2>1, <2>2 DEF SoloInv
  <2>4. Solo(k)'
    BY <2>2, <2>3, SoloSame
  <2>5. QED
    BY <2>1, <2>3, <2>4
<1>2. Reported'
  BY DEF SoloInv, Reported, Whole
<1>3. ("start" \in done => "unit" \in done)' /\ (image # None => "start" \in done)'
  BY DEF SoloInv
<1>4. QED
  BY <1>1, <1>2, <1>3 DEF SoloInv

\* A step of the run.
LEMMA SoloStep ==
  ASSUME NEW op, Provisioners = {op}, SoloInv, Inv', job[op] # None, NEW k,
         job' = [job EXCEPT ![op] = k], Solo(k)', UNCHANGED report,
         "start" \in done' => "unit" \in done', image' # None => "start" \in done'
  PROVE  SoloInv'
<1>1. op \in DOMAIN job /\ report = None
  BY DEF SoloInv, Inv, JobsOK, Operators
<1>2. job'[op] = k
  BY <1>1
<1>3. Solo(job[op])' /\ report' = None
  BY <1>1, <1>2
<1>4. QED
  BY <1>3 DEF SoloInv, Reported
-----------------------------------------------------------------------------
(* The steps. *)

LEMMA AtSolo ==
  ASSUME NEW op, Provisioners = {op}, SoloInv, NEW c, c # "finish", At(op, c)
  PROVE  \E j \in Runs :
           /\ job[op] = j /\ job[op] # None /\ Solo(j) /\ Ends(j.plan) /\ j.plan \in Seq(Step)
           /\ Head(j.plan) = j.plan[1] /\ j.plan[1].do = c /\ report = None
           /\ 2 \in 2..Len(j.plan) /\ Tail(j.plan) = From(j.plan, 2)
<1>1. Inv /\ op \in Provisioners
  BY DEF SoloInv
<1>2. PICK j \in Runs :
        /\ job[op] = j /\ j # None /\ Ends(j.plan) /\ j.plan \in Seq(Step)
        /\ Head(j.plan) = j.plan[1] /\ j.plan[1].do = c
        /\ Len(j.plan) \in Nat /\ Len(j.plan) > 1
  BY <1>1, AtRun
<1>3. Solo(j) /\ report = None
  BY <1>1, <1>2 DEF SoloInv
<1>4. j.plan \in Seq(Step) /\ Len(j.plan) > 0 /\ 2 \in 2..Len(j.plan)
  BY <1>2
<1>5. Tail(j.plan) = From(j.plan, 2)
  BY <1>4, TailIsFrom
<1>6. QED
  BY <1>2, <1>3, <1>4, <1>5

\* A command that is done with, and touched nothing but the stages.
LEMMA SoloProceeds ==
  ASSUME NEW op, Provisioners = {op}, SoloInv, Inv', NEW c, c # "finish", At(op, c),
         NEW ok \in BOOLEAN, Proceed(op, ok),
         c \notin {"push", "verify", "swap", "start", "collect"},
         UNCHANGED <<file, staged, image, report>>,
         done \subseteq done', "start" \in done' => "start" \in done,
         "start" \in done' => "unit" \in done',
         c \in {"user", "system"} => c \in done' \/ ~ok,
         c = "check" => job[op].dist_ok,
         c = "catchup" => ~ok \/ (job[op].cold => "start" \in done /\ Whole(file))
  PROVE  SoloInv'
<1>1. PICK j \in Runs :
        /\ job[op] = j /\ job[op] # None /\ Solo(j) /\ Ends(j.plan)
        /\ j.plan[1].do = c /\ 2 \in 2..Len(j.plan) /\ Tail(j.plan) = From(j.plan, 2)
  BY AtSolo
<1> DEFINE k == [j EXCEPT !.plan = Tail(j.plan), !.ok = j.ok /\ ok]
<1>2. job' = [job EXCEPT ![op] = k]
  BY <1>1 DEF Proceed
<1>3. /\ k.plan = From(j.plan, 2) /\ k.cold = j.cold /\ k.dist_ok = j.dist_ok
      /\ k.ok = (j.ok /\ ok) /\ k.sum = j.sum
  BY <1>1 DEF Runs
<1> HIDE DEF k
<1>4. \A i \in 1..2-1 :
           /\ j.plan[i].do \notin {"push", "verify", "swap", "start"}
           /\ j.plan[i].do \in {"user", "system"} => j.plan[i].do \in done' \/ ~k.ok
           /\ j.plan[i].do = "check" => j.dist_ok
           /\ j.plan[i].do = "catchup" => ~k.ok \/ (j.cold => "start" \in done /\ Whole(file))
  <2>1. \A i \in 1..2-1 : i = 1
    OBVIOUS
  <2>2. QED
    BY <1>1, <1>3, <2>1
<1>5. Solo(k)'
  BY <1>1, <1>3, <1>4, SoloQuiet
<1>6. image' # None => "start" \in done'
  BY DEF SoloInv
<1>7. QED
  BY <1>1, <1>2, <1>5, <1>6, SoloStep

\* The run is over and has failed.
LEMMA SoloFails ==
  ASSUME NEW op, Provisioners = {op}, SoloInv, Inv', Finished(op, FALSE),
         UNCHANGED <<file, image, done>>
  PROVE  SoloInv'
<1>1. op \in DOMAIN job
  BY DEF SoloInv, Inv, JobsOK, Operators
<1>2. job'[op] = None /\ report'.succeeded = FALSE
  BY <1>1 DEF Finished
<1>3. Reported'
  BY <1>2 DEF Reported
<1>4. QED
  BY <1>2, <1>3 DEF SoloInv

LEMMA SoloStage ==
  ASSUME NEW op, Provisioners = {op}, SoloInv, Inv', NEW c \in {"user", "system"}, Stage(op, c)
  PROVE  SoloInv'
<1>1. PICK ok \in BOOLEAN, effect \in BOOLEAN :
        /\ Effect(ok, c = "start" => "unit" \in done, effect)
        /\ done' = IF effect THEN done \cup {c} ELSE done
        /\ Proceed(op, ok)
  BY DEF Stage
<1>2. At(op, c) /\ UNCHANGED <<file, staged, image, report>>
  BY DEF Stage, files
<1>3. done \subseteq done' /\ (c \in done' \/ ~ok) /\ ("start" \in done' => "start" \in done)
  BY <1>1 DEF Effect
<1>4. "start" \in done' => "unit" \in done'
  BY <1>3 DEF SoloInv
<1>5. c \notin {"push", "verify", "swap", "start", "collect", "finish", "check", "catchup"}
  OBVIOUS
<1>6. QED
  BY <1>1, <1>2, <1>3, <1>4, <1>5, SoloProceeds

LEMMA SoloStarts ==
  ASSUME NEW op, Provisioners = {op}, SoloInv, Inv', Stage(op, "start")
  PROVE  SoloInv'
<1>1. PICK j \in Runs :
        /\ job[op] = j /\ job[op] # None /\ Solo(j) /\ Ends(j.plan) /\ j.plan \in Seq(Step)
        /\ Head(j.plan) = j.plan[1] /\ j.plan[1].do = "start" /\ report = None
        /\ 2 \in 2..Len(j.plan) /\ Tail(j.plan) = From(j.plan, 2)
  <2>1. At(op, "start")
    BY DEF Stage
  <2>2. QED
    BY <2>1, AtSolo
<1>2. PICK ok \in BOOLEAN, effect \in BOOLEAN :
        /\ Effect(ok, "start" = "start" => "unit" \in done, effect)
        /\ done' = IF effect THEN done \cup {"start"} ELSE done
        /\ Proceed(op, ok)
  BY DEF Stage
<1>3. UNCHANGED <<file, staged, image, report>>
  BY DEF Stage, files
<1> DEFINE k == [j EXCEPT !.plan = Tail(j.plan), !.ok = j.ok /\ ok]
<1>4. job' = [job EXCEPT ![op] = k]
  BY <1>1, <1>2 DEF Proceed
<1>5. /\ k.plan = From(j.plan, 2) /\ k.cold = j.cold /\ k.dist_ok = j.dist_ok
      /\ k.ok = (j.ok /\ ok) /\ k.sum = j.sum
  BY <1>1 DEF Runs
<1> HIDE DEF k
<1>6. ("start" \in done => "unit" \in done) /\ (image # None => "start" \in done)
  BY DEF SoloInv
<1>7. (ok => effect) /\ (effect => "unit" \in done)
  BY <1>2 DEF Effect
<1>8. Solo(k)'
  BY <1>1, <1>2, <1>3, <1>5, <1>6, <1>7, SoloStart
<1>9. ("start" \in done' => "unit" \in done') /\ (image' # None => "start" \in done')
  BY <1>2, <1>3, <1>6, <1>7
<1>10. QED
  BY <1>1, <1>3, <1>4, <1>8, <1>9, SoloStep

LEMMA SoloUnit ==
  ASSUME NEW op, Provisioners = {op}, SoloInv, Inv', InstallUnit(op)
  PROVE  SoloInv'
<1>1. PICK ok \in BOOLEAN, effect \in BOOLEAN :
        /\ done' = IF effect THEN done \cup {"unit"} ELSE done
        /\ Proceed(op, ok)
  BY DEF InstallUnit
<1>2. At(op, "unit") /\ UNCHANGED <<file, staged, image, report>>
  BY DEF InstallUnit, files
<1>3. done \subseteq done' /\ ("start" \in done' => "start" \in done)
  BY <1>1
<1>4. "start" \in done' => "unit" \in done'
  BY <1>3 DEF SoloInv
<1>5. QED
  BY <1>1, <1>2, <1>3, <1>4, SoloProceeds

\* A disk has failed, and the run goes on with the next.
LEMMA SoloDiskFails ==
  ASSUME NEW op, Provisioners = {op}, SoloInv, Inv', NEW j \in Runs, job[op] = j,
         job[op] # None, Solo(j), Ends(j.plan), 2 \in 2..Len(j.plan),
         j.plan[1].do \in {"probe", "mkfs", "mount"}, NEW k, job' = [job EXCEPT ![op] = k],
         k.plan = From(j.plan, 2), k.cold = j.cold, k.dist_ok = j.dist_ok, k.ok = j.ok,
         k.sum = j.sum, UNCHANGED <<file, staged, image, report, done>>
  PROVE  SoloInv'
<1>1. \A i \in 1..2-1 :
           /\ j.plan[i].do \notin {"push", "verify", "swap", "start"}
           /\ j.plan[i].do \in {"user", "system"} => j.plan[i].do \in done' \/ ~k.ok
           /\ j.plan[i].do = "check" => j.dist_ok
           /\ j.plan[i].do = "catchup" => ~k.ok \/ (j.cold => "start" \in done /\ Whole(file))
  <2>1. \A i \in 1..2-1 : i = 1
    OBVIOUS
  <2>2. QED
    BY <2>1
<1>2. Solo(k)'
  BY <1>1, SoloQuiet
<1>3. ("start" \in done' => "unit" \in done') /\ (image' # None => "start" \in done')
  BY DEF SoloInv
<1>4. QED
  BY <1>2, <1>3, SoloStep

\* A disk goes on to the next step of its setup.
LEMMA SoloDiskOnward ==
  ASSUME NEW op, Provisioners = {op}, SoloInv, Inv', NEW j \in Runs, job[op] = j,
         job[op] # None, Solo(j), Ends(j.plan), j.plan[1].do \in {"probe", "mkfs"},
         NEW c \in {"mkfs", "mount"}, NEW k, job' = [job EXCEPT ![op] = k],
         k.plan = Onward(j.plan, c), k.cold = j.cold, k.dist_ok = j.dist_ok, k.ok = j.ok,
         k.sum = j.sum, UNCHANGED <<file, staged, image, report, done>>
  PROVE  SoloInv'
<1>1. Solo(k)'
  BY SoloOnward
<1>2. ("start" \in done' => "unit" \in done') /\ (image' # None => "start" \in done')
  BY DEF SoloInv
<1>3. QED
  BY <1>1, <1>2, SoloStep

LEMMA SoloProbe ==
  ASSUME NEW op, Provisioners = {op}, SoloInv, Inv', Probe(op)
  PROVE  SoloInv'
<1>1. PICK j \in Runs :
        /\ job[op] = j /\ job[op] # None /\ Solo(j) /\ Ends(j.plan)
        /\ Head(j.plan) = j.plan[1] /\ j.plan[1].do = "probe"
        /\ 2 \in 2..Len(j.plan) /\ Tail(j.plan) = From(j.plan, 2)
  <2>1. At(op, "probe")
    BY DEF Probe
  <2>2. QED
    BY <2>1, AtSolo
<1> DEFINE d == j.plan[1].part
<1>2. PICK answered \in BOOLEAN, may \in BOOLEAN :
        job' = [job EXCEPT
             ![op].plan = IF may THEN Onward(@, IF d \in j.format THEN "mkfs" ELSE "mount")
                          ELSE Tail(@),
             ![op].disks_ok = @ /\ may,
             ![op].blind = IF answered THEN @ ELSE @ \cup {d}]
  <2>1. PICK answered \in BOOLEAN :
          LET empty == answered => device[d] = "blank" IN
          job' = [job EXCEPT
               ![op].plan = IF MaySetUp(j, d, empty)
                           THEN Onward(@, IF d \in j.format THEN "mkfs" ELSE "mount") ELSE Tail(@),
               ![op].disks_ok = @ /\ MaySetUp(j, d, empty),
               ![op].blind = IF answered THEN @ ELSE @ \cup {d}]
    BY <1>1 DEF Probe
  <2>2. MaySetUp(j, d, answered => device[d] = "blank") \in BOOLEAN
    BY DEF MaySetUp
  <2>3. PICK may \in BOOLEAN : may = MaySetUp(j, d, answered => device[d] = "blank")
    BY <2>2
  <2>4. QED
    BY <2>1, <2>3
<1>3. UNCHANGED <<file, staged, image, report, done>>
  BY DEF Probe, hostVars, files
<1> DEFINE c == IF d \in j.format THEN "mkfs" ELSE "mount"
           blind == IF answered THEN j.blind ELSE j.blind \cup {d}
           k == [j EXCEPT !.plan = IF may THEN Onward(j.plan, c) ELSE Tail(j.plan),
                          !.disks_ok = j.disks_ok /\ may, !.blind = blind]
<1>4. job' = [job EXCEPT ![op] = k]
  BY <1>1, <1>2
<1>5. /\ k.plan = IF may THEN Onward(j.plan, c) ELSE From(j.plan, 2)
      /\ k.cold = j.cold /\ k.dist_ok = j.dist_ok /\ k.ok = j.ok /\ k.sum = j.sum
  BY <1>1 DEF Runs
<1>6. c \in {"mkfs", "mount"}
  OBVIOUS
<1> HIDE DEF k, c
<1>7. CASE may
  BY <1>1, <1>3, <1>4, <1>5, <1>6, <1>7, SoloDiskOnward
<1>8. CASE ~may
  BY <1>1, <1>3, <1>4, <1>5, <1>8, SoloDiskFails
<1>9. QED
  BY <1>7, <1>8

LEMMA SoloMkfs ==
  ASSUME NEW op, Provisioners = {op}, SoloInv, Inv', Mkfs(op)
  PROVE  SoloInv'
<1>1. PICK j \in Runs :
        /\ job[op] = j /\ job[op] # None /\ Solo(j) /\ Ends(j.plan)
        /\ Head(j.plan) = j.plan[1] /\ j.plan[1].do = "mkfs"
        /\ 2 \in 2..Len(j.plan) /\ Tail(j.plan) = From(j.plan, 2)
  <2>1. At(op, "mkfs")
    BY DEF Mkfs
  <2>2. QED
    BY <2>1, AtSolo
<1>2. \/ job' = [job EXCEPT ![op].plan = Onward(@, "mount")]
      \/ DiskFails(op)
  BY DEF Mkfs
<1>3. UNCHANGED <<file, staged, image, report, done>>
  BY DEF Mkfs, files
<1>4. CASE job' = [job EXCEPT ![op].plan = Onward(@, "mount")]
  <2> DEFINE k == [j EXCEPT !.plan = Onward(j.plan, "mount")]
  <2>1. job' = [job EXCEPT ![op] = k]
    BY <1>1, <1>4
  <2>2. /\ k.plan = Onward(j.plan, "mount")
        /\ k.cold = j.cold /\ k.dist_ok = j.dist_ok /\ k.ok = j.ok /\ k.sum = j.sum
    BY DEF Runs
  <2> HIDE DEF k
  <2>3. QED
    BY <1>1, <1>3, <2>1, <2>2, SoloDiskOnward
<1>5. CASE DiskFails(op)
  <2> DEFINE k == [j EXCEPT !.plan = Tail(j.plan), !.disks_ok = FALSE]
  <2>1. job' = [job EXCEPT ![op] = k]
    BY <1>1, <1>5 DEF DiskFails
  <2>2. /\ k.plan = From(j.plan, 2)
        /\ k.cold = j.cold /\ k.dist_ok = j.dist_ok /\ k.ok = j.ok /\ k.sum = j.sum
    BY <1>1 DEF Runs
  <2> HIDE DEF k
  <2>3. QED
    BY <1>1, <1>3, <2>1, <2>2, SoloDiskFails
<1>6. QED
  BY <1>2, <1>4, <1>5

LEMMA SoloMount ==
  ASSUME NEW op, Provisioners = {op}, SoloInv, Inv', Mount(op)
  PROVE  SoloInv'
<1>1. PICK j \in Runs :
        /\ job[op] = j /\ job[op] # None /\ Solo(j) /\ Ends(j.plan)
        /\ Head(j.plan) = j.plan[1] /\ j.plan[1].do = "mount"
        /\ 2 \in 2..Len(j.plan) /\ Tail(j.plan) = From(j.plan, 2)
  <2>1. At(op, "mount")
    BY DEF Mount
  <2>2. QED
    BY <2>1, AtSolo
<1>2. Proceed(op, TRUE) \/ DiskFails(op)
  BY DEF Mount
<1>3. UNCHANGED <<file, staged, image, report, done>>
  BY DEF Mount, files
<1>4. CASE Proceed(op, TRUE)
  <2>1. "start" \in done' => "unit" \in done'
    BY <1>3 DEF SoloInv
  <2>2. At(op, "mount")
    BY DEF Mount
  <2>3. PICK ok \in BOOLEAN : Proceed(op, ok)
    BY <1>4
  <2>4. QED
    BY <1>3, <2>1, <2>2, <2>3, SoloProceeds
<1>5. CASE DiskFails(op)
  <2> DEFINE k == [j EXCEPT !.plan = Tail(j.plan), !.disks_ok = FALSE]
  <2>1. job' = [job EXCEPT ![op] = k]
    BY <1>1, <1>5 DEF DiskFails
  <2>2. /\ k.plan = From(j.plan, 2)
        /\ k.cold = j.cold /\ k.dist_ok = j.dist_ok /\ k.ok = j.ok /\ k.sum = j.sum
    BY <1>1 DEF Runs
  <2> HIDE DEF k
  <2>3. QED
    BY <1>1, <1>3, <2>1, <2>2, SoloDiskFails
<1>6. QED
  BY <1>2, <1>4, <1>5

LEMMA SoloDisksChecked ==
  ASSUME NEW op, Provisioners = {op}, SoloInv, Inv', DisksChecked(op)
  PROVE  SoloInv'
<1>1. At(op, "disks") /\ UNCHANGED <<file, staged, image, done>>
  BY DEF DisksChecked, hostVars, files
<1>2. (Proceed(op, TRUE) /\ UNCHANGED report) \/ Finished(op, FALSE)
  BY DEF DisksChecked
<1>3. CASE Proceed(op, TRUE) /\ UNCHANGED report
  <2>1. "start" \in done' => "unit" \in done'
    BY <1>1 DEF SoloInv
  <2>2. PICK ok \in BOOLEAN : Proceed(op, ok)
    BY <1>3
  <2>3. QED
    BY <1>1, <1>3, <2>1, <2>2, SoloProceeds
<1>4. CASE Finished(op, FALSE)
  BY <1>1, <1>4, SoloFails
<1>5. QED
  BY <1>2, <1>3, <1>4

LEMMA SoloCheck ==
  ASSUME NEW op, Provisioners = {op}, SoloInv, Inv', Check(op)
  PROVE  SoloInv'
<1>1. At(op, "check") /\ UNCHANGED <<file, staged, image, done>>
  BY DEF Check, hostVars, files
<1>2. (job[op].dist_ok /\ Proceed(op, TRUE) /\ UNCHANGED report) \/ Finished(op, FALSE)
  BY DEF Check
<1>3. CASE job[op].dist_ok /\ Proceed(op, TRUE) /\ UNCHANGED report
  <2>1. "start" \in done' => "unit" \in done'
    BY <1>1 DEF SoloInv
  <2>2. PICK ok \in BOOLEAN : Proceed(op, ok)
    BY <1>3
  <2>3. QED
    BY <1>1, <1>3, <2>1, <2>2, SoloProceeds
<1>4. CASE Finished(op, FALSE)
  BY <1>1, <1>4, SoloFails
<1>5. QED
  BY <1>2, <1>3, <1>4

LEMMA SoloCheckKey ==
  ASSUME NEW op, Provisioners = {op}, SoloInv, Inv', NEW x \in Keys, CheckKey(op, x)
  PROVE  SoloInv'
<1>1. At(op, x) /\ UNCHANGED <<file, staged, image, done>>
  BY DEF CheckKey, hostVars, files
<1>2. (Proceed(op, TRUE) /\ UNCHANGED report) \/ Finished(op, FALSE)
  BY DEF CheckKey
<1>3. CASE Proceed(op, TRUE) /\ UNCHANGED report
  <2>1. "start" \in done' => "unit" \in done'
    BY <1>1 DEF SoloInv
  <2>2. PICK ok \in BOOLEAN : Proceed(op, ok)
    BY <1>3
  <2>3. x \notin {"push", "verify", "swap", "start", "collect", "finish", "check", "catchup",
                  "user", "system"}
    BY DEF Keys
  <2>4. QED
    BY <1>1, <1>3, <2>1, <2>2, <2>3, SoloProceeds
<1>4. CASE Finished(op, FALSE)
  BY <1>1, <1>4, SoloFails
<1>5. QED
  BY <1>2, <1>3, <1>4

\* A node that has caught up runs, and of a cold run, from the run's files.
LEMMA SoloCatchUp ==
  ASSUME NEW op, Provisioners = {op}, SoloInv, Inv', CatchUp(op)
  PROVE  SoloInv'
<1>1. PICK j \in Runs : job[op] = j /\ Solo(j)
  <2>1. At(op, "catchup")
    BY DEF CatchUp
  <2>2. QED
    BY <2>1, AtSolo
<1>2. PICK ok \in BOOLEAN : (ok => image # None) /\ Proceed(op, ok)
  BY DEF CatchUp
<1>3. At(op, "catchup") /\ UNCHANGED <<file, staged, image, report, done>>
  BY DEF CatchUp, hostVars, files
<1>4. ok /\ j.cold => "start" \in done /\ Whole(file)
  BY <1>1, <1>2 DEF SoloInv, Solo, ColdOK
<1>5. "start" \in done' => "unit" \in done'
  BY <1>3 DEF SoloInv
<1>6. ~ok \/ (job[op].cold => "start" \in done /\ Whole(file))
  BY <1>1, <1>4
<1>7. QED
  BY <1>2, <1>3, <1>5, <1>6, SoloProceeds

LEMMA SoloPushes ==
  ASSUME NEW op, Provisioners = {op}, SoloInv, Inv', Push(op)
  PROVE  SoloInv'
<1>1. PICK j \in Runs :
        /\ job[op] = j /\ job[op] # None /\ Solo(j) /\ Ends(j.plan)
        /\ Head(j.plan) = j.plan[1] /\ j.plan[1].do = "push"
        /\ 2 \in 2..Len(j.plan) /\ Tail(j.plan) = From(j.plan, 2)
  <2>1. At(op, "push")
    BY DEF Push
  <2>2. QED
    BY <2>1, AtSolo
<1> DEFINE p == j.plan[1].part
<1>2. PICK ok \in BOOLEAN, content \in Content \cup {None} :
        /\ staged' = [staged EXCEPT ![p] = content]
        /\ job' = [job EXCEPT ![op].plan = Tail(@), ![op].dist_ok = @ /\ ok]
  BY <1>1 DEF Push
<1>3. UNCHANGED <<file, image, report, done>> /\ DOMAIN staged = Files
  BY DEF Push, SoloInv, Inv, HostOK
<1> DEFINE k == [j EXCEPT !.plan = Tail(j.plan), !.dist_ok = j.dist_ok /\ ok]
<1>4. job' = [job EXCEPT ![op] = k]
  BY <1>1, <1>2
<1>5. /\ k.plan = From(j.plan, 2) /\ k.cold = j.cold /\ k.dist_ok = (j.dist_ok /\ ok)
      /\ k.ok = j.ok /\ k.sum = j.sum
  BY <1>1 DEF Runs
<1> HIDE DEF k
<1>6. Solo(k)'
  BY <1>1, <1>2, <1>3, <1>5, SoloPush
<1>7. ("start" \in done' => "unit" \in done') /\ (image' # None => "start" \in done')
  BY <1>3 DEF SoloInv
<1>8. QED
  BY <1>1, <1>3, <1>4, <1>6, <1>7, SoloStep

LEMMA SoloVerifies ==
  ASSUME NEW op, Provisioners = {op}, SoloInv, Inv', Verify(op)
  PROVE  SoloInv'
<1>1. PICK j \in Runs :
        /\ job[op] = j /\ job[op] # None /\ Solo(j) /\ Ends(j.plan)
        /\ Head(j.plan) = j.plan[1] /\ j.plan[1].do = "verify"
        /\ 2 \in 2..Len(j.plan) /\ Tail(j.plan) = From(j.plan, 2)
  <2>1. At(op, "verify")
    BY DEF Verify
  <2>2. QED
    BY <2>1, AtSolo
<1>2. PICK ok \in BOOLEAN :
        /\ Outcome(ok, ShaMatch(j, j.plan[1].part))
        /\ job' = [job EXCEPT ![op].plan = Tail(@), ![op].dist_ok = @ /\ ok]
  BY <1>1 DEF Verify
<1>3. UNCHANGED <<file, staged, image, report, done>>
  BY DEF Verify, hostVars, files
<1> DEFINE k == [j EXCEPT !.plan = Tail(j.plan), !.dist_ok = j.dist_ok /\ ok]
<1>4. job' = [job EXCEPT ![op] = k]
  BY <1>1, <1>2
<1>5. /\ k.plan = From(j.plan, 2) /\ k.cold = j.cold /\ k.dist_ok = (j.dist_ok /\ ok)
      /\ k.ok = j.ok /\ k.sum = j.sum
  BY <1>1 DEF Runs
<1> HIDE DEF k
<1>6. ok => ShaMatch(j, j.plan[1].part)
  BY <1>2 DEF Outcome
<1>7. Solo(k)'
  BY <1>1, <1>3, <1>5, <1>6, SoloVerify
<1>8. ("start" \in done' => "unit" \in done') /\ (image' # None => "start" \in done')
  BY <1>3 DEF SoloInv
<1>9. QED
  BY <1>1, <1>3, <1>4, <1>7, <1>8, SoloStep

LEMMA SoloSwaps ==
  ASSUME NEW op, Provisioners = {op}, SoloInv, Inv', SwapOne(op)
  PROVE  SoloInv'
<1>1. PICK j \in Runs :
        /\ job[op] = j /\ job[op] # None /\ Solo(j) /\ Ends(j.plan) /\ j.plan \in Seq(Step)
        /\ Head(j.plan) = j.plan[1] /\ j.plan[1].do = "swap"
        /\ 2 \in 2..Len(j.plan) /\ Tail(j.plan) = From(j.plan, 2)
  <2>1. At(op, "swap")
    BY DEF SwapOne
  <2>2. QED
    BY <2>1, AtSolo
<1> DEFINE p == j.plan[1].part
<1>2. PICK ok \in BOOLEAN, effect \in BOOLEAN :
        /\ ok => effect
        /\ file' = IF effect THEN [file EXCEPT ![p] = staged[p]] ELSE file
        /\ staged' = IF effect THEN [staged EXCEPT ![p] = None] ELSE staged
        /\ job' = [job EXCEPT ![op].plan = IF ok THEN Tail(@) ELSE SkipSwaps(@),
                              ![op].ok = @ /\ ok]
  BY <1>1 DEF SwapOne, Effect
<1>3. UNCHANGED <<image, report, done>> /\ DOMAIN staged = Files /\ DOMAIN file = Files
  BY DEF SwapOne, SoloInv, Inv, HostOK
<1>4. PICK m \in 2..Len(j.plan) :
        /\ (IF ok THEN Tail(j.plan) ELSE SkipSwaps(j.plan)) = From(j.plan, m)
        /\ ok => m = 2
        /\ \A i \in 1..m-1 : j.plan[i].do = "swap"
  <2>1. 2 \in 2..Len(j.plan) /\ \A i \in 1..2-1 : j.plan[i].do = "swap"
    BY <1>1
  <2>2. \E m \in 2..Len(j.plan) :
          SkipSwaps(j.plan) = From(j.plan, m) /\ \A i \in 1..m-1 : j.plan[i].do = "swap"
    BY <1>1, SkipSwapsIs
  <2>3. QED
    BY <1>1, <2>1, <2>2
<1> DEFINE k == [j EXCEPT !.plan = From(j.plan, m), !.ok = j.ok /\ ok]
<1>5. job' = [job EXCEPT ![op] = k]
  <2>1. job' = [job EXCEPT ![op].plan = From(j.plan, m), ![op].ok = @ /\ ok]
    BY <1>1, <1>2, <1>4
  <2>2. QED
    BY <1>1, <2>1
<1>6. /\ k.plan = From(j.plan, m) /\ k.cold = j.cold /\ k.dist_ok = j.dist_ok
      /\ k.ok = (j.ok /\ ok) /\ k.sum = j.sum
  BY DEF Runs
<1> HIDE DEF k
<1>7. Solo(k)'
  BY <1>1, <1>2, <1>3, <1>4, <1>6, SoloSwap
<1>8. ("start" \in done' => "unit" \in done') /\ (image' # None => "start" \in done')
  BY <1>3 DEF SoloInv
<1>9. QED
  BY <1>1, <1>3, <1>5, <1>7, <1>8, SoloStep

\* All the run's commands are behind it.
LEMMA SoloFinish ==
  ASSUME NEW op, Provisioners = {op}, SoloInv, Inv', Finish(op)
  PROVE  SoloInv'
<1>1. PICK j \in Runs :
        job[op] = j /\ j # None /\ Ends(j.plan) /\ j.plan[1].do = "finish"
  <2>1. Inv /\ op \in Provisioners /\ At(op, "finish")
    BY DEF SoloInv, Finish
  <2>2. QED
    BY <2>1, AtRun
<1>2. Solo(j)
  BY <1>1 DEF SoloInv
<1>3. UNCHANGED <<file, image, done>> /\ op \in DOMAIN job /\ done \subseteq Stages
  BY DEF Finish, hostVars, files, SoloInv, Inv, JobsOK, HostOK, Operators
<1>4. /\ job'[op] = None /\ report'.succeeded = Succeeded(j)
      /\ report'.sum = j.sum /\ report'.cold = j.cold
  BY <1>1, <1>3 DEF Finish, Finished
<1>5. \A S : ~ Waits(j.plan, Finishing, S)
  <2>1. Len(j.plan) \in Nat /\ Len(j.plan) > 0 /\ j.plan[1] \in Finishing
    BY <1>1, HeadIs DEF Finishing, Dos
  <2>2. QED
    BY <2>1, HeadWaits
<1>6. ASSUME report'.succeeded
      PROVE  /\ done = Stages
             /\ \A f \in Files : file[f] = j.sum[f]
             /\ j.cold => Whole(file) /\ image \in {None, file}
  <2>1. j.ok
    BY <1>4, <1>6 DEF Succeeded
  <2>2. \A c \in {"user", "system", "start"} : c \in done
    BY <1>2, <1>5, <2>1 DEF Solo, StagesOK
  <2>3. "unit" \in done
    BY <2>2 DEF SoloInv
  <2>4. done = Stages
    BY <1>3, <2>2, <2>3 DEF Stages
  <2>5. \A f \in Files : file[f] = j.sum[f]
    BY <1>2, <1>5, <2>1 DEF Solo, FilesOK
  <2>6. j.cold => Whole(file) /\ image \in {None, file}
    BY <1>2, <1>5, <2>1, <2>2 DEF Solo, ColdOK, CatchesUp
  <2>7. QED
    BY <2>4, <2>5, <2>6
<1>7. Reported'
  BY <1>3, <1>4, <1>6 DEF Reported, Whole
<1>8. QED
  BY <1>3, <1>4, <1>7 DEF SoloInv

\* The commands of the run's own build.
LEMMA SoloBuilds ==
  ASSUME NEW op, Provisioners = {op}, SoloInv, Inv', BuilderWork(op),
         UNCHANGED <<hostVars, intent, report>>
  PROVE  SoloInv'
<1>1. UNCHANGED <<file, staged, image, report, done>>
  BY DEF hostVars, files
<1>2. PICK j : job[op] = j
  OBVIOUS
<1>3. j # None /\ j \in Runs /\ RunOK(j) /\ Solo(j)
  <2>1. j # None
    BY <1>2 DEF BuilderWork, Bootstrap, Cached, Fetch, Checkout, Compile, Copy, Collect, At
  <2>2. QED
    BY <1>2, <2>1 DEF SoloInv, Inv, JobsOK
<1>4. /\ Ends(j.plan) /\ j.version \in Versions /\ j.ref \in Refs \cup {None}
      /\ j.ok \in BOOLEAN /\ j.sum \in [Parts -> Content \cup {None}]
  BY <1>3 DEF RunOK, Runs
<1>5. Unfinished(j.plan, Step)
  BY <1>2, <1>4, WorkIsUnfinished
<1>6. PICK k : Advances(op, j, k)
  BY <1>2, <1>4, <1>5, WorkAdvances DEF SoloInv, Inv, HostOK
<1>7. job' = [job EXCEPT ![op] = k]
  BY <1>6 DEF Advances
<1>8. k.cold = j.cold /\ k.dist_ok = j.dist_ok /\ (k.ok => j.ok)
  BY <1>3, <1>6 DEF Advances, Runs
<1>9. \/ k.plan = <<Do("finish")>> /\ ~ k.ok
      \/ Past(j.plan, k.plan) /\ (k.sum = j.sum \/ Head(j.plan).do = "collect")
  BY <1>3, <1>6 DEF Advances, Runs
<1>10. ASSUME k.plan = <<Do("finish")>>, ~ k.ok
       PROVE  Solo(k)'
  BY <1>1, <1>3, <1>8, <1>10, SoloEnds
<1>11. ASSUME Past(j.plan, k.plan), k.sum = j.sum \/ Head(j.plan).do = "collect"
       PROVE  Solo(k)'
  <2>1. PICK m \in 2..Len(j.plan) :
          k.plan = From(j.plan, m) /\ \A i \in 1..m-1 : j.plan[i].do \in BuilderDo
    BY <1>11 DEF Past
  <2>2. BuilderDo \cap {"push", "verify", "swap", "start", "user", "system", "check", "catchup"} = {}
    BY DEF BuilderDo, Compiling
  <2>3. \A i \in 1..m-1 :
           /\ j.plan[i].do \notin {"push", "verify", "swap", "start"}
           /\ j.plan[i].do \in {"user", "system"} => j.plan[i].do \in done' \/ ~k.ok
           /\ j.plan[i].do = "check" => j.dist_ok
           /\ j.plan[i].do = "catchup" => ~k.ok \/ (j.cold => "start" \in done /\ Whole(file))
    BY <2>1, <2>2
  <2>4. k.sum = j.sum \/ j.plan[1].do = "collect"
    BY <1>4, <1>11, HeadIs
  <2>5. QED
    BY <1>1, <1>3, <1>4, <1>8, <2>1, <2>3, <2>4, SoloQuiet
<1>12. Solo(k)'
  BY <1>9, <1>10, <1>11
<1>13. ("start" \in done' => "unit" \in done') /\ (image' # None => "start" \in done')
  BY <1>1 DEF SoloInv
<1>14. QED
  BY <1>1, <1>2, <1>3, <1>7, <1>12, <1>13, SoloStep

\* What the other operators do on the builder.
LEMMA SoloBuilder ==
  ASSUME NEW op, Provisioners = {op}, SoloInv, Inv', OnBuilder
  PROVE  SoloInv'
<1>1. UNCHANGED <<file, staged, image, report, done>> /\ UNCHANGED <<hostVars, intent, report>>
  BY DEF OnBuilder, hostVars, files
<1>2. /\ DOMAIN job = Operators /\ Operators = {op} \cup Upgraders /\ op \notin Upgraders
      /\ job[op] # None => job[op] \in Runs
  BY ProvisionAssumption DEF SoloInv, Inv, JobsOK, Operators
<1>3. ASSUME job'[op] = job[op] PROVE SoloInv'
  BY <1>1, <1>3, SoloOthers
<1>4. ASSUME NEW o \in Upgraders, NEW k, job' = [job EXCEPT ![o] = k] PROVE SoloInv'
  BY <1>2, <1>3, <1>4
<1>5. ASSUME NEW o \in Upgraders, NEW k, Begin(o, k) PROVE SoloInv'
  <2>1. PICK j : j = job[op]
    OBVIOUS
  <2>2. CASE j = None
    <3>1. job'[op] = None
      BY <1>2, <1>5, <2>1, <2>2 DEF Begin
    <3>2. QED
      BY <1>3, <2>1, <2>2, <3>1
  <2>3. CASE j # None
    <3>1. job'[op] = [j EXCEPT !.alone = j.alone /\ ~Building(op)]
      BY <1>2, <1>5, <2>1, <2>3 DEF Begin
    <3>2. PICK b : job'[op] = [j EXCEPT !.alone = b]
      BY <3>1
    <3>3. PICK k1 : k1 = job'[op]
      OBVIOUS
    <3>4. j \in Runs
      BY <1>2, <2>1, <2>3
    <3>5. /\ k1.plan = j.plan /\ k1.cold = j.cold /\ k1.ok = j.ok
          /\ k1.dist_ok = j.dist_ok /\ k1.sum = j.sum
      BY <3>2, <3>3, <3>4 DEF Runs
    <3>6. QED
      BY <1>1, <2>1, <2>3, <3>3, <3>5, SoloOthers
  <2>4. QED
    BY <2>2, <2>3
<1>6. ASSUME NEW o \in Upgraders, BuilderWork(o) PROVE SoloInv'
  <2>1. \E k : job' = [job EXCEPT ![o] = k]
    <3>1. PICK j : job[o] = j
      OBVIOUS
    <3>2. j # None
      BY <1>6, <3>1 DEF BuilderWork, Bootstrap, Cached, Fetch, Checkout, Compile, Copy, Collect, At
    <3>3. j \in Builds /\ Ends(j.plan)
      BY <3>1, <3>2 DEF SoloInv, Inv, JobsOK
    <3>4. /\ j.version \in Versions /\ j.ok \in BOOLEAN
          /\ j.sum \in [Parts -> Content \cup {None}]
      BY <3>3 DEF Builds
    <3>5. Unfinished(j.plan, Step)
      BY <1>6, <3>1, <3>3, WorkIsUnfinished
    <3>6. PICK k : Advances(o, j, k)
      BY <1>6, <3>1, <3>4, <3>5, WorkAdvances DEF SoloInv, Inv, HostOK
    <3>7. QED
      BY <3>6 DEF Advances
  <2>2. QED
    BY <1>4, <2>1
<1>7. ASSUME NEW o \in Upgraders, NEW v \in Versions, NEW force \in BOOLEAN,
             RequestBuild(o, v, force)
      PROVE  SoloInv'
  BY <1>5, <1>7 DEF RequestBuild
<1>8. ASSUME NEW o \in Upgraders, NEW v \in Versions, NEW confirm \in BOOLEAN,
             RequestBootstrap(o, v, confirm)
      PROVE  SoloInv'
  BY <1>3, <1>5, <1>8 DEF RequestBootstrap
<1>9. ASSUME NEW o \in Upgraders, Built(o) PROVE SoloInv'
  BY <1>4, <1>9 DEF Built
<1>10. CASE EditPin
  BY <1>3, <1>10 DEF EditPin
<1>11. CASE BuilderWork(op)
  BY <1>1, <1>11, SoloBuilds
<1>12. BuilderNext
  BY DEF OnBuilder
<1>13. QED
  BY <1>2, <1>6, <1>7, <1>8, <1>9, <1>10, <1>11, <1>12 DEF BuilderNext

LEMMA SoloRequest ==
  ASSUME NEW op, Provisioners = {op}, SoloInv, Inv', NEW v \in Versions,
         NEW ack \in SUBSET Blocks, NEW confirm \in BOOLEAN, Request(op, v, ack, confirm)
  PROVE  SoloInv'
<1>1. UNCHANGED <<file, staged, image, done>>
  BY DEF Request, hostVars, files
<1>2. op \in DOMAIN job
  BY DEF SoloInv, Inv, JobsOK, Operators
<1>3. PICK j : j = Run(v, ack)
  OBVIOUS
<1>4. (Begin(op, j) /\ report' = None) \/ UNCHANGED <<job, report>>
  BY <1>3 DEF Request
<1>5. CASE Begin(op, j) /\ report' = None
  <2>1. PICK b : job'[op] = [j EXCEPT !.alone = b]
    BY <1>2, <1>5 DEF Begin
  <2>2. PICK k : k = job'[op]
    OBVIOUS
  <2>3. /\ k.plan = j.plan /\ k.cold = j.cold /\ k.ok = j.ok
        /\ k.dist_ok = j.dist_ok /\ k.sum = j.sum
    BY <1>3, <2>1, <2>2 DEF Run
  <2>4. Solo(j)
    BY <1>3, SoloBegins
  <2>5. Solo(k)'
    BY <1>1, <2>3, <2>4, SoloSame
  <2>6. Solo(job[op])'
    BY <2>2, <2>5
  <2>7. ("start" \in done' => "unit" \in done') /\ (image' # None => "start" \in done')
    BY <1>1 DEF SoloInv
  <2>8. Reported'
    BY <1>5 DEF Reported
  <2>9. QED
    BY <1>5, <2>6, <2>7, <2>8 DEF SoloInv
<1>6. CASE UNCHANGED <<job, report>>
  BY <1>1, <1>6, SoloOthers
<1>7. QED
  BY <1>4, <1>5, <1>6

\* systemd, the processes that die and what the operator does in between.
LEMMA SoloSurroundings ==
  ASSUME NEW op, Provisioners = {op}, SoloInv, Inv',
         \/ \E o \in Operators : OperatorDies(o)
         \/ Launch \/ ProcessDies
         \/ \E k \in Keys : PlaceKey(k)
         \/ \E d \in Blocks : DropFormat(d)
  PROVE  SoloInv'
<1>1. UNCHANGED <<file, staged, done, report>>
  BY DEF OperatorDies, Launch, ProcessDies, PlaceKey, DropFormat, hostVars, files
<1>2. image' \in {None, image} \/ (image' = file /\ Whole(file) /\ "start" \in done)
  BY DEF OperatorDies, Launch, ProcessDies, PlaceKey, DropFormat, hostVars
<1>3. job'[op] = None \/ job'[op] = job[op]
  <2>1. op \in DOMAIN job
    BY DEF SoloInv, Inv, JobsOK, Operators
  <2>2. QED
    BY <2>1 DEF OperatorDies, Launch, ProcessDies, PlaceKey, DropFormat
<1>4. QED
  BY <1>1, <1>2, <1>3, SoloOthers
-----------------------------------------------------------------------------
(* The theorem. *)

LEMMA SoloInit == Init => SoloInv
<1> SUFFICES ASSUME Init PROVE SoloInv
  OBVIOUS
<1>1. Inv
  BY InvInit
<1>2. QED
  BY <1>1 DEF Init, SoloInv, Reported, Operators

LEMMA SoloNext ==
  ASSUME NEW op, Provisioners = {op}, SoloInv, [Next]_vars
  PROVE  SoloInv'
<1>1. Inv'
  BY InvNext DEF SoloInv
<1>2. CASE UNCHANGED vars
  <2>1. UNCHANGED <<file, staged, image, done, report, job>>
    BY <1>2 DEF vars, hostVars, files
  <2>2. QED
    BY <1>1, <2>1, SoloOthers
<1>3. CASE HostWork(op)
  <2>1. ASSUME NEW c \in {"user", "system", "start"}, Stage(op, c) PROVE SoloInv'
    BY <1>1, <2>1, SoloStage, SoloStarts
  <2>2. QED
    BY <1>1, <1>3, <2>1, SoloUnit, SoloProbe, SoloMkfs, SoloMount, SoloDisksChecked, SoloPushes,
       SoloVerifies, SoloCheck, SoloSwaps, SoloCheckKey, SoloCatchUp, SoloFinish DEF HostWork
<1>4. CASE OnBuilder
  BY <1>1, <1>4, SoloBuilder
<1>5. ASSUME NEW v \in Versions, NEW ack \in SUBSET Blocks, NEW confirm \in BOOLEAN,
             Request(op, v, ack, confirm)
      PROVE  SoloInv'
  BY <1>1, <1>5, SoloRequest
<1>6. QED
  BY <1>1, <1>2, <1>3, <1>4, <1>5, SoloSurroundings DEF Next

\* provision.py:349 `succeeded`: a run that reports success leaves every
\* stage done, every disk set up and every key in place, and installed the
\* very files whose checksums its build took; if the unit was not started
\* when it began, they are whole and nothing else runs.  For any disks, any
\* number of failures and any number of operators on the builder, as long as
\* one operator provisions the host.
THEOREM SuccessIsServing ==
  ASSUME NEW op, Provisioners = {op}
  PROVE  Spec => []SuccessMeansServing
<1>1. SoloInv /\ [Next]_vars => SoloInv'
  BY SoloNext
<1>2. QED
  BY <1>1, SoloInit, SoloMeans, PTL DEF Spec
=============================================================================
