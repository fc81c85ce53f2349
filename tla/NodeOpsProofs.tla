---------------------------- MODULE NodeOpsProofs ----------------------------
(***************************************************************************)
(* Proofs about NodeOps, for every fleet, every set of operators and every *)
(* number of failures.                                                     *)
(***************************************************************************)
EXTENDS Validate, SequenceTheorems, TLAPS

(* Plans. *)

Parts == {"binary", "geyser"}
S(c, part) == [do |-> c, part |-> part]

\* The command that follows command s in the plan of an operation.
Successor(kind, validator, s) ==
  CASE s.do = "build" -> Do("push")
    [] s.do = "push" -> S("verify", s.part)
    [] s.do = "verify" /\ s.part = "binary" /\ GeyserRepo -> S("push", "geyser")
    [] s.do = "verify" /\ ~(s.part = "binary" /\ GeyserRepo) -> Do("check")
    [] s.do = "check" -> IF validator THEN Do("swap") ELSE Do("stop")
    [] s.do = "stop" -> IF kind = "restart" THEN Do("start") ELSE Do("swap")
    [] s.do = "swap" /\ s.part = "binary" /\ GeyserRepo -> S("swap", "geyser")
    [] s.do = "swap" /\ ~(s.part = "binary" /\ GeyserRepo) -> Do("mark")
    [] s.do = "mark" -> IF validator THEN Do("exit") ELSE Do("start")
    [] s.do \in {"start", "exit"} -> Do("catchup")
    [] OTHER -> Do("finish")

\* The commands an operation may consist of.
Legal(kind, validator, s) ==
  /\ s \in Step
  /\ s.do \in {"push", "verify", "swap"} /\ ~GeyserRepo => s.part = "binary"
  /\ s.do \notin {"push", "verify", "swap"} => s.part = "binary"
  /\ s.do \in {"stop", "start"} => ~validator
  /\ s.do = "exit" => validator
  /\ kind = "restart" => s.do \in {"stop", "start", "exit", "catchup", "finish"}

\* A plan runs from its first command to the last one without a gap.
InOrder(kind, validator, plan) ==
  /\ plan \in Seq(Step) /\ Len(plan) > 0
  /\ \A i \in 1..Len(plan) : Legal(kind, validator, plan[i])
  /\ \A i \in 1..Len(plan) : plan[i].do = "finish" <=> i = Len(plan)
  /\ \A i \in 1..Len(plan) - 1 : plan[i+1] = Successor(kind, validator, plan[i])

LEMMA UpgradeInOrder ==
  ASSUME NEW n
  PROVE  InOrder("upgrade", n \in validators, UpgradePlan(n)) /\ Head(UpgradePlan(n)) = Do("build")
<1> DEFINE plan == UpgradePlan(n)
<1>1. CASE GeyserRepo
  <2>1. Artifacts = <<"binary", "geyser">>
    BY <1>1 DEF Artifacts
  <2>2. ForEach("swap", Artifacts) = <<Do("swap"), S("swap", "geyser")>>
    BY <2>1 DEF ForEach, Do, S
  <2>3. Distribute = <<Do("push"), Do("verify"), S("push", "geyser"), S("verify", "geyser")>>
    BY <1>1 DEF Distribute, Do, S
  <2>4. CASE n \in validators
    <3>1. plan = <<Do("build")>>
                 \o <<Do("push"), Do("verify"), S("push", "geyser"), S("verify", "geyser")>>
                 \o <<Do("check")>>
                 \o (<<Do("swap"), S("swap", "geyser")>> \o <<Do("mark")>> \o <<Do("exit")>>)
                 \o <<Do("catchup"), Do("finish")>>
      BY <2>2, <2>3, <2>4 DEF UpgradePlan, Swap, Confirm
    <3> HIDE DEF plan
    <3>2. plan \in Seq(Step) /\ Len(plan) = 12
      BY <3>1 DEF Step, Do, S
    <3>3. /\ plan[1] = Do("build") /\ plan[2] = Do("push") /\ plan[3] = Do("verify")
          /\ plan[4] = S("push", "geyser") /\ plan[5] = S("verify", "geyser")
          /\ plan[6] = Do("check") /\ plan[7] = Do("swap") /\ plan[8] = S("swap", "geyser")
          /\ plan[9] = Do("mark") /\ plan[10] = Do("exit") /\ plan[11] = Do("catchup")
          /\ plan[12] = Do("finish")
      BY <3>1
    <3>4. \A i \in 1..12 : 
            Legal("upgrade", n \in validators, plan[i]) /\ (plan[i].do = "finish" <=> i = 12)
      BY <1>1, <2>4, <3>3 DEF Legal, Step, Do, S
    <3>5. \A i \in 1..11 : plan[i+1] = Successor("upgrade", n \in validators, plan[i])
      BY <1>1, <2>4, <3>3 DEF Successor, Do, S
    <3>6. QED
      BY <3>2, <3>3, <3>4, <3>5 DEF InOrder, plan
  <2>5. CASE n \notin validators
    <3>1. plan = <<Do("build")>>
                 \o <<Do("push"), Do("verify"), S("push", "geyser"), S("verify", "geyser")>>
                 \o <<Do("check")>>
                 \o (<<Do("stop")>> \o (<<Do("swap"), S("swap", "geyser")>> \o <<Do("mark")>>)
                     \o <<Do("start")>>)
                 \o <<Do("catchup"), Do("finish")>>
      BY <2>2, <2>3, <2>5 DEF UpgradePlan, Swap, Confirm
    <3> HIDE DEF plan
    <3>2. plan \in Seq(Step) /\ Len(plan) = 13
      BY <3>1 DEF Step, Do, S
    <3>3. /\ plan[1] = Do("build") /\ plan[2] = Do("push") /\ plan[3] = Do("verify")
          /\ plan[4] = S("push", "geyser") /\ plan[5] = S("verify", "geyser")
          /\ plan[6] = Do("check") /\ plan[7] = Do("stop") /\ plan[8] = Do("swap")
          /\ plan[9] = S("swap", "geyser") /\ plan[10] = Do("mark") /\ plan[11] = Do("start")
          /\ plan[12] = Do("catchup") /\ plan[13] = Do("finish")
      BY <3>1
    <3>4. \A i \in 1..13 : 
            Legal("upgrade", n \in validators, plan[i]) /\ (plan[i].do = "finish" <=> i = 13)
      BY <1>1, <2>5, <3>3 DEF Legal, Step, Do, S
    <3>5. \A i \in 1..12 : plan[i+1] = Successor("upgrade", n \in validators, plan[i])
      BY <1>1, <2>5, <3>3 DEF Successor, Do, S
    <3>6. QED
      BY <3>2, <3>3, <3>4, <3>5 DEF InOrder, plan
  <2>6. QED
    BY <2>4, <2>5
<1>2. CASE ~GeyserRepo
  <2>1. Artifacts = <<"binary">>
    BY <1>2 DEF Artifacts
  <2>2. ForEach("swap", Artifacts) = <<Do("swap")>>
    BY <2>1 DEF ForEach, Do
  <2>3. Distribute = <<Do("push"), Do("verify")>>
    BY <1>2 DEF Distribute
  <2>4. CASE n \in validators
    <3>1. plan = <<Do("build")>> \o <<Do("push"), Do("verify")>> \o <<Do("check")>>
                 \o (<<Do("swap")>> \o <<Do("mark")>> \o <<Do("exit")>>)
                 \o <<Do("catchup"), Do("finish")>>
      BY <2>2, <2>3, <2>4 DEF UpgradePlan, Swap, Confirm
    <3> HIDE DEF plan
    <3>2. plan \in Seq(Step) /\ Len(plan) = 9
      BY <3>1 DEF Step, Do
    <3>3. /\ plan[1] = Do("build") /\ plan[2] = Do("push") /\ plan[3] = Do("verify")
          /\ plan[4] = Do("check") /\ plan[5] = Do("swap") /\ plan[6] = Do("mark")
          /\ plan[7] = Do("exit") /\ plan[8] = Do("catchup") /\ plan[9] = Do("finish")
      BY <3>1
    <3>4. \A i \in 1..9 : 
            Legal("upgrade", n \in validators, plan[i]) /\ (plan[i].do = "finish" <=> i = 9)
      BY <1>2, <2>4, <3>3 DEF Legal, Step, Do, S
    <3>5. \A i \in 1..8 : plan[i+1] = Successor("upgrade", n \in validators, plan[i])
      BY <1>2, <2>4, <3>3 DEF Successor, Do, S
    <3>6. QED
      BY <3>2, <3>3, <3>4, <3>5 DEF InOrder, plan
  <2>5. CASE n \notin validators
    <3>1. plan = <<Do("build")>> \o <<Do("push"), Do("verify")>> \o <<Do("check")>>
                 \o (<<Do("stop")>> \o (<<Do("swap")>> \o <<Do("mark")>>) \o <<Do("start")>>)
                 \o <<Do("catchup"), Do("finish")>>
      BY <2>2, <2>3, <2>5 DEF UpgradePlan, Swap, Confirm
    <3> HIDE DEF plan
    <3>2. plan \in Seq(Step) /\ Len(plan) = 10
      BY <3>1 DEF Step, Do
    <3>3. /\ plan[1] = Do("build") /\ plan[2] = Do("push") /\ plan[3] = Do("verify")
          /\ plan[4] = Do("check") /\ plan[5] = Do("stop") /\ plan[6] = Do("swap")
          /\ plan[7] = Do("mark") /\ plan[8] = Do("start") /\ plan[9] = Do("catchup")
          /\ plan[10] = Do("finish")
      BY <3>1
    <3>4. \A i \in 1..10 : 
            Legal("upgrade", n \in validators, plan[i]) /\ (plan[i].do = "finish" <=> i = 10)
      BY <1>2, <2>5, <3>3 DEF Legal, Step, Do, S
    <3>5. \A i \in 1..9 : plan[i+1] = Successor("upgrade", n \in validators, plan[i])
      BY <1>2, <2>5, <3>3 DEF Successor, Do, S
    <3>6. QED
      BY <3>2, <3>3, <3>4, <3>5 DEF InOrder, plan
  <2>6. QED
    BY <2>4, <2>5
<1>3. QED
  BY <1>1, <1>2

LEMMA PlanInOrder ==
  ASSUME NEW n, NEW kind \in {"restart", "upgrade"}
  PROVE  InOrder(kind, n \in validators, PlanOf(kind, n))
<1> DEFINE plan == RestartPlan(n)
<1>1. CASE kind = "upgrade"
  BY <1>1, UpgradeInOrder DEF PlanOf
<1>2. CASE kind = "restart" /\ n \in validators
  <2>1. plan = <<Do("exit")>> \o <<Do("catchup"), Do("finish")>>
    BY <1>2 DEF RestartPlan, Confirm
  <2> HIDE DEF plan
  <2>2. /\ plan \in Seq(Step) /\ Len(plan) = 3
        /\ plan[1] = Do("exit") /\ plan[2] = Do("catchup") /\ plan[3] = Do("finish")
    BY <2>1 DEF Step, Do
  <2>3. \A i \in 1..3 : Legal(kind, n \in validators, plan[i]) /\ (plan[i].do = "finish" <=> i = 3)
    BY <1>2, <2>2 DEF Legal, Step, Do, S
  <2>4. \A i \in 1..2 : plan[i+1] = Successor(kind, n \in validators, plan[i])
    BY <1>2, <2>2 DEF Successor, Do, S
  <2>5. PlanOf(kind, n) = plan
    BY <1>2 DEF PlanOf, plan
  <2>6. InOrder(kind, n \in validators, plan)
    BY <2>2, <2>3, <2>4 DEF InOrder
  <2>7. QED
    BY <2>5, <2>6
<1>3. CASE kind = "restart" /\ n \notin validators
  <2>1. plan = <<Do("stop"), Do("start")>> \o <<Do("catchup"), Do("finish")>>
    BY <1>3 DEF RestartPlan, Confirm
  <2> HIDE DEF plan
  <2>2. /\ plan \in Seq(Step) /\ Len(plan) = 4
        /\ plan[1] = Do("stop") /\ plan[2] = Do("start")
        /\ plan[3] = Do("catchup") /\ plan[4] = Do("finish")
    BY <2>1 DEF Step, Do
  <2>3. \A i \in 1..4 : Legal(kind, n \in validators, plan[i]) /\ (plan[i].do = "finish" <=> i = 4)
    BY <1>3, <2>2 DEF Legal, Step, Do, S
  <2>4. \A i \in 1..3 : plan[i+1] = Successor(kind, n \in validators, plan[i])
    BY <1>3, <2>2 DEF Successor, Do, S
  <2>5. PlanOf(kind, n) = plan
    BY <1>3 DEF PlanOf, plan
  <2>6. InOrder(kind, n \in validators, plan)
    BY <2>2, <2>3, <2>4 DEF InOrder
  <2>7. QED
    BY <2>5, <2>6
<1>4. QED
  BY <1>1, <1>2, <1>3

\* The first command of an operation.
First(kind, validator) ==
  CASE kind = "upgrade" -> Do("build")
    [] kind = "restart" /\ validator -> Do("exit")
    [] OTHER -> Do("stop")

LEMMA PlanBegins ==
  ASSUME NEW n, NEW kind \in {"restart", "upgrade"}
  PROVE  Head(PlanOf(kind, n)) = First(kind, n \in validators)
BY UpgradeInOrder DEF PlanOf, RestartPlan, Confirm, First

\* Done with a command, an operation is left with the ones that follow.
LEMMA TailInOrder ==
  ASSUME NEW kind, NEW validator, NEW plan,
         InOrder(kind, validator, plan), Head(plan).do # "finish"
  PROVE  /\ InOrder(kind, validator, Tail(plan))
         /\ Head(Tail(plan)) = Successor(kind, validator, Head(plan))
<1>1. plan \in Seq(Step) /\ Len(plan) \in Nat /\ Len(plan) > 0 /\ plan # <<>>
  BY DEF InOrder
<1>2. Head(plan) = plan[1] /\ Len(plan) > 1
  BY <1>1 DEF InOrder
<1> DEFINE rest == Tail(plan)
<1>3. /\ rest \in Seq(Step) /\ Len(rest) = Len(plan) - 1
      /\ \A i \in 1..Len(rest) : rest[i] = plan[i+1]
  BY <1>1, HeadTailProperties
<1> HIDE DEF rest
<1>4. Head(rest) = plan[2] /\ plan[2] = Successor(kind, validator, plan[1])
  <2>1. Head(rest) = rest[1] /\ 1 \in 1..Len(rest)
    BY <1>1, <1>2, <1>3
  <2>2. QED
    BY <1>1, <1>2, <1>3, <2>1 DEF InOrder
<1>5. \A i \in 1..Len(rest) :
        Legal(kind, validator, rest[i]) /\ (rest[i].do = "finish" <=> i = Len(rest))
  <2> SUFFICES ASSUME NEW i \in 1..Len(rest)
               PROVE  Legal(kind, validator, rest[i]) /\ (rest[i].do = "finish" <=> i = Len(rest))
    OBVIOUS
  <2>1. i + 1 \in 1..Len(plan) /\ rest[i] = plan[i+1] /\ (i = Len(rest) <=> i + 1 = Len(plan))
    BY <1>1, <1>3
  <2>2. QED
    BY <2>1 DEF InOrder
<1>6. \A i \in 1..Len(rest) - 1 : rest[i+1] = Successor(kind, validator, rest[i])
  <2> SUFFICES ASSUME NEW i \in 1..Len(rest) - 1
               PROVE  rest[i+1] = Successor(kind, validator, rest[i])
    OBVIOUS
  <2>1. /\ i + 1 \in 1..Len(plan) - 1 /\ i \in 1..Len(rest) /\ i + 1 \in 1..Len(rest)
        /\ rest[i] = plan[i+1] /\ rest[i+1] = plan[(i+1)+1]
    BY <1>1, <1>3
  <2>2. QED
    BY <2>1 DEF InOrder
<1>7. Len(rest) > 0
  BY <1>1, <1>2, <1>3
<1>8. QED
  BY <1>2, <1>3, <1>4, <1>5, <1>6, <1>7 DEF InOrder, rest

\* The command line of a swap cut short, the marker comes next.
LEMMA SkipInOrder ==
  ASSUME NEW kind, NEW validator, NEW plan,
         InOrder(kind, validator, plan), Head(plan).do = "swap"
  PROVE  /\ InOrder(kind, validator, SkipSwaps(plan))
         /\ Head(SkipSwaps(plan)) = Do("mark")
<1> DEFINE first == Head(plan)
           next == CHOOSE i \in DOMAIN plan :
                     plan[i].do \notin {"swap"} /\ \A k \in 1..i-1 : plan[k].do \in {"swap"}
           rest == Tail(plan)
<1>1. /\ plan \in Seq(Step) /\ Len(plan) \in Nat /\ Len(plan) > 0 /\ plan # <<>>
      /\ DOMAIN plan = 1..Len(plan) /\ first = plan[1]
  BY DEF InOrder
<1>2. first \in Step /\ first.do = "swap"
  <2>1. 1 \in 1..Len(plan)
    BY <1>1
  <2> HIDE DEF first, next, rest
  <2>2. first \in Step
    BY <1>1, <2>1 DEF InOrder, Legal
  <2>3. QED
    BY <2>2 DEF first
<1>3. /\ InOrder(kind, validator, rest) /\ Head(rest) = Successor(kind, validator, first)
  BY TailInOrder
<1>4. /\ rest \in Seq(Step) /\ Len(rest) > 0 /\ rest # <<>> /\ Len(rest) = Len(plan) - 1
      /\ rest = SubSeq(plan, 2, Len(plan)) /\ Head(rest) = plan[2]
  <2>1. /\ rest \in Seq(Step) /\ Len(rest) = Len(plan) - 1 /\ rest = SubSeq(plan, 2, Len(plan))
        /\ \A i \in 1..Len(rest) : rest[i] = plan[i+1]
    BY <1>1, HeadTailProperties, TailIsSubSeq
  <2> HIDE DEF rest
  <2>2. Len(rest) > 0
    BY <1>3 DEF InOrder
  <2>3. Head(rest) = rest[1] /\ 1 \in 1..Len(rest)
    BY <1>1, <2>1, <2>2
  <2>4. rest # <<>>
    BY <2>2
  <2>5. QED
    BY <2>1, <2>2, <2>3, <2>4
<1> HIDE DEF rest, next
<1>5. SkipSwaps(plan) = SubSeq(plan, next, Len(plan))
  BY DEF SkipSwaps, Skip, next
<1>6. CASE first.part = "binary" /\ GeyserRepo
  <2>1. Head(rest) = S("swap", "geyser")
    BY <1>2, <1>3, <1>6 DEF Successor
  <2>2. /\ InOrder(kind, validator, Tail(rest))
        /\ Head(Tail(rest)) = Successor(kind, validator, S("swap", "geyser"))
    <3>1. Head(rest).do # "finish"
      BY <2>1 DEF S
    <3>2. QED
      BY <1>3, <2>1, <3>1, TailInOrder
  <2>3. Head(Tail(rest)) = Do("mark")
    BY <2>2 DEF Successor, S
  <2>4. /\ Len(Tail(rest)) > 0 /\ Len(Tail(rest)) = Len(rest) - 1 /\ Tail(rest)[1] = rest[2]
        /\ Head(Tail(rest)) = Tail(rest)[1] /\ rest[2] = plan[3]
    <3>1. /\ Len(Tail(rest)) = Len(rest) - 1
          /\ \A i \in 1..Len(Tail(rest)) : Tail(rest)[i] = rest[i+1]
      BY <1>4, HeadTailProperties
    <3>2. Tail(rest) \in Seq(Step) /\ Len(Tail(rest)) > 0
      BY <2>2 DEF InOrder
    <3>3. rest[2] = plan[3]
      BY <1>1, <1>4, <3>1, <3>2, HeadTailProperties DEF rest
    <3>4. QED
      BY <3>1, <3>2, <3>3
  <2>5. Tail(rest) = SubSeq(plan, 3, Len(plan))
    BY <1>1, <1>4, <2>4, HeadTailOfSubSeq
  <2>6. plan[1].do = "swap" /\ plan[2].do = "swap" /\ plan[3].do = "mark" /\ Len(plan) >= 3
    BY <1>1, <1>2, <1>4, <2>1, <2>3, <2>4 DEF S, Do
  <2>7. next = 3
    BY <1>1, <2>6 DEF next
  <2>8. QED
    BY <1>5, <2>2, <2>3, <2>5, <2>7
<1>7. CASE ~(first.part = "binary" /\ GeyserRepo)
  <2>1. Head(rest) = Do("mark")
    BY <1>2, <1>3, <1>7 DEF Successor
  <2>2. plan[1].do = "swap" /\ plan[2].do = "mark" /\ Len(plan) >= 2
    BY <1>1, <1>2, <1>4, <2>1 DEF Do
  <2>3. next = 2
    BY <1>1, <2>2 DEF next
  <2>4. QED
    BY <1>3, <1>4, <1>5, <2>1, <2>3
<1>8. QED
  BY <1>6, <1>7
-----------------------------------------------------------------------------
(* The inductive invariant. *)

\* The files an upgrade installs.
Arts == IF GeyserRepo THEN Parts ELSE {"binary"}

\* How far an operation is whose next command is s.
Rank(s) ==
  CASE s.do = "build" -> 1
    [] s.do = "push" -> IF s.part = "binary" THEN 2 ELSE 4
    [] s.do = "verify" -> IF s.part = "binary" THEN 3 ELSE 5
    [] s.do = "check" -> 6
    [] s.do = "stop" -> 7
    [] s.do = "swap" -> IF s.part = "binary" THEN 8 ELSE 9
    [] s.do = "mark" -> 10
    [] s.do \in {"start", "exit"} -> 11
    [] s.do = "catchup" -> 12
    [] OTHER -> 13

Now(j) == Rank(Head(j.plan))
VerifyRank(p) == IF p = "binary" THEN 3 ELSE 5
SwapRank(p) == IF p = "binary" THEN 8 ELSE 9

\* From its checksum to its swap a staged file is the target's; past the
\* check of the distribution also if a later command failed.
Staged(j) ==
  j.kind = "upgrade" =>
    \A p \in Arts :
      (VerifyRank(p) < Now(j) /\ Now(j) <= SwapRank(p) /\ (Now(j) <= 6 => j.ok)) =>
        staged[j.node][p] = j.version

\* Past its swap an installed file is.
Installed(j) ==
  (j.kind = "upgrade" /\ j.ok) =>
    \A p \in Arts : Now(j) > SwapRank(p) => file[j.node][p] = j.version

\* An RPC node is down while its files are replaced.
Down(j) ==
  (j.ok /\ j.node \notin validators /\ 7 < Now(j) /\ Now(j) <= 11) =>
    j.node \notin wanted /\ image[j.node] = None

\* Past the restart the node runs its files or is about to.
Up(j) ==
  (j.ok /\ 11 < Now(j)) => j.node \in wanted /\ image[j.node] \in {None, file[j.node]}

JobOK(j) ==
  /\ InOrder(j.kind, j.node \in validators, j.plan)
  /\ j.kind = "upgrade" /\ GeyserRepo => j.node \in GeyserNodes
  /\ j.alone => Staged(j) /\ Installed(j) /\ Down(j) /\ Up(j)

\* Two operations on one node: neither is alone.
Exclusive ==
  \A x, y \in Operators :
    (x # y /\ job[x] # None /\ job[y] # None /\ job[x].node = job[y].node) => ~job[x].alone

\* A report of an operation that was alone outlives no later one.
Reported(n) ==
  (report[n] # None /\ report[n].alone) =>
    /\ \A o \in Operators : job[o] # None => job[o].node # n
    /\ report[n].succeeded =>
         /\ n \in wanted /\ image[n] \in {None, file[n]}
         /\ report[n].kind = "upgrade" =>
              \A f \in Files(n) \cap Arts : file[n][f] = report[n].version

Inv ==
  /\ TypeOK
  /\ validators \subseteq wanted
  /\ \A o \in Operators : job[o] # None => JobOK(job[o])
  /\ Exclusive
  /\ \A n \in Nodes : Reported(n)
-----------------------------------------------------------------------------
(* What leaves an operation be. *)

\* A step that leaves the host of node n alone.
SameHost(n) ==
  /\ file'[n] = file[n] /\ staged'[n] = staged[n] /\ image'[n] = image[n]
  /\ n \in wanted' <=> n \in wanted

LEMMA Framed ==
  ASSUME NEW j \in Job, JobOK(j), validators' = validators, j.alone => SameHost(j.node)
  PROVE  JobOK(j)'
<1>1. CASE ~j.alone
  BY <1>1 DEF JobOK, InOrder, Legal, Successor, Job
<1>2. CASE j.alone
  <2>1. Staged(j)'
    BY <1>2 DEF JobOK, Staged, Now, SameHost
  <2>2. Installed(j)'
    BY <1>2 DEF JobOK, Installed, Now, SameHost
  <2>3. Down(j)'
    BY <1>2 DEF JobOK, Down, Now, SameHost
  <2>4. Up(j)'
    BY <1>2 DEF JobOK, Up, Now, SameHost
  <2>5. QED
    BY <2>1, <2>2, <2>3, <2>4 DEF JobOK, InOrder, Legal, Successor
<1>3. QED
  BY <1>1, <1>2

\* A step that leaves operators and reports alone, and every host but those
\* where no operation is affected.
LEMMA ReportFramed ==
  ASSUME NEW n \in Nodes, Reported(n), SameHost(n), report'[n] = report[n],
         \A o \in Operators : (job'[o] # None /\ job'[o].node = n) =>
                                 job[o] # None /\ job[o].node = n
  PROVE  Reported(n)'
BY DEF Reported, SameHost

\* Operator o goes on to k, a step of its operation that disturbs nothing
\* but its node.
LEMMA WorkStep ==
  ASSUME Inv, TypeOK', NEW o \in Operators, job[o] # None,
         NEW k \in Job, JobOK(k)', k.node = job[o].node, k.alone = job[o].alone,
         job' = [job EXCEPT ![o] = k],
         validators' = validators, report' = report, validators \subseteq wanted',
         \A m \in Nodes \ {k.node} : SameHost(m)
  PROVE  Inv'
<1> USE IdleAssumption
<1>1. /\ job \in [Operators -> Job \cup {None}] /\ report \in [Nodes -> Report \cup {None}]
      /\ job' \in [Operators -> Job \cup {None}]
      /\ job'[o] = k /\ \A x \in Operators \ {o} : job'[x] = job[x]
  BY DEF Inv, TypeOK
<1>2. k # None /\ k.node \in Nodes
  BY DEF Job
<1>3. ASSUME NEW x \in Operators, job'[x] # None
      PROVE  JobOK(job[x])'
  <2>1. CASE x = o
    BY <1>1, <2>1
  <2>2. CASE x # o
    <3>1. PICK j \in Job : job[x] = j /\ job'[x] = j
      BY <1>1, <1>3, <2>2
    <3>2. JobOK(j) /\ j.node \in Nodes
      BY <1>2, <3>1 DEF Inv, Job
    <3>3. j.alone => j.node # k.node
      BY <2>2, <3>1, <1>2 DEF Inv, Exclusive
    <3>4. JobOK(j)'
      BY <3>2, <3>3, Framed
    <3>5. QED
      BY <3>1, <3>4
  <2>3. QED
    BY <2>1, <2>2
<1>4. Exclusive'
  BY <1>1, <1>2 DEF Inv, Exclusive
<1>5. ASSUME NEW n \in Nodes
      PROVE  Reported(n)'
  <2>1. CASE n = k.node
    BY <1>1, <1>2, <2>1 DEF Inv, Reported
  <2>2. CASE n # k.node
    BY <1>1, <1>2, <2>2, ReportFramed DEF Inv
  <2>3. QED
    BY <2>1, <2>2
<1>6. QED
  BY <1>3, <1>4, <1>5 DEF Inv

\* Operator o reports the outcome of its operation.
LEMMA FinishStep ==
  ASSUME Inv, NEW o \in Operators, job[o] # None, NEW s \in BOOLEAN,
         s => job[o].ok /\ Now(job[o]) = 13,
         Finished(o, s), UNCHANGED <<validators, hostVars, leading>>,
         faults' \in 0..MaxFaults
  PROVE  Inv'
<1> USE IdleAssumption
<1> DEFINE n == job[o].node
<1>1. /\ job \in [Operators -> Job \cup {None}] /\ report \in [Nodes -> Report \cup {None}]
      /\ job' = [job EXCEPT ![o] = None] /\ report' = [report EXCEPT ![n] = Result(job[o], s)]
      /\ job[o] \in Job /\ n \in Nodes
  BY DEF Inv, TypeOK, Finished, Job
<1>2. job'[o] = None /\ \A x \in Operators \ {o} : job'[x] = job[x]
  BY <1>1
<1>3. \A m \in Nodes : SameHost(m)
  BY DEF SameHost, hostVars
<1>4. ASSUME NEW x \in Operators, job'[x] # None
      PROVE  JobOK(job[x])'
  <2>1. PICK j \in Job : job[x] = j /\ job'[x] = j
    BY <1>1, <1>2, <1>4
  <2>2. JobOK(j) /\ j.node \in Nodes
    BY <1>4, <2>1 DEF Inv, Job
  <2>3. JobOK(j)'
    BY <1>3, <2>2, Framed
  <2>4. QED
    BY <2>1, <2>3
<1>5. Exclusive'
  BY <1>1, <1>2 DEF Inv, Exclusive
<1>6. ASSUME NEW m \in Nodes
      PROVE  Reported(m)'
  <2>1. CASE m = n
    <3>1. PICK j \in Job : job[o] = j
      BY <1>1
    <3>2. JobOK(j) /\ report'[m] = Result(j, s) /\ j.node = n
      BY <1>1, <2>1, <3>1 DEF Inv
    <3>3. SUFFICES ASSUME j.alone PROVE Reported(m)'
      BY <3>2 DEF Reported, Result
    <3>4. \A x \in Operators : job'[x] # None => job'[x].node # m
      BY <1>1, <1>2, <2>1, <3>1, <3>3 DEF Inv, Exclusive
    <3>5. ASSUME s
          PROVE  /\ m \in wanted /\ image[m] \in {None, file[m]}
                 /\ j.kind = "upgrade" => \A f \in Files(m) \cap Arts : file[m][f] = j.version
      <4>1. j.ok /\ Now(j) = 13 /\ Up(j) /\ Installed(j)
        BY <3>1, <3>2, <3>3, <3>5 DEF JobOK
      <4>2. QED
        BY <2>1, <3>1, <4>1 DEF Up, Installed, SwapRank
    <3>6. QED
      BY <3>2, <3>4, <3>5 DEF Reported, Result, hostVars
  <2>2. CASE m # n
    BY <1>1, <1>2, <1>3, <2>2, ReportFramed DEF Inv
  <2>3. QED
    BY <2>1, <2>2
<1>7. TypeOK'
  <2>1. Result(job[o], s) \in Report
    BY <1>1 DEF Result, Report, Job
  <2>2. job' \in [Operators -> Job \cup {None}] /\ report' \in [Nodes -> Report \cup {None}]
    BY <1>1, <2>1
  <2>3. QED
    BY <2>2 DEF Inv, TypeOK, hostVars
<1>8. QED
  BY <1>4, <1>5, <1>6, <1>7 DEF Inv, hostVars
-----------------------------------------------------------------------------
(* One lemma per command. *)

\* Operator o goes on from j to k, with the result ok.
Moves(o, j, k, ok) ==
  /\ job[o] = j /\ job' = [job EXCEPT ![o] = k]
  /\ k.kind = j.kind /\ k.node = j.node /\ k.version = j.version /\ k.alone = j.alone
  /\ k.ok <=> (j.ok /\ ok)
  /\ InOrder(k.kind, k.node \in validators, k.plan)

Goes(o, j, k, ok) ==
  /\ Moves(o, j, k, ok)
  /\ Head(k.plan) = Successor(k.kind, k.node \in validators, Head(j.plan))

LEMMA AtJob ==
  ASSUME Inv, NEW o \in Operators, NEW c, At(o, c)
  PROVE  /\ job[o] \in Job /\ JobOK(job[o]) /\ job[o].node \in Nodes /\ job[o] # None
         /\ Legal(job[o].kind, job[o].node \in validators, Head(job[o].plan))
         /\ Head(job[o].plan).do = c
<1>1. job[o] \in Job /\ JobOK(job[o]) /\ Head(job[o].plan).do = c /\ job[o] # None
  BY DEF Inv, TypeOK, At
<1> DEFINE plan == job[o].plan
<1>2. InOrder(job[o].kind, job[o].node \in validators, plan)
  BY <1>1 DEF JobOK
<1> HIDE DEF plan
<1>3. 1 \in 1..Len(plan) /\ Head(plan) = plan[1]
  BY <1>2 DEF InOrder
<1>4. Legal(job[o].kind, job[o].node \in validators, plan[1])
  BY <1>2, <1>3 DEF InOrder
<1>5. QED
  BY <1>1, <1>3, <1>4 DEF Job, plan

LEMMA Proceeds ==
  ASSUME Inv, NEW o \in Operators, NEW c, At(o, c), c # "finish",
         NEW ok \in BOOLEAN, Proceed(o, ok)
  PROVE  \E k \in Job : Goes(o, job[o], k, ok)
<1>1. PICK j \in Job : job[o] = j /\ JobOK(j) /\ Head(j.plan).do = c
  BY AtJob
<1> DEFINE k == [j EXCEPT !.plan = Tail(j.plan), !.ok = j.ok /\ ok]
<1>2. job' = [job EXCEPT ![o] = k]
  BY <1>1 DEF Proceed
<1>3. InOrder(j.kind, j.node \in validators, j.plan)
  BY <1>1 DEF JobOK
<1>4. /\ InOrder(j.kind, j.node \in validators, Tail(j.plan))
      /\ Head(Tail(j.plan)) = Successor(j.kind, j.node \in validators, Head(j.plan))
  BY <1>1, <1>3, TailInOrder
<1>5. Tail(j.plan) \in Seq(Step)
  BY <1>4 DEF InOrder
<1>6. /\ k \in Job
      /\ k.kind = j.kind /\ k.node = j.node /\ k.version = j.version /\ k.alone = j.alone
      /\ k.ok <=> (j.ok /\ ok)
      /\ k.plan = Tail(j.plan)
  BY <1>5 DEF Job
<1> HIDE DEF k
<1>7. QED
  BY <1>1, <1>2, <1>4, <1>6 DEF Goes, Moves

LEMMA BuildStep ==
  ASSUME Inv, NEW o \in Operators, Build(o)
  PROVE  Inv'
<1>1. PICK ok \in BOOLEAN :
        /\ Outcome(ok, TRUE)
        /\ IF ok THEN Proceed(o, TRUE) /\ UNCHANGED report ELSE Finished(o, FALSE)
  BY DEF Build
<1>2. PICK j \in Job : /\ job[o] = j /\ JobOK(j) /\ j.node \in Nodes /\ Head(j.plan).do = "build"
                       /\ j # None /\ At(o, "build")
  BY AtJob DEF Build
<1>3. faults' \in 0..MaxFaults /\ UNCHANGED <<hostVars, validators, leading>>
  BY <1>1, NodeOpsAssumption DEF Build, Outcome, Inv, TypeOK
<1>4. CASE ok
  <2>1. PICK k \in Job : Goes(o, j, k, TRUE)
    BY <1>1, <1>2, <1>4, Proceeds
  <2>2. Now(k) = 2
    BY <1>2, <2>1 DEF Now, Rank, Successor, Goes, Moves, Do
  <2>3. JobOK(k)'
    BY <1>2, <1>3, <2>1, <2>2 DEF JobOK, Goes, Moves, Staged, Installed, Down, Up, VerifyRank, SwapRank, hostVars, Now
  <2>4. TypeOK'
    BY <1>1, <1>3, <1>4, <2>1 DEF TypeOK, Inv, Goes, Moves, hostVars
  <2>5. QED
    BY <1>1, <1>2, <1>3, <1>4, <2>1, <2>3, <2>4, WorkStep DEF Goes, Moves, SameHost, hostVars, Inv
<1>5. CASE ~ok
  BY <1>1, <1>2, <1>3, <1>5, FinishStep DEF hostVars
<1>6. QED
  BY <1>4, <1>5

LEMMA PushStep ==
  ASSUME Inv, NEW o \in Operators, Push(o)
  PROVE  Inv'
<1>1. PICK j \in Job : /\ job[o] = j /\ JobOK(j) /\ j.node \in Nodes /\ Head(j.plan).do = "push"
                       /\ Legal(j.kind, j.node \in validators, Head(j.plan))
                       /\ j # None /\ At(o, "push")
  BY AtJob DEF Push
<1> DEFINE n == j.node
           part == Head(j.plan).part
<1>2. PICK ok \in BOOLEAN, content \in Content \cup {None} :
        /\ Outcome(ok, TRUE) /\ staged' = [staged EXCEPT ![n][part] = content] /\ Proceed(o, ok)
        /\ UNCHANGED <<file, marker, wanted, image, validators, leading, report>>
  BY <1>1 DEF Push
<1>3. PICK k \in Job : Goes(o, j, k, ok)
  BY <1>1, <1>2, Proceeds
<1>4. faults' \in 0..MaxFaults
  BY <1>2, NodeOpsAssumption DEF Outcome, Inv, TypeOK
<1>5. part \in Parts /\ Now(k) = IF part = "binary" THEN 3 ELSE 5
  BY <1>1, <1>3 DEF Now, Rank, Successor, Goes, Moves, S, Legal, Step, Parts
<1>6. Now(j) = IF part = "binary" THEN 2 ELSE 4
  BY <1>1 DEF Now, Rank
<1>7. /\ \A m \in Nodes \ {n} : staged'[m] = staged[m]
      /\ \A p \in Parts \ {part} : staged'[n][p] = staged[n][p]
  BY <1>1, <1>2 DEF Inv, TypeOK
<1> HIDE DEF part
<1>8. JobOK(k)'
  <2>1. ASSUME k.alone PROVE Staged(k)'
    BY <1>1, <1>3, <1>5, <1>6, <1>7, <2>1 DEF JobOK, Goes, Moves, Staged, VerifyRank, SwapRank, Arts, Parts
  <2>2. Installed(k)' /\ Down(k)' /\ Up(k)'
    BY <1>5, <1>2, <1>3 DEF Installed, Down, Up, SwapRank, Now
  <2>3. QED
    BY <1>1, <1>2, <1>3, <2>1, <2>2 DEF JobOK, Goes, Moves
<1>9. TypeOK'
  <2>1. \A m \in Nodes : staged'[m] \in [Files(m) -> Content \cup {None}] /\ DOMAIN staged' = Nodes
    BY <1>1, <1>2 DEF Inv, TypeOK
  <2>2. QED
    BY <1>2, <1>3, <1>4, <2>1 DEF Inv, TypeOK, Goes, Moves
<1>10. QED
  BY <1>1, <1>2, <1>3, <1>7, <1>8, <1>9, WorkStep DEF Goes, Moves, SameHost, Inv

LEMMA VerifyStep ==
  ASSUME Inv, NEW o \in Operators, Verify(o)
  PROVE  Inv'
<1>1. PICK j \in Job : /\ job[o] = j /\ JobOK(j) /\ j.node \in Nodes /\ Head(j.plan).do = "verify"
                       /\ Legal(j.kind, j.node \in validators, Head(j.plan))
                       /\ j # None /\ At(o, "verify")
  BY AtJob DEF Verify
<1> DEFINE n == j.node
           part == Head(j.plan).part
<1>2. PICK ok \in BOOLEAN :
        /\ Outcome(ok, staged[n][part] = j.version) /\ Proceed(o, ok)
        /\ UNCHANGED <<hostVars, validators, leading, report>>
  BY <1>1 DEF Verify
<1>3. PICK k \in Job : Goes(o, j, k, ok)
  BY <1>1, <1>2, Proceeds
<1>4. faults' \in 0..MaxFaults /\ (ok => staged[n][part] = j.version)
  BY <1>2, NodeOpsAssumption DEF Outcome, Inv, TypeOK
<1>5. /\ part \in Parts /\ Now(j) = IF part = "binary" THEN 3 ELSE 5
      /\ \/ Now(k) = 4 /\ part = "binary"
         \/ Now(k) = 6 /\ (part = "geyser" \/ Arts = {"binary"})
  BY <1>1, <1>3 DEF Now, Rank, Successor, Goes, Moves, S, Do, Legal, Step, Parts, Arts
<1> HIDE DEF part
<1>6. JobOK(k)'
  <2>1. ASSUME k.alone PROVE Staged(k)'
    <3>1. k.kind = "upgrade" => Staged(j) /\ staged' = staged
      BY <1>1, <1>2, <1>3, <2>1 DEF JobOK, Goes, Moves, hostVars
    <3>2. ASSUME k.kind = "upgrade", NEW p \in Arts, VerifyRank(p) < Now(k), k.ok
          PROVE  staged[n][p] = j.version
      <4>1. CASE p = part
        BY <1>3, <1>4, <3>2, <4>1 DEF Goes, Moves
      <4>2. CASE p # part
        <5>1. p = "binary" /\ part = "geyser"
          <6>1. p \in {"binary", "geyser"} /\ part \in {"binary", "geyser"}
            BY <1>5, <3>2 DEF Arts, Parts
          <6>2. QED
            BY <1>5, <3>2, <4>2, <6>1 DEF VerifyRank
        <5>2. VerifyRank(p) < Now(j) /\ Now(j) <= SwapRank(p) /\ j.ok
          BY <1>3, <1>5, <3>2, <5>1 DEF Goes, Moves, VerifyRank, SwapRank
        <5>3. QED
          BY <1>3, <3>1, <3>2, <5>2 DEF Staged, Goes, Moves
      <4>3. QED
        BY <4>1, <4>2
    <3>3. Now(k) <= 6
      BY <1>5
    <3>4. QED
      BY <1>3, <3>1, <3>2, <3>3 DEF Goes, Moves, Staged
  <2>2. Installed(k)' /\ Down(k)' /\ Up(k)'
    BY <1>2, <1>3, <1>5 DEF Installed, Down, Up, SwapRank, Now
  <2>3. QED
    BY <1>1, <1>2, <1>3, <2>1, <2>2 DEF JobOK, Goes, Moves
<1>7. TypeOK'
  BY <1>2, <1>3, <1>4 DEF Inv, TypeOK, Goes, Moves, hostVars
<1>8. QED
  BY <1>1, <1>2, <1>3, <1>6, <1>7, WorkStep DEF Goes, Moves, SameHost, hostVars, Inv

LEMMA CheckStep ==
  ASSUME Inv, NEW o \in Operators, Check(o)
  PROVE  Inv'
<1>1. PICK j \in Job : /\ job[o] = j /\ JobOK(j) /\ j.node \in Nodes /\ Head(j.plan).do = "check"
                       /\ Legal(j.kind, j.node \in validators, Head(j.plan))
                       /\ j # None /\ At(o, "check")
  BY AtJob DEF Check
<1>2. UNCHANGED <<hostVars, validators, leading, faults>>
  BY DEF Check
<1>3. CASE ~j.ok
  BY <1>1, <1>2, <1>3, FinishStep DEF Check, Distributed, Inv, TypeOK
<1>4. CASE j.ok
  <2>1. Proceed(o, TRUE) /\ UNCHANGED report
    BY <1>1, <1>4 DEF Check, Distributed
  <2>2. PICK k \in Job : Goes(o, j, k, TRUE)
    BY <1>1, <2>1, Proceeds
  <2>3. Now(j) = 6 /\ Now(k) = IF k.node \in validators THEN 8 ELSE 7
    BY <1>1, <2>2 DEF Now, Rank, Successor, Goes, Moves, Do, Legal
  <2>4. JobOK(k)'
    <3>1. ASSUME k.alone PROVE Staged(k)'
      BY <1>1, <1>2, <1>4, <2>2, <2>3, <3>1
         DEF JobOK, Goes, Moves, Staged, VerifyRank, SwapRank, Arts, Parts, hostVars, Now
    <3>2. Installed(k)' /\ Down(k)' /\ Up(k)'
      BY <1>2, <2>2, <2>3 DEF Installed, Down, Up, SwapRank, Now
    <3>3. QED
      BY <1>1, <1>2, <2>2, <3>1, <3>2 DEF JobOK, Goes, Moves
  <2>5. TypeOK'
    BY <1>2, <2>1, <2>2 DEF Inv, TypeOK, Goes, Moves, hostVars
  <2>6. QED
    BY <1>1, <1>2, <2>1, <2>2, <2>4, <2>5, WorkStep DEF Goes, Moves, SameHost, hostVars, Inv
<1>5. QED
  BY <1>3, <1>4

LEMMA StopStep ==
  ASSUME Inv, NEW o \in Operators, Stop(o)
  PROVE  Inv'
<1>1. PICK j \in Job : /\ job[o] = j /\ JobOK(j) /\ j.node \in Nodes /\ Head(j.plan).do = "stop"
                       /\ Legal(j.kind, j.node \in validators, Head(j.plan))
                       /\ j # None /\ At(o, "stop")
  BY AtJob DEF Stop
<1> DEFINE n == j.node
<1>2. PICK ok \in BOOLEAN, done \in BOOLEAN :
        /\ Outcome(ok, TRUE) /\ Effect(ok, TRUE, done)
        /\ wanted' = IF done THEN wanted \ {n} ELSE wanted
        /\ image' = IF done THEN [image EXCEPT ![n] = None] ELSE image
        /\ Proceed(o, ok)
        /\ UNCHANGED <<file, staged, marker, validators, leading, report>>
  BY <1>1 DEF Stop
<1>3. PICK k \in Job : Goes(o, j, k, ok)
  BY <1>1, <1>2, Proceeds
<1>4. faults' \in 0..MaxFaults /\ (ok => done)
  BY <1>2, NodeOpsAssumption DEF Outcome, Effect, Inv, TypeOK
<1>5. n \notin validators /\ Now(j) = 7 /\ Now(k) = IF k.kind = "restart" THEN 11 ELSE 8
  BY <1>1, <1>3 DEF Now, Rank, Successor, Goes, Moves, Do, Legal
<1>6. /\ \A m \in Nodes \ {n} : SameHost(m)
      /\ done => n \notin wanted' /\ image'[n] = None
      /\ validators \subseteq wanted'
  BY <1>1, <1>2, <1>5 DEF Inv, TypeOK, SameHost
<1>7. JobOK(k)'
  <2>1. ASSUME k.alone PROVE Staged(k)'
    <3>1. k.kind = "upgrade" => Staged(j)
      BY <1>1, <1>3, <2>1 DEF JobOK, Goes, Moves
    <3>2. QED
      BY <1>2, <1>3, <1>5, <3>1 DEF Goes, Moves, Staged, VerifyRank, SwapRank
  <2>2. Installed(k)' /\ Down(k)' /\ Up(k)'
    BY <1>2, <1>3, <1>4, <1>5, <1>6 DEF Installed, Down, Up, SwapRank, Goes, Moves, Job
  <2>3. QED
    BY <1>1, <1>2, <1>3, <2>1, <2>2 DEF JobOK, Goes, Moves
<1>8. TypeOK'
  BY <1>1, <1>2, <1>3, <1>4 DEF Inv, TypeOK, Goes, Moves
<1>9. QED
  BY <1>1, <1>2, <1>3, <1>6, <1>7, <1>8, WorkStep DEF Goes, Moves

LEMMA MarkStep ==
  ASSUME Inv, NEW o \in Operators, Mark(o)
  PROVE  Inv'
<1>1. PICK j \in Job : /\ job[o] = j /\ JobOK(j) /\ j.node \in Nodes /\ Head(j.plan).do = "mark"
                       /\ Legal(j.kind, j.node \in validators, Head(j.plan))
                       /\ j # None /\ At(o, "mark")
  BY AtJob DEF Mark
<1>2. PICK ok \in BOOLEAN, done \in BOOLEAN :
        /\ Outcome(ok, TRUE)
        /\ marker' = IF done THEN [marker EXCEPT ![j.node] = j.version] ELSE marker
        /\ Proceed(o, TRUE)
        /\ UNCHANGED <<file, staged, wanted, image, validators, leading, report>>
  BY <1>1 DEF Mark
<1>3. PICK k \in Job : Goes(o, j, k, TRUE)
  BY <1>1, <1>2, Proceeds
<1>4. faults' \in 0..MaxFaults
  BY <1>2, NodeOpsAssumption DEF Outcome, Inv, TypeOK
<1>5. Now(j) = 10 /\ Now(k) = 11
  BY <1>1, <1>3 DEF Now, Rank, Successor, Goes, Moves, Do
<1>6. JobOK(k)'
  BY <1>1, <1>2, <1>3, <1>5
     DEF JobOK, Goes, Moves, Staged, Installed, Down, Up, VerifyRank, SwapRank
<1>7. TypeOK'
  BY <1>1, <1>2, <1>3, <1>4 DEF Inv, TypeOK, Goes, Moves, Job
<1>8. QED
  BY <1>1, <1>2, <1>3, <1>6, <1>7, WorkStep DEF Goes, Moves, SameHost, Inv

LEMMA StartStep ==
  ASSUME Inv, NEW o \in Operators, Start(o)
  PROVE  Inv'
<1>1. PICK j \in Job : /\ job[o] = j /\ JobOK(j) /\ j.node \in Nodes /\ Head(j.plan).do = "start"
                       /\ Legal(j.kind, j.node \in validators, Head(j.plan))
                       /\ j # None /\ At(o, "start")
  BY AtJob DEF Start
<1> DEFINE n == j.node
<1>2. PICK ok \in BOOLEAN, done \in BOOLEAN :
        /\ Outcome(ok, TRUE) /\ Effect(ok, TRUE, done)
        /\ wanted' = IF done THEN wanted \cup {n} ELSE wanted
        /\ Proceed(o, ok)
        /\ UNCHANGED <<file, staged, marker, image, validators, leading, report>>
  BY <1>1 DEF Start
<1>3. PICK k \in Job : Goes(o, j, k, ok)
  BY <1>1, <1>2, Proceeds
<1>4. faults' \in 0..MaxFaults /\ (ok => done)
  BY <1>2, NodeOpsAssumption DEF Outcome, Effect, Inv, TypeOK
<1>5. n \notin validators /\ Now(j) = 11 /\ Now(k) = 12
  BY <1>1, <1>3 DEF Now, Rank, Successor, Goes, Moves, Do, Legal
<1>6. (\A m \in Nodes \ {n} : SameHost(m)) /\ validators \subseteq wanted'
  BY <1>1, <1>2 DEF Inv, SameHost
<1>7. JobOK(k)'
  BY <1>1, <1>2, <1>3, <1>4, <1>5
     DEF JobOK, Goes, Moves, Staged, Installed, Down, Up, VerifyRank, SwapRank
<1>8. TypeOK'
  BY <1>1, <1>2, <1>3, <1>4 DEF Inv, TypeOK, Goes, Moves
<1>9. QED
  BY <1>1, <1>2, <1>3, <1>6, <1>7, <1>8, WorkStep DEF Goes, Moves

LEMMA SafeExitStep ==
  ASSUME Inv, NEW o \in Operators, SafeExit(o)
  PROVE  Inv'
<1>1. PICK j \in Job : /\ job[o] = j /\ JobOK(j) /\ j.node \in Nodes /\ Head(j.plan).do = "exit"
                       /\ Legal(j.kind, j.node \in validators, Head(j.plan))
                       /\ j # None /\ At(o, "exit")
  BY AtJob DEF SafeExit
<1> DEFINE n == j.node
<1>2. PICK ok \in BOOLEAN, done \in BOOLEAN :
        /\ Outcome(ok, image[n] # None) /\ Effect(ok, image[n] # None, done)
        /\ image' = IF done THEN [image EXCEPT ![n] = None] ELSE image
        /\ Proceed(o, ok)
        /\ UNCHANGED <<file, staged, marker, wanted, validators, leading, report>>
  BY <1>1 DEF SafeExit
<1>3. PICK k \in Job : Goes(o, j, k, ok)
  BY <1>1, <1>2, Proceeds
<1>4. faults' \in 0..MaxFaults /\ (ok => done)
  BY <1>2, NodeOpsAssumption DEF Outcome, Effect, Inv, TypeOK
<1>5. n \in validators /\ n \in wanted /\ Now(j) = 11 /\ Now(k) = 12
  BY <1>1, <1>3 DEF Inv, Now, Rank, Successor, Goes, Moves, Do, Legal
<1>6. (\A m \in Nodes \ {n} : SameHost(m)) /\ (done => image'[n] = None)
  BY <1>1, <1>2 DEF Inv, TypeOK, SameHost
<1>7. JobOK(k)'
  BY <1>1, <1>2, <1>3, <1>4, <1>5, <1>6
     DEF JobOK, Goes, Moves, Staged, Installed, Down, Up, VerifyRank, SwapRank
<1>8. TypeOK'
  BY <1>1, <1>2, <1>3, <1>4 DEF Inv, TypeOK, Goes, Moves
<1>9. QED
  BY <1>1, <1>2, <1>3, <1>6, <1>7, <1>8, WorkStep DEF Goes, Moves, Inv

LEMMA CatchUpStep ==
  ASSUME Inv, NEW o \in Operators, CatchUp(o)
  PROVE  Inv'
<1>1. PICK j \in Job : /\ job[o] = j /\ JobOK(j) /\ j.node \in Nodes /\ Head(j.plan).do = "catchup"
                       /\ j # None /\ At(o, "catchup")
  BY AtJob DEF CatchUp
<1>2. PICK ok \in BOOLEAN :
        Proceed(o, ok) /\ UNCHANGED <<hostVars, validators, leading, report, faults>>
  BY DEF CatchUp
<1>3. PICK k \in Job : Goes(o, j, k, ok)
  BY <1>1, <1>2, Proceeds
<1>4. Now(j) = 12 /\ Now(k) = 13
  BY <1>1, <1>3 DEF Now, Rank, Successor, Goes, Moves, Do
<1>5. JobOK(k)'
  BY <1>1, <1>2, <1>3, <1>4
     DEF JobOK, Goes, Moves, Staged, Installed, Down, Up, VerifyRank, SwapRank, hostVars
<1>6. TypeOK'
  BY <1>1, <1>2, <1>3 DEF Inv, TypeOK, Goes, Moves, hostVars
<1>7. QED
  BY <1>1, <1>2, <1>3, <1>5, <1>6, WorkStep DEF Goes, Moves, SameHost, Inv, hostVars

LEMMA ReportStep ==
  ASSUME Inv, NEW o \in Operators, Finish(o)
  PROVE  Inv'
<1>1. PICK j \in Job : job[o] = j /\ Head(j.plan).do = "finish" /\ j # None
  BY AtJob DEF Finish
<1>2. PICK seen \in BOOLEAN :
        /\ Outcome(seen, TRUE)
        /\ Finished(o, Succeeded(j, seen /\ VersionMatches(file[j.node]["binary"], j.version)))
  BY <1>1 DEF Finish
<1>3. faults' \in 0..MaxFaults
  BY <1>2, NodeOpsAssumption DEF Outcome, Inv, TypeOK
<1> DEFINE s == Succeeded(j, seen /\ VersionMatches(file[j.node]["binary"], j.version))
<1>4. s \in BOOLEAN /\ (s => j.ok)
  BY <1>1 DEF Succeeded
<1>5. Now(j) = 13
  BY <1>1 DEF Now, Rank
<1> HIDE DEF s
<1>6. QED
  BY <1>1, <1>2, <1>3, <1>4, <1>5, FinishStep DEF Finish, s

LEMMA SwapStep ==
  ASSUME Inv, NEW o \in Operators, SwapOne(o)
  PROVE  Inv'
<1>1. PICK j \in Job : /\ job[o] = j /\ JobOK(j) /\ j.node \in Nodes /\ Head(j.plan).do = "swap"
                       /\ Legal(j.kind, j.node \in validators, Head(j.plan))
                       /\ j # None /\ At(o, "swap")
  BY AtJob DEF SwapOne
<1> DEFINE n == j.node
           part == Head(j.plan).part
<1>2. PICK ok \in BOOLEAN, done \in BOOLEAN :
        /\ Outcome(ok, staged[n][part] # None) /\ Effect(ok, staged[n][part] # None, done)
        /\ file' = IF done THEN [file EXCEPT ![n][part] = staged[n][part]] ELSE file
        /\ staged' = IF done THEN [staged EXCEPT ![n][part] = None] ELSE staged
        /\ job' = [job EXCEPT ![o].plan = IF ok THEN Tail(@) ELSE SkipSwaps(@),
                              ![o].ok = @ /\ ok]
        /\ UNCHANGED <<marker, wanted, image, validators, leading, report>>
  BY <1>1 DEF SwapOne
<1>3. /\ faults' \in 0..MaxFaults
      /\ (ok => done) /\ (done => staged[n][part] # None)
  BY <1>2, NodeOpsAssumption DEF Outcome, Effect, Inv, TypeOK
<1>4. part \in Parts /\ j.kind = "upgrade" /\ Now(j) = SwapRank(part)
  BY <1>1 DEF Now, Rank, Legal, Step, Parts, SwapRank, Job
<1>5. Arts \subseteq Files(n) /\ part \in Arts
  BY <1>1, <1>4 DEF JobOK, Arts, Parts, Files, Legal
<1>6. \A m \in Nodes \ {n} : SameHost(m)
  BY <1>1, <1>2 DEF Inv, TypeOK, SameHost
<1>7. /\ done => file'[n][part] = staged[n][part]
      /\ \A p \in Arts \ {part} : file'[n][p] = file[n][p] /\ staged'[n][p] = staged[n][p]
  BY <1>1, <1>2, <1>5 DEF Inv, TypeOK
<1>8. /\ DOMAIN file' = Nodes /\ \A m \in Nodes : file'[m] \in [Files(m) -> Content]
      /\ DOMAIN staged' = Nodes
      /\ \A m \in Nodes : staged'[m] \in [Files(m) -> Content \cup {None}]
  <2>1. /\ DOMAIN file = Nodes /\ \A m \in Nodes : file[m] \in [Files(m) -> Content]
        /\ DOMAIN staged = Nodes
        /\ \A m \in Nodes : staged[m] \in [Files(m) -> Content \cup {None}]
    BY DEF Inv, TypeOK
  <2>2. done => staged[n][part] \in Content
    BY <1>1, <1>3, <1>5, <2>1
  <2>3. QED
    BY <1>2, <2>1, <2>2
<1> HIDE DEF part
<1>9. ASSUME NEW k \in Job, Moves(o, j, k, ok), JobOK(k)'
      PROVE  Inv'
  <2>1. UNCHANGED <<marker, wanted, image, validators, leading, report>>
    BY <1>2
  <2>2. TypeOK'
    BY <1>3, <1>8, <1>9, <2>1 DEF Inv, TypeOK, Moves
  <2>3. QED
    BY <1>1, <1>6, <1>9, <2>1, <2>2, WorkStep DEF Moves, Inv
<1>10. CASE ok
  <2>1. PICK k \in Job : Goes(o, j, k, ok)
    <3>1. Proceed(o, ok)
      BY <1>2, <1>10 DEF Proceed
    <3>2. QED
      BY <1>1, <3>1, Proceeds
  <2>2. \/ Now(k) = 9 /\ part = "binary"
        \/ Now(k) = 10 /\ (part = "geyser" \/ Arts = {"binary"})
    BY <1>1, <1>4, <2>1 DEF Now, Rank, Successor, Goes, S, Do, Parts, Arts, part
  <2>3. SUFFICES ASSUME k.alone PROVE Staged(k)' /\ Installed(k)' /\ Down(k)' /\ Up(k)'
    BY <1>1, <1>2, <1>9, <2>1 DEF Goes, Moves, JobOK
  <2>4. Staged(j) /\ Installed(j) /\ Down(j)
    BY <1>1, <2>1, <2>3 DEF Goes, Moves, JobOK
  <2>5. Arts \subseteq {"binary", "geyser"} /\ part \in {"binary", "geyser"}
    BY <1>4 DEF Arts, Parts
  <2>6. Staged(k)'
    <3>1. ASSUME NEW p \in Arts, Now(k) <= SwapRank(p)
          PROVE  staged'[n][p] = j.version
      <4>1. p = "geyser" /\ part = "binary"
        BY <2>2, <2>5, <3>1 DEF SwapRank
      <4>2. staged[n][p] = j.version
        BY <1>4, <2>4, <4>1 DEF Staged, SwapRank, VerifyRank
      <4>3. QED
        BY <1>7, <4>1, <4>2
    <3>2. QED
      BY <2>1, <3>1 DEF Staged, Goes, Moves
  <2>7. Installed(k)'
    <3>1. ASSUME NEW p \in Arts, Now(k) > SwapRank(p), k.ok
          PROVE  file'[n][p] = j.version
      <4>1. CASE p = part
        <5>1. staged[n][p] = j.version
          BY <1>4, <2>4, <2>5, <4>1 DEF Staged, SwapRank, VerifyRank
        <5>2. QED
          BY <1>3, <1>7, <1>10, <4>1, <5>1
      <4>2. CASE p # part
        <5>1. p = "binary" /\ part = "geyser"
          BY <2>2, <2>5, <3>1, <4>2 DEF SwapRank
        <5>2. j.ok
          BY <2>1, <3>1 DEF Goes, Moves
        <5>3. file[n][p] = j.version
          BY <1>4, <2>4, <5>1, <5>2 DEF Installed, SwapRank
        <5>4. QED
          BY <1>7, <4>2, <5>3
      <4>3. QED
        BY <4>1, <4>2
    <3>2. QED
      BY <2>1, <3>1 DEF Installed, Goes, Moves
  <2>8. Down(k)' /\ Up(k)'
    BY <1>2, <1>4, <2>1, <2>2, <2>4, <2>5 DEF Down, Up, Goes, Moves, SwapRank
  <2>9. QED
    BY <2>6, <2>7, <2>8
<1>11. CASE ~ok
  <2> DEFINE k == [j EXCEPT !.plan = SkipSwaps(j.plan), !.ok = j.ok /\ ok]
  <2>1. /\ InOrder(j.kind, j.node \in validators, SkipSwaps(j.plan))
        /\ Head(SkipSwaps(j.plan)) = Do("mark")
    BY <1>1, SkipInOrder DEF JobOK
  <2>2. /\ k \in Job /\ k.plan = SkipSwaps(j.plan) /\ (k.ok <=> (j.ok /\ ok))
        /\ k.kind = j.kind /\ k.node = j.node /\ k.version = j.version /\ k.alone = j.alone
    BY <2>1 DEF Job, InOrder
  <2>3. Moves(o, j, k, ok)
    <3>1. job' = [job EXCEPT ![o] = k]
      BY <1>1, <1>2, <1>11
    <3> HIDE DEF k
    <3>2. QED
      BY <1>1, <2>1, <2>2, <3>1 DEF Moves
  <2>4. Now(k) = 10 /\ ~k.ok
    BY <1>11, <2>1, <2>2 DEF Now, Rank, Do
  <2> HIDE DEF k
  <2>5. JobOK(k)'
    BY <1>1, <1>2, <2>3, <2>4 DEF Moves, JobOK, Staged, Installed, Down, Up, SwapRank
  <2>6. QED
    BY <1>9, <2>2, <2>3, <2>5
<1>12. QED
  BY <1>10, <1>11
-----------------------------------------------------------------------------
(* The gate and the surroundings. *)

\* Operator o has no operation any more.
LEMMA LeaveStep ==
  ASSUME Inv, NEW o \in Operators, OperatorDies(o)
  PROVE  Inv'
<1> USE IdleAssumption
<1>1. /\ job' = [job EXCEPT ![o] = None]
      /\ UNCHANGED <<hostVars, validators, leading, report>>
      /\ job \in [Operators -> Job \cup {None}]
  BY DEF OperatorDies, Inv, TypeOK
<1>2. \A x \in Operators : job'[x] # None => job'[x] = job[x] /\ x # o
  BY <1>1
<1>3. ASSUME NEW x \in Operators, job'[x] # None
      PROVE  JobOK(job[x])'
  <2>1. PICK j \in Job : job[x] = j /\ job'[x] = j
    BY <1>1, <1>2, <1>3
  <2>2. JobOK(j)
    BY <1>2, <1>3, <2>1 DEF Inv
  <2>3. JobOK(j)'
    BY <1>1, <2>2, Framed DEF SameHost, hostVars
  <2>4. QED
    BY <2>1, <2>3
<1>4. Exclusive'
  BY <1>2 DEF Inv, Exclusive
<1>5. ASSUME NEW n \in Nodes PROVE Reported(n)'
  BY <1>1, <1>2, ReportFramed DEF Inv, SameHost, hostVars
<1>6. TypeOK'
  BY <1>1, NodeOpsAssumption DEF Inv, TypeOK, OperatorDies, hostVars
<1>7. QED
  BY <1>1, <1>3, <1>4, <1>5, <1>6 DEF Inv, hostVars

\* The process on a node comes or goes by itself.
LEMMA ProcessStep ==
  ASSUME Inv, NEW n \in Nodes, Launch(n) \/ ProcessDies(n)
  PROVE  Inv'
<1>1. /\ UNCHANGED <<file, staged, marker, wanted, validators, leading, report, job>>
      /\ \/ n \in wanted /\ image' = [image EXCEPT ![n] = file[n]]
         \/ image' = [image EXCEPT ![n] = None]
  BY DEF Launch, ProcessDies
<1>2. ASSUME NEW x \in Operators, job[x] # None
      PROVE  JobOK(job[x])'
  <2>1. PICK j \in Job : job[x] = j /\ job'[x] = j
    BY <1>1, <1>2 DEF Inv, TypeOK
  <2>2. JobOK(j) /\ j.node \in Nodes
    BY <1>2, <2>1 DEF Inv, Job
  <2>3. CASE j.node # n
    <3>1. SameHost(j.node)
      BY <1>1, <2>2, <2>3 DEF Inv, TypeOK, SameHost
    <3>2. QED
      BY <1>1, <2>1, <2>2, <3>1, Framed
  <2>4. CASE j.node = n
    <3>1. n \in wanted => image'[n] \in {None, file[n]}
      BY <1>1 DEF Inv, TypeOK
    <3>2. n \notin wanted => image'[n] = None
      BY <1>1 DEF Inv, TypeOK
    <3>3. JobOK(j)'
      BY <1>1, <2>2, <2>4, <3>1, <3>2 DEF JobOK, Staged, Installed, Down, Up
    <3>4. QED
      BY <2>1, <3>3
  <2>5. QED
    BY <2>3, <2>4
<1>3. ASSUME NEW m \in Nodes PROVE Reported(m)'
  BY <1>1 DEF Inv, TypeOK, Reported
<1>4. TypeOK'
  BY <1>1, NodeOpsAssumption DEF Inv, TypeOK, Launch, ProcessDies
<1>5. QED
  BY <1>1, <1>2, <1>3, <1>4 DEF Inv, Exclusive

LEMMA RequestStep ==
  ASSUME Inv, NEW o \in Operators, NEW kind \in Kinds, NEW n \in Nodes, NEW v \in Versions,
         NEW confirm \in BOOLEAN, Request(o, kind, n, v, confirm)
  PROVE  Inv'
<1> USE IdleAssumption
<1>1. PICK ssh_ok \in BOOLEAN, df_ok \in BOOLEAN, free \in BOOLEAN :
        /\ Outcome(ssh_ok /\ df_ok, TRUE)
        /\ IF Executes(Gate(confirm, Checks(kind, n, v, ssh_ok, DiskFreeOk(df_ok, free))))
           THEN /\ Begin(o, [kind |-> kind, node |-> n, version |-> v,
                              plan |-> PlanOf(kind, n), ok |-> TRUE, alone |-> TRUE])
                /\ report' = [report EXCEPT ![n] = None]
           ELSE UNCHANGED <<job, report>>
  BY DEF Request
<1>2. /\ UNCHANGED <<hostVars, validators, leading>> /\ job[o] = None
      /\ faults' \in 0..MaxFaults /\ kind \in {"restart", "upgrade"}
      /\ job \in [Operators -> Job \cup {None}] /\ report \in [Nodes -> Report \cup {None}]
  BY <1>1, NodeOpsAssumption DEF Request, Outcome, Inv, TypeOK
<1> DEFINE passed == Executes(Gate(confirm, Checks(kind, n, v, ssh_ok, DiskFreeOk(df_ok, free))))
<1>3. CASE ~passed
  <2>1. UNCHANGED <<job, report>>
    BY <1>1, <1>3
  <2>2. ASSUME NEW x \in Operators, job'[x] # None
        PROVE  JobOK(job[x])'
    <3>1. PICK j \in Job : job[x] = j /\ job'[x] = j
      BY <1>2, <2>1, <2>2
    <3>2. JobOK(j)
      BY <2>2, <3>1 DEF Inv
    <3>3. JobOK(j)'
      BY <1>2, <3>2, Framed DEF SameHost, hostVars
    <3>4. QED
      BY <3>1, <3>3
  <2>3. ASSUME NEW m \in Nodes PROVE Reported(m)'
    BY <1>2, <2>1, ReportFramed DEF Inv, SameHost, hostVars
  <2>4. TypeOK'
    BY <1>2, <2>1 DEF Inv, TypeOK, hostVars
  <2>5. QED
    BY <1>2, <2>1, <2>2, <2>3, <2>4 DEF Inv, Exclusive, hostVars
<1>4. CASE passed
  <2> DEFINE plan == PlanOf(kind, n)
             others == {x \in Operators : job[x] # None /\ job[x].node = n}
             new == [kind |-> kind, node |-> n, version |-> v,
                     plan |-> plan, ok |-> TRUE, alone |-> (others = {})]
  <2>1. /\ report' = [report EXCEPT ![n] = None]
        /\ job' = [x \in Operators |->
                     IF x = o THEN new
                     ELSE IF x \in others THEN [job[x] EXCEPT !.alone = FALSE] ELSE job[x]]
    BY <1>1, <1>4 DEF Begin
  <2>2. /\ InOrder(kind, n \in validators, plan)
        /\ Head(plan) = First(kind, n \in validators)
    BY <1>2, PlanInOrder, PlanBegins
  <2>3. kind = "upgrade" /\ GeyserRepo => n \in GeyserNodes
    BY <1>4 DEF Executes, Gate, Checks, UpgradeChecks
  <2> HIDE DEF plan
  <2>4. PICK k \in Job : k = new
    <3>1. plan \in Seq(Step) /\ (others = {}) \in BOOLEAN
      BY <2>2 DEF InOrder
    <3> HIDE DEF others
    <3>2. new \in Job
      BY <1>2, <3>1 DEF Job
    <3>3. QED
      BY <3>2
  <2>5. Now(k) = CASE kind = "upgrade" -> 1
                   [] kind = "restart" /\ n \in validators -> 11
                   [] OTHER -> 7
    BY <1>2, <2>2, <2>4 DEF Now, Rank, First, Do
  <2>6. /\ k.kind = kind /\ k.node = n /\ k.plan = plan /\ k.ok /\ k.version = v
        /\ k.alone <=> others = {}
    BY <2>4
  <2>7. JobOK(k)'
    BY <1>2, <2>2, <2>3, <2>5, <2>6
       DEF JobOK, Staged, Installed, Down, Up, VerifyRank, SwapRank, hostVars
  <2>8. /\ job'[o] = k
        /\ \A x \in others : job'[x] = [job[x] EXCEPT !.alone = FALSE] /\ job[x] \in Job
        /\ \A x \in Operators : x # o /\ x \notin others => job'[x] = job[x]
    BY <1>2, <2>1, <2>4
  <2> HIDE DEF new
  <2>9. \A x \in others : job'[x] \in Job /\ job'[x].node = n /\ ~job'[x].alone
    BY <2>8 DEF Job
  <2>10. \A m \in Nodes : SameHost(m)
    BY <1>2 DEF SameHost, hostVars
  <2>11. ASSUME NEW x \in Operators, job'[x] # None
         PROVE  JobOK(job[x])'
    <3>1. CASE x = o
      BY <2>7, <2>8, <3>1
    <3>2. CASE x \in others
      <4>1. PICK j \in Job : job[x] = j
        BY <2>8, <3>2
      <4> DEFINE i == [j EXCEPT !.alone = FALSE]
      <4>2. /\ i \in Job /\ ~i.alone /\ i.kind = j.kind /\ i.node = j.node /\ i.plan = j.plan
            /\ job'[x] = i /\ JobOK(j)
        BY <2>8, <3>2, <4>1 DEF Job, Inv
      <4> HIDE DEF i
      <4>3. JobOK(i)
        BY <4>2 DEF JobOK
      <4>4. JobOK(i)'
        BY <1>2, <4>2, <4>3, Framed
      <4>5. QED
        BY <4>2, <4>4
    <3>3. CASE x # o /\ x \notin others
      <4>1. PICK j \in Job : job[x] = j /\ job'[x] = j
        BY <1>2, <2>8, <2>11, <3>3
      <4>2. JobOK(j) /\ j.node \in Nodes
        BY <2>8, <2>11, <3>3, <4>1 DEF Inv, Job
      <4>3. JobOK(j)'
        BY <1>2, <2>10, <4>2, Framed
      <4>4. QED
        BY <4>1, <4>3
    <3>4. QED
      BY <3>1, <3>2, <3>3
  <2>12. Exclusive'
    <3>1. SUFFICES ASSUME NEW x \in Operators, NEW y \in Operators, x # y,
                          job'[x] # None, job'[y] # None, job'[x].node = job'[y].node
                   PROVE  ~job'[x].alone
      BY DEF Exclusive
    <3>2. CASE x = o
      BY <2>6, <2>8, <3>1, <3>2
    <3>3. CASE x \in others
      BY <2>9, <3>3
    <3>4. CASE x # o /\ x \notin others
      <4>1. job'[x] = job[x] /\ job[x].node # n /\ y # o
        BY <2>6, <2>8, <3>1, <3>4
      <4>2. y \notin others /\ job'[y] = job[y]
        BY <2>8, <2>9, <3>1, <4>1
      <4>3. QED
        BY <3>1, <4>1, <4>2 DEF Inv, Exclusive
    <3>5. QED
      BY <3>2, <3>3, <3>4
  <2>13. ASSUME NEW m \in Nodes PROVE Reported(m)'
    <3>1. CASE m = n
      BY <1>2, <2>1, <3>1 DEF Reported
    <3>2. CASE m # n
      <4>1. report'[m] = report[m]
        BY <1>2, <2>1, <3>2
      <4>2. \A x \in Operators : (job'[x] # None /\ job'[x].node = m) =>
                                    job[x] # None /\ job[x].node = m
        BY <2>6, <2>8, <2>9, <3>2
      <4>3. QED
        BY <2>10, <4>1, <4>2, ReportFramed DEF Inv
    <3>3. QED
      BY <3>1, <3>2
  <2>14. TypeOK'
    <3>1. job' \in [Operators -> Job \cup {None}]
      BY <1>2, <2>1, <2>4, <2>8, <2>9 DEF new
    <3>2. report' \in [Nodes -> Report \cup {None}]
      BY <1>2, <2>1
    <3>3. QED
      BY <1>2, <3>1, <3>2 DEF Inv, TypeOK, hostVars
  <2>15. QED
    BY <1>2, <2>11, <2>12, <2>13, <2>14 DEF Inv, hostVars
<1>5. QED
  BY <1>3, <1>4
-----------------------------------------------------------------------------
(* Every step. *)

\* A step of nobody: only leader slots come and go.
LEMMA IdleStep ==
  ASSUME Inv, UNCHANGED <<validators, hostVars, report, job, faults>>,
         leading' \in SUBSET validators
  PROVE  Inv'
<1>1. ASSUME NEW x \in Operators, job'[x] # None
      PROVE  JobOK(job[x])'
  <2>1. PICK j \in Job : job[x] = j /\ job'[x] = j
    BY <1>1 DEF Inv, TypeOK
  <2>2. JobOK(j)'
    BY <1>1, <2>1, Framed DEF Inv, SameHost, hostVars
  <2>3. QED
    BY <2>1, <2>2
<1>2. ASSUME NEW m \in Nodes PROVE Reported(m)'
  BY ReportFramed DEF Inv, SameHost, hostVars
<1>3. TypeOK'
  BY DEF Inv, TypeOK, hostVars
<1>4. QED
  BY <1>1, <1>2, <1>3 DEF Inv, Exclusive, hostVars

LEMMA InvInit == Init => Inv
<1> SUFFICES ASSUME Init PROVE Inv
  OBVIOUS
<1>1. TypeOK
  BY NodeOpsAssumption DEF Init, TypeOK, Content
<1>2. QED
  BY <1>1 DEF Init, Inv, Exclusive, Reported

LEMMA InvNext == Inv /\ [Next]_vars => Inv'
<1> SUFFICES ASSUME Inv, [Next]_vars PROVE Inv'
  OBVIOUS
<1>1. ASSUME NEW o \in Operators, NEW kind \in Kinds, NEW n \in Nodes, NEW v \in Versions,
             NEW confirm \in BOOLEAN, Request(o, kind, n, v, confirm)
      PROVE  Inv'
  BY <1>1, RequestStep
<1>2. ASSUME NEW o \in Operators, Work(o)
      PROVE  Inv'
  BY <1>2, BuildStep, PushStep, VerifyStep, CheckStep, StopStep, SwapStep, MarkStep, StartStep,
     SafeExitStep, CatchUpStep, ReportStep DEF Work
<1>3. ASSUME NEW o \in Operators, OperatorDies(o)
      PROVE  Inv'
  BY <1>3, LeaveStep
<1>4. ASSUME NEW n \in Nodes, Launch(n) \/ ProcessDies(n)
      PROVE  Inv'
  BY <1>4, ProcessStep
<1>5. CASE LeaderSlots
  BY <1>5, IdleStep DEF LeaderSlots
<1>6. CASE UNCHANGED vars
  BY <1>6, IdleStep DEF vars, Inv, TypeOK
<1>7. QED
  BY <1>1, <1>2, <1>3, <1>4, <1>5, <1>6 DEF Next

\* operations.py:103-426: what Inv says of every host, operation and report
\* holds from the beginning and after every command.
THEOREM Invariance == Spec => []Inv
BY InvInit, InvNext, PTL DEF Spec

\* Every variable keeps its type: no plan of operations.py runs out of
\* commands before its last one, whatever fails and whoever dies.
THEOREM TypesKept == Spec => []TypeOK
<1>1. Inv => TypeOK
  BY DEF Inv
<1>2. QED
  BY <1>1, Invariance, PTL

\* operations.py:421 `succeeded`: in a fleet whose geyser plugins are built
\* (install.geyser_repo) wherever they are installed (service.geyser_lib), a
\* reported success of an operation that had the node to itself means what
\* it says, for every number of operators, nodes, versions and failures.
THEOREM SuccessIsTheTarget ==
  ASSUME GeyserRepo \/ GeyserNodes = {}
  PROVE  Spec => []SuccessMeansTarget
<1>1. \A n : Files(n) \subseteq Arts
  BY DEF Files, Arts, Parts
<1>2. Inv => SuccessMeansTarget
  BY <1>1 DEF Inv, Reported, SuccessMeansTarget
<1>3. QED
  BY <1>2, Invariance, PTL

\* README "sha256-checked on the target against the builder before any
\* swap": no upgrade installs a file but its own, verified one.
THEOREM InstallsAreVerified == Spec => OnlyVerifiedInstalled
<1> DEFINE Verified ==
      \A n \in Nodes : \A f \in Files(n) : file'[n][f] # file[n][f] =>
         \E o \in Operators :
           /\ At(o, "swap") /\ job[o].node = n
           /\ job[o].alone => file'[n][f] = job[o].version
<1>1. ASSUME Inv, [Next]_vars PROVE Verified
  <2>1. ASSUME NEW o \in Operators, SwapOne(o) PROVE Verified
    <3>1. PICK j \in Job : /\ job[o] = j /\ JobOK(j) /\ j.node \in Nodes /\ Head(j.plan).do = "swap"
                           /\ Legal(j.kind, j.node \in validators, Head(j.plan)) /\ At(o, "swap")
      BY <1>1, <2>1, AtJob DEF SwapOne
    <3> DEFINE n == j.node
               part == Head(j.plan).part
    <3>2. \/ file' = file
          \/ file' = [file EXCEPT ![n][part] = staged[n][part]]
      BY <2>1, <3>1 DEF SwapOne
    <3>3. part \in Arts /\ j.kind = "upgrade" /\ Now(j) = SwapRank(part) /\ VerifyRank(part) < Now(j)
      BY <3>1 DEF Now, Rank, Legal, Step, Parts, SwapRank, VerifyRank, Job, Arts
    <3>4. j.alone => staged[n][part] = j.version
      BY <3>1, <3>3 DEF JobOK, Staged, SwapRank
    <3> HIDE DEF part
    <3>5. ASSUME NEW m \in Nodes, NEW f \in Files(m), file'[m][f] # file[m][f]
          PROVE  m = n /\ f = part /\ file'[m][f] = staged[n][part]
      BY <1>1, <3>1, <3>2, <3>5 DEF Inv, TypeOK
    <3>6. QED
      BY <3>1, <3>4, <3>5
  <2>2. ASSUME NEW o \in Operators, NEW kind \in Kinds, NEW n \in Nodes, NEW v \in Versions,
               NEW confirm \in BOOLEAN, Request(o, kind, n, v, confirm)
        PROVE  file' = file
    BY <2>2 DEF Request, hostVars
  <2>3. ASSUME NEW o \in Operators, Work(o), ~SwapOne(o) PROVE file' = file
    BY <2>3 DEF Work, Build, Push, Verify, Check, Stop, Mark, Start, SafeExit, CatchUp, Finish,
                hostVars
  <2>4. ASSUME NEW o \in Operators, OperatorDies(o) PROVE file' = file
    BY <2>4 DEF OperatorDies, hostVars
  <2>5. ASSUME NEW n \in Nodes, Launch(n) \/ ProcessDies(n) PROVE file' = file
    BY <2>5 DEF Launch, ProcessDies
  <2>6. CASE LeaderSlots \/ UNCHANGED vars
    BY <2>6 DEF LeaderSlots, vars, hostVars
  <2>7. QED
    BY <1>1, <2>1, <2>2, <2>3, <2>4, <2>5, <2>6 DEF Next
<1>2. QED
  BY <1>1, Invariance, PTL DEF Spec, OnlyVerifiedInstalled

\* validate.py:3 "is the fleet ready": of every state, reachable or not, a
\* "pass" says that the node is up, its disks were measured and a restart
\* would be let through on the same answers.
THEOREM PassMeansReady == Spec => []PassIsReady
<1>1. ASSUME NEW n \in Nodes, NEW a \in Answers(n), Worst(NodeChecks(n, a)) = "pass"
      PROVE  /\ Active(n) /\ a.df_ok
             /\ Executes(Gate(TRUE, RestartChecks(n, a.ssh_ok, DiskFreeOk(a.df_ok, a.free))))
  <2>1. "fail" \notin NodeChecks(n, a) /\ "warn" \notin NodeChecks(n, a)
    BY <1>1 DEF Worst
  <2>2. a.ssh_ok
    BY <2>1 DEF NodeChecks, Level
  <2>3. Active(n) /\ a.df_ok /\ DiskFreeOk(a.df_ok, a.free)
    BY <2>1, <2>2 DEF NodeChecks, Level
  <2>4. QED
    BY <2>2, <2>3 DEF Executes, Gate, RestartChecks
<1>2. PassIsReady
  BY <1>1 DEF PassIsReady
<1>3. QED
  BY <1>2, PTL
-----------------------------------------------------------------------------
(* NodeOps implements OwnedNodes. *)

Nobody(n) == \A o \in Operators : job[o] # None => job[o].node # n
Settles(n) == report[n] # None /\ report[n].succeeded /\ report[n].alone

\* Exclusive makes the owner of a node unique.
StatusFacts(n) ==
  /\ \A o \in Operators : (job[o] # None /\ job[o].node = n /\ job[o].alone) =>
       Status(n) = Owned!Owned(Target(job[o]))
  /\ (\E o \in Operators : job[o] # None /\ job[o].node = n)
       /\ (\A o \in Operators : (job[o] # None /\ job[o].node = n) => ~job[o].alone) =>
       Status(n) = Owned!Contended
  /\ Nobody(n) /\ Settles(n) => Status(n) = Owned!Settled(Target(report[n]))
  /\ Nobody(n) /\ ~Settles(n) => Status(n) = Owned!Free

StatusesOK == \A n \in Nodes : StatusFacts(n)

LEMMA StatusIs == Exclusive => StatusesOK
<1> SUFFICES ASSUME Exclusive, NEW n \in Nodes PROVE StatusFacts(n)
  BY DEF StatusesOK
<1> DEFINE owners == {o \in On(n) : job[o].alone}
<1>1. ASSUME NEW o \in Operators, job[o] # None, job[o].node = n, job[o].alone
      PROVE  Status(n) = Owned!Owned(Target(job[o]))
  <2>1. owners = {o}
    BY <1>1 DEF Exclusive, On
  <2>2. (CHOOSE x \in owners : TRUE) = o
    BY <2>1
  <2>3. QED
    BY <2>1, <2>2 DEF Status, Owned!Owned
<1>2. ASSUME NEW o \in Operators, job[o] # None, job[o].node = n,
             \A x \in Operators : (job[x] # None /\ job[x].node = n) => ~job[x].alone
      PROVE  Status(n) = Owned!Contended
  <2>1. owners = {} /\ On(n) # {}
    BY <1>2 DEF On
  <2>2. QED
    BY <2>1 DEF Status, Owned!Contended
<1>3. ASSUME Nobody(n)
      PROVE  /\ Settles(n) => Status(n) = Owned!Settled(Target(report[n]))
             /\ ~Settles(n) => Status(n) = Owned!Free
  <2>1. owners = {} /\ On(n) = {}
    BY <1>3 DEF On, Nobody
  <2>2. QED
    BY <2>1 DEF Status, Settles, Owned!Settled, Owned!Free
<1>4. QED
  BY <1>1, <1>2, <1>3 DEF StatusFacts

LEMMA StatusIsNext == Exclusive' => StatusesOK'
BY StatusIs, PTL

\* A node whose operations and report remain what they are.
LEMMA Unaffected ==
  ASSUME Exclusive, Exclusive', NEW n \in Nodes, report'[n] = report[n],
         \A o \in Operators : (job'[o] # None /\ job'[o].node = n) <=>
                                (job[o] # None /\ job[o].node = n),
         \A o \in Operators : (job[o] # None /\ job[o].node = n) =>
                                /\ job'[o].alone <=> job[o].alone
                                /\ job'[o].kind = job[o].kind /\ job'[o].version = job[o].version
  PROVE  Status(n)' = Status(n)
<1>1. StatusFacts(n)
  BY StatusIs DEF StatusesOK
<1>2. StatusFacts(n)'
  BY StatusIsNext DEF StatusesOK
<1>3. CASE \E o \in Operators : job[o] # None /\ job[o].node = n /\ job[o].alone
  <2>1. PICK o \in Operators : job[o] # None /\ job[o].node = n /\ job[o].alone
    BY <1>3
  <2>2. Status(n) = Owned!Owned(Target(job[o]))
    BY <1>1, <2>1 DEF StatusFacts
  <2>3. Status(n)' = Owned!Owned(Target(job'[o]))
    BY <1>2, <2>1 DEF StatusFacts, Target, Owned!Owned
  <2>4. QED
    BY <2>1, <2>2, <2>3 DEF Target
<1>4. CASE /\ \E o \in Operators : job[o] # None /\ job[o].node = n
           /\ \A o \in Operators : (job[o] # None /\ job[o].node = n) => ~job[o].alone
  BY <1>1, <1>2, <1>4 DEF StatusFacts, Owned!Contended
<1>5. CASE Nobody(n)
  <2>1. Nobody(n)' /\ (Settles(n)' <=> Settles(n))
    BY <1>5 DEF Nobody, Settles
  <2>2. QED
    BY <1>1, <1>2, <1>5, <2>1 DEF StatusFacts, Owned!Settled, Owned!Free, Target
<1>6. QED
  BY <1>3, <1>4, <1>5 DEF Nobody

\* A node with an operation on it.
LEMMA OnNode ==
  ASSUME Exclusive, NEW o \in Operators, job[o] # None, job[o].node \in Nodes
  PROVE  Status(job[o].node) =
           IF job[o].alone THEN Owned!Owned(Target(job[o])) ELSE Owned!Contended
<1> DEFINE n == job[o].node
<1>1. StatusFacts(n)
  BY StatusIs DEF StatusesOK
<1>2. CASE job[o].alone
  BY <1>1, <1>2 DEF StatusFacts
<1>3. CASE ~job[o].alone
  <2>1. \A x \in Operators : (job[x] # None /\ job[x].node = n) => ~job[x].alone
    BY <1>3 DEF Exclusive
  <2>2. QED
    BY <1>1, <1>3, <2>1 DEF StatusFacts
<1>4. QED
  BY <1>2, <1>3

LEMMA BecomeIs ==
  ASSUME NEW n \in Nodes, NEW s, Status(n)' = s, \A m \in Nodes \ {n} : Status(m)' = Status(m),
         UNCHANGED <<file, image, wanted>>
  PROVE  Owned!Become(n, s)
<1>1. [m \in Nodes |-> Status(m)]' = [[m \in Nodes |-> Status(m)] EXCEPT ![n] = s]
  OBVIOUS
<1>2. QED
  BY <1>1 DEF Owned!Become

\* Operator o goes on with its operation.
LEMMA StatusMoves ==
  ASSUME Inv, Inv', NEW o \in Operators, job[o] # None, NEW k \in Job,
         job' = [job EXCEPT ![o] = k], report' = report,
         k.kind = job[o].kind, k.node = job[o].node, k.version = job[o].version,
         k.alone <=> job[o].alone
  PROVE  \A m \in Nodes : Status(m)' = Status(m)
<1> USE IdleAssumption
<1>1. job \in [Operators -> Job \cup {None}] /\ k # None
  BY DEF Inv, TypeOK
<1>2. job'[o] = k /\ \A x \in Operators \ {o} : job'[x] = job[x]
  BY <1>1
<1>3. Exclusive /\ Exclusive'
  BY DEF Inv
<1> SUFFICES ASSUME NEW m \in Nodes PROVE Status(m)' = Status(m)
  OBVIOUS
<1>4. \A x \in Operators : (job'[x] # None /\ job'[x].node = m) <=> (job[x] # None /\ job[x].node = m)
  BY <1>1, <1>2
<1>5. \A x \in Operators : (job[x] # None /\ job[x].node = m) =>
                             /\ job'[x].alone <=> job[x].alone
                             /\ job'[x].kind = job[x].kind /\ job'[x].version = job[x].version
  BY <1>1, <1>2
<1>6. QED
  BY <1>3, <1>4, <1>5, Unaffected

\* Operator o ends its operation, or dies.
LEMMA LeaveMaps ==
  ASSUME GeyserRepo \/ GeyserNodes = {}, Inv, Inv', NEW o \in Operators, job[o] # None,
         UNCHANGED hostVars, job' = [job EXCEPT ![o] = None],
         \/ report' = report
         \/ \E s \in BOOLEAN : report' = [report EXCEPT ![job[o].node] = Result(job[o], s)]
  PROVE  Owned!Next \/ UNCHANGED Owned!vars
<1> USE IdleAssumption
<1>1. PICK j \in Job : job[o] = j
  BY DEF Inv, TypeOK
<1> DEFINE n == j.node
<1>2. /\ n \in Nodes /\ job \in [Operators -> Job \cup {None}]
      /\ report \in [Nodes -> Report \cup {None}]
      /\ DOMAIN file = Nodes /\ file[n] \in [Files(n) -> Content]
  BY DEF Inv, TypeOK, Job
<1>3. job'[o] = None /\ \A x \in Operators \ {o} : job'[x] = job[x]
  BY <1>2
<1>4. Exclusive /\ Exclusive' /\ Reported(n) /\ Reported(n)'
  BY <1>2 DEF Inv
<1>5. StatusFacts(n)'
  BY <1>2, <1>4, StatusIsNext DEF StatusesOK
<1>6. Status(n) = IF j.alone THEN Owned!Owned(Target(j)) ELSE Owned!Contended
  BY <1>1, <1>2, <1>4, OnNode
<1>7. ASSUME NEW m \in Nodes \ {n} PROVE Status(m)' = Status(m)
  <2>1. report'[m] = report[m]
    BY <1>1, <1>2
  <2>2. \A x \in Operators : (job'[x] # None /\ job'[x].node = m)
                               <=> (job[x] # None /\ job[x].node = m)
    BY <1>1, <1>3
  <2>3. \A x \in Operators : (job[x] # None /\ job[x].node = m) => job'[x] = job[x]
    BY <1>1, <1>3
  <2>4. QED
    BY <1>4, <2>1, <2>2, <2>3, Unaffected
<1>8. UNCHANGED <<file, image, wanted>>
  BY DEF hostVars
\* A report of n that counts is that of j.
<1>9. ASSUME Settles(n)'
      PROVE  j.alone /\ report'[n] = Result(j, TRUE)
  <2>1. report'[n].alone /\ report'[n].succeeded /\ report'[n] # None
    BY <1>9 DEF Settles
  <2>2. report' # report
    BY <1>1, <1>4, <2>1 DEF Reported
  <2>3. PICK s \in BOOLEAN : report' = [report EXCEPT ![n] = Result(j, s)]
    BY <1>1, <2>2
  <2>4. report'[n] = Result(j, s)
    BY <1>2, <2>3
  <2>5. s /\ j.alone
    BY <2>1, <2>4 DEF Result
  <2>6. QED
    BY <2>4, <2>5
<1>10. ASSUME Status(n)' = Owned!Free
       PROVE  Owned!Release(n)
  <2>1. Owned!InHand(n)
    BY <1>2, <1>6 DEF Owned!InHand, Owned!Owned, Owned!Contended
  <2>2. Owned!Become(n, Owned!Free)
    BY <1>2, <1>7, <1>8, <1>10, BecomeIs
  <2>3. QED
    BY <2>1, <2>2 DEF Owned!Release
<1>11. CASE Nobody(n)' /\ ~Settles(n)'
  BY <1>2, <1>5, <1>10, <1>11 DEF StatusFacts, Owned!Next
<1>12. CASE Nobody(n)' /\ Settles(n)'
  <2>1. j.alone /\ report'[n] = Result(j, TRUE)
    BY <1>9, <1>12
  <2>2. Status(n)' = Owned!Settled(Target(j))
    <3>1. Status(n)' = Owned!Settled(Target(report'[n]))
      BY <1>5, <1>12 DEF StatusFacts, Owned!Settled, Target
    <3>2. Target(report'[n]) = Target(j)
      BY <2>1 DEF Result, Target
    <3>3. QED
      BY <3>1, <3>2
  <2>3. [m \in Nodes |-> Status(m)][n] = Owned!Owned(Target(j))
    BY <1>2, <1>6, <2>1
  <2>4. Owned!AsSettled(n, Target(j))
    <3>1. /\ n \in wanted /\ image[n] \in {None, file[n]}
          /\ j.kind = "upgrade" => \A f \in Files(n) \cap Arts : file[n][f] = j.version
      <4>1. /\ report'[n] # None /\ report'[n].alone /\ report'[n].succeeded
            /\ report'[n].kind = j.kind /\ report'[n].version = j.version
        BY <1>12, <2>1 DEF Settles, Result
      <4>2. QED
        BY <1>4, <1>8, <4>1 DEF Reported
    <3>2. Files(n) \subseteq Arts /\ DOMAIN file[n] = Files(n)
      BY <1>2 DEF Files, Arts, Parts
    <3>3. QED
      BY <3>1, <3>2 DEF Target, Owned!AsSettled
  <2>5. Owned!Become(n, Owned!Settled(Target(j)))
    BY <1>2, <1>7, <1>8, <2>2, BecomeIs
  <2>6. Owned!Settle(n)
    BY <2>3, <2>4, <2>5 DEF Owned!Settle, Owned!Owned
  <2>7. QED
    BY <1>2, <2>6 DEF Owned!Next
<1>13. CASE ~Nobody(n)'
  <2>1. PICK x \in Operators : job'[x] # None /\ job'[x].node = n
    BY <1>13 DEF Nobody
  <2>2. x # o /\ job[x] = job'[x] /\ ~j.alone
    BY <1>1, <1>3, <1>4, <2>1 DEF Exclusive
  <2>3. \A y \in Operators : (job'[y] # None /\ job'[y].node = n) => ~job'[y].alone
    BY <1>1, <1>3, <1>4 DEF Exclusive
  <2>4. Status(n)' = Owned!Contended
    BY <1>5, <2>1, <2>3 DEF StatusFacts, Owned!Contended
  <2>5. Status(n)' = Status(n)
    BY <1>6, <2>2, <2>4
  <2>6. [m \in Nodes |-> Status(m)]' = [m \in Nodes |-> Status(m)]
    BY <1>7, <2>5
  <2>7. QED
    BY <1>8, <2>6 DEF Owned!vars
<1>14. QED
  BY <1>11, <1>12, <1>13

\* Operator o begins an operation.
LEMMA RequestMaps ==
  ASSUME Inv, Inv', NEW o \in Operators, NEW kind \in Kinds, NEW n \in Nodes, NEW v \in Versions,
         NEW confirm \in BOOLEAN, Request(o, kind, n, v, confirm)
  PROVE  Owned!Next \/ UNCHANGED Owned!vars
<1> USE IdleAssumption
<1>1. PICK ssh_ok \in BOOLEAN, df_ok \in BOOLEAN, free \in BOOLEAN :
        IF Executes(Gate(confirm, Checks(kind, n, v, ssh_ok, DiskFreeOk(df_ok, free))))
        THEN /\ Begin(o, [kind |-> kind, node |-> n, version |-> v,
                           plan |-> PlanOf(kind, n), ok |-> TRUE, alone |-> TRUE])
             /\ report' = [report EXCEPT ![n] = None]
        ELSE UNCHANGED <<job, report>>
  BY DEF Request
<1>2. /\ UNCHANGED <<file, image, wanted>> /\ job[o] = None
      /\ job \in [Operators -> Job \cup {None}] /\ report \in [Nodes -> Report \cup {None}]
      /\ job' \in [Operators -> Job \cup {None}]
      /\ Exclusive /\ Exclusive'
  BY DEF Request, Inv, TypeOK, hostVars
<1> DEFINE passed == Executes(Gate(confirm, Checks(kind, n, v, ssh_ok, DiskFreeOk(df_ok, free))))
<1>3. CASE ~passed
  <2>1. job' = job /\ report' = report
    BY <1>1, <1>3
  <2>2. \A m \in Nodes : Status(m)' = Status(m)
    BY <1>2, <2>1, Unaffected
  <2>3. QED
    BY <1>2, <2>2 DEF Owned!vars
<1>4. CASE passed
  <2> DEFINE others == {x \in Operators : job[x] # None /\ job[x].node = n}
             new == [kind |-> kind, node |-> n, version |-> v,
                     plan |-> PlanOf(kind, n), ok |-> TRUE, alone |-> (others = {})]
  <2>1. /\ report' = [report EXCEPT ![n] = None]
        /\ job' = [x \in Operators |->
                     IF x = o THEN new
                     ELSE IF x \in others THEN [job[x] EXCEPT !.alone = FALSE] ELSE job[x]]
    BY <1>1, <1>4 DEF Begin
  <2>2. /\ job'[o] = new
        /\ \A x \in others : job'[x] = [job[x] EXCEPT !.alone = FALSE] /\ job[x] \in Job
        /\ \A x \in Operators : x # o /\ x \notin others => job'[x] = job[x]
    BY <1>2, <2>1
  <2>3. /\ job'[o] # None /\ job'[o] \in Job
        /\ job'[o].node = n /\ (job'[o].alone <=> others = {})
        /\ job'[o].kind = kind /\ job'[o].version = v
    <3> HIDE DEF others
    <3>1. /\ new.node = n /\ (new.alone <=> others = {}) /\ new.kind = kind /\ new.version = v
          /\ new # None
      <4>1. PlanOf(kind, n) \in Seq(Step)
        BY PlanInOrder, NodeOpsAssumption DEF InOrder
      <4>2. kind \in {"restart", "upgrade"} /\ (others = {}) \in BOOLEAN
        BY NodeOpsAssumption
      <4>3. new \in Job
        BY <4>1, <4>2 DEF Job
      <4>4. QED
        BY <4>3
    <3> HIDE DEF new
    <3>2. QED
      BY <1>2, <2>2, <3>1
  <2> HIDE DEF new
  <2>4. ASSUME NEW m \in Nodes \ {n} PROVE Status(m)' = Status(m)
    <3>1. report'[m] = report[m]
      BY <1>2, <2>1
    <3>2. \A x \in Operators : job[x] # None /\ job[x].node = m => job'[x] = job[x]
      BY <1>2, <2>2
    <3>3. \A x \in others : job'[x].node = n
      BY <2>2 DEF Job
    <3>4. \A x \in Operators : (job'[x] # None /\ job'[x].node = m)
                                 <=> (job[x] # None /\ job[x].node = m)
      BY <1>2, <2>2, <2>3, <3>2, <3>3
    <3>5. QED
      BY <1>2, <3>1, <3>2, <3>4, Unaffected
  <2>5. Status(n)' = IF others = {} THEN Owned!Owned(Target(job'[o])) ELSE Owned!Contended
    <3>1. StatusFacts(n)'
      BY <1>2, StatusIsNext DEF StatusesOK
    <3>2. CASE others = {}
      BY <2>3, <3>1, <3>2 DEF StatusFacts, Target, Owned!Owned
    <3>3. CASE others # {}
      <4>1. \A x \in Operators : (job'[x] # None /\ job'[x].node = n) => ~job'[x].alone
        BY <1>2, <2>3, <3>3 DEF Exclusive
      <4>2. QED
        BY <2>3, <3>1, <3>3, <4>1 DEF StatusFacts, Owned!Contended
    <3>4. QED
      BY <3>2, <3>3
  <2>6. CASE others = {}
    <3>1. Nobody(n)
      BY <2>6 DEF Nobody
    <3>2. Status(n).is \in {"free", "settled"}
      BY <1>2, <3>1, StatusIs DEF StatusesOK, StatusFacts, Owned!Free, Owned!Settled
    <3>3. ~Owned!InHand(n)
      BY <3>2 DEF Owned!InHand
    <3>4. Target(job'[o]) \in Versions \cup {None}
      BY <2>3 DEF Target
    <3>5. Owned!Become(n, Owned!Owned(Target(job'[o])))
      BY <1>2, <2>4, <2>5, <2>6, BecomeIs
    <3>6. Owned!Take(n)
      BY <3>3, <3>4, <3>5 DEF Owned!Take
    <3>7. QED
      BY <3>6 DEF Owned!Next
  <2>7. CASE others # {}
    <3>1. PICK x \in Operators : job[x] # None /\ job[x].node = n
      BY <2>7
    <3>2. Status(n) = IF job[x].alone THEN Owned!Owned(Target(job[x])) ELSE Owned!Contended
      BY <1>2, <3>1, OnNode
    <3>3. Status(n)' = Owned!Contended
      BY <2>5, <2>7
    <3>4. CASE job[x].alone
      <4>1. [m \in Nodes |-> Status(m)][n].is = "owned"
        BY <3>2, <3>4 DEF Owned!Owned
      <4>2. Owned!Become(n, Owned!Contended)
        BY <1>2, <2>4, <3>3, BecomeIs
      <4>3. QED
        BY <4>1, <4>2 DEF Owned!Clash, Owned!Next
    <3>5. CASE ~job[x].alone
      <4>1. [m \in Nodes |-> Status(m)]' = [m \in Nodes |-> Status(m)]
        BY <2>4, <3>2, <3>3, <3>5
      <4>2. QED
        BY <1>2, <4>1 DEF Owned!vars
    <3>6. QED
      BY <3>4, <3>5
  <2>8. QED
    BY <2>6, <2>7
<1>5. QED
  BY <1>3, <1>4

\* Operator o goes on to its next command, whatever happened to its node.
LEMMA ProceedMaps ==
  ASSUME Inv, Inv', NEW o \in Operators, NEW c, At(o, c), c # "finish",
         NEW ok \in BOOLEAN, Proceed(o, ok), report' = report
  PROVE  /\ \A m \in Nodes : Status(m)' = Status(m)
         /\ job[o].node \in Nodes
         /\ [m \in Nodes |-> Status(m)][job[o].node] =
              IF job[o].alone THEN Owned!Owned(Target(job[o])) ELSE Owned!Contended
         /\ Owned!InHand(job[o].node)
<1>1. job[o] # None /\ job[o].node \in Nodes /\ Exclusive
  BY AtJob DEF Inv
<1>2. PICK k \in Job : Goes(o, job[o], k, ok)
  BY Proceeds
<1>3. \A m \in Nodes : Status(m)' = Status(m)
  BY <1>1, <1>2, StatusMoves DEF Goes, Moves
<1>4. Status(job[o].node) =
        IF job[o].alone THEN Owned!Owned(Target(job[o])) ELSE Owned!Contended
  BY <1>1, OnNode
<1>5. Owned!InHand(job[o].node)
  BY <1>1, <1>4 DEF Owned!InHand, Owned!Owned, Owned!Contended
<1>6. QED
  BY <1>1, <1>3, <1>4, <1>5

\* A command that leaves the files, the process and the unit alone.
LEMMA QuietMaps ==
  ASSUME Inv, Inv', NEW o \in Operators, NEW c, At(o, c), c # "finish",
         NEW ok \in BOOLEAN, Proceed(o, ok), UNCHANGED <<report, file, image, wanted>>
  PROVE  UNCHANGED Owned!vars
<1>1. \A m \in Nodes : Status(m)' = Status(m)
  BY ProceedMaps
<1>2. QED
  BY <1>1 DEF Owned!vars

LEMMA SwapMaps ==
  ASSUME Inv, Inv', NEW o \in Operators, SwapOne(o)
  PROVE  Owned!Next \/ UNCHANGED Owned!vars
<1>1. PICK j \in Job : /\ job[o] = j /\ JobOK(j) /\ j.node \in Nodes /\ Head(j.plan).do = "swap"
                       /\ Legal(j.kind, j.node \in validators, Head(j.plan))
                       /\ j # None /\ At(o, "swap")
  BY AtJob DEF SwapOne
<1> DEFINE n == j.node
           part == Head(j.plan).part
<1>2. PICK ok \in BOOLEAN, done \in BOOLEAN :
        /\ Effect(ok, staged[n][part] # None, done)
        /\ file' = IF done THEN [file EXCEPT ![n][part] = staged[n][part]] ELSE file
        /\ job' = [job EXCEPT ![o].plan = IF ok THEN Tail(@) ELSE SkipSwaps(@),
                              ![o].ok = @ /\ ok]
        /\ UNCHANGED <<marker, wanted, image, validators, leading, report>>
  BY <1>1 DEF SwapOne
<1>3. \A m \in Nodes : Status(m)' = Status(m)
  <2> DEFINE k == [j EXCEPT !.plan = IF ok THEN Tail(j.plan) ELSE SkipSwaps(j.plan),
                            !.ok = j.ok /\ ok]
  <2>1. job' = [job EXCEPT ![o] = k]
    BY <1>1, <1>2
  <2>2. k.kind = j.kind /\ k.node = j.node /\ k.version = j.version /\ k.alone = j.alone
    BY DEF Job
  <2>3. k \in Job
    <3>1. (IF ok THEN Tail(j.plan) ELSE SkipSwaps(j.plan)) \in Seq(Step)
      <4>1. InOrder(j.kind, n \in validators, j.plan)
        BY <1>1 DEF JobOK
      <4>2. CASE ok
        BY <1>1, <4>1, <4>2, TailInOrder DEF InOrder
      <4>3. CASE ~ok
        BY <1>1, <4>1, <4>3, SkipInOrder DEF InOrder
      <4>4. QED
        BY <4>2, <4>3
    <3>2. QED
      BY <3>1 DEF Job
  <2> HIDE DEF k
  <2>4. report' = report /\ job[o] # None /\ (k.alone <=> job[o].alone)
    BY <1>1, <1>2, <2>2
  <2>5. k.kind = job[o].kind /\ k.node = job[o].node /\ k.version = job[o].version
    BY <1>1, <2>2
  <2>6. QED
    BY <2>1, <2>3, <2>4, <2>5, StatusMoves
<1>4. Status(n) = IF j.alone THEN Owned!Owned(Target(j)) ELSE Owned!Contended
  BY <1>1, OnNode DEF Inv
<1>5. /\ j.kind = "upgrade" /\ part \in Files(n) /\ DOMAIN file[n] = Files(n)
      /\ staged[n][part] \in Content \cup {None} /\ j.version \in Versions /\ j.version # None
  <2>1. j.kind = "upgrade" /\ part \in Arts
    BY <1>1 DEF Legal, Step, Parts, Job, Arts
  <2>2. Arts \subseteq Files(n)
    BY <1>1, <2>1 DEF JobOK, Arts, Parts, Files
  <2>3. j.version \in Versions /\ None \notin Versions
    BY NodeOpsAssumption DEF Job, Content
  <2>4. file[n] \in [Files(n) -> Content] /\ staged[n] \in [Files(n) -> Content \cup {None}]
    BY <1>1 DEF Inv, TypeOK
  <2>5. QED
    BY <2>1, <2>2, <2>3, <2>4
<1>6. UNCHANGED <<image, wanted>> /\ [m \in Nodes |-> Status(m)]' = [m \in Nodes |-> Status(m)]
  BY <1>2, <1>3
<1>7. CASE ~done
  BY <1>2, <1>6, <1>7 DEF Owned!vars
<1>8. CASE done
  <2>1. staged[n][part] # None /\ file' = [file EXCEPT ![n][part] = staged[n][part]]
    BY <1>2, <1>8 DEF Effect
  <2>2. Owned!Put(n, part, staged[n][part])
    BY <1>6, <2>1 DEF Owned!Put
  <2>3. CASE j.alone
    <3>1. staged[n][part] = j.version
      <4>1. part \in Arts /\ Now(j) = SwapRank(part) /\ VerifyRank(part) < Now(j)
        BY <1>1, <1>5 DEF Now, Rank, Legal, Step, Parts, SwapRank, VerifyRank, Arts
      <4>2. QED
        BY <1>1, <1>5, <2>3, <4>1 DEF JobOK, Staged, SwapRank
    <3>2. /\ [m \in Nodes |-> Status(m)][n] = Owned!Owned(j.version)
          /\ Owned!Owned(j.version).is = "owned" /\ Owned!Owned(j.version).target = j.version
      BY <1>1, <1>4, <1>5, <2>3 DEF Target, Owned!Owned
    <3>3. Owned!Install(n)
      BY <1>5, <2>2, <3>1, <3>2 DEF Owned!Install
    <3>4. QED
      BY <1>1, <3>3 DEF Owned!Next
  <2>4. CASE ~j.alone
    <3>1. [m \in Nodes |-> Status(m)][n].is = "contended"
      BY <1>1, <1>4, <2>4 DEF Owned!Contended
    <3>2. Owned!Spoil(n)
      BY <1>5, <2>1, <2>2, <3>1 DEF Owned!Spoil
    <3>3. QED
      BY <1>1, <3>2 DEF Owned!Next
  <2>5. QED
    BY <2>3, <2>4
<1>9. QED
  BY <1>7, <1>8

\* systemctl stop and start, agave-validator exit.
LEMMA CycleMaps ==
  ASSUME Inv, Inv', NEW o \in Operators, Stop(o) \/ Start(o) \/ SafeExit(o)
  PROVE  Owned!Next \/ UNCHANGED Owned!vars
<1>1. PICK c \in {"stop", "start", "exit"} : At(o, c)
  BY DEF Stop, Start, SafeExit
<1> DEFINE n == job[o].node
<1>2. PICK ok \in BOOLEAN :
        /\ Proceed(o, ok) /\ report' = report /\ file' = file
        /\ \/ wanted' = wanted /\ image' = image
           \/ wanted' = wanted \ {n} /\ image' = [image EXCEPT ![n] = None]
           \/ wanted' = wanted \cup {n} /\ image' = image
           \/ wanted' = wanted /\ image[n] # None /\ image' = [image EXCEPT ![n] = None]
  BY DEF Stop, Start, SafeExit, Effect
<1>3. /\ n \in Nodes /\ Owned!InHand(n)
      /\ \A m \in Nodes : Status(m)' = Status(m)
  BY <1>1, <1>2, ProceedMaps
<1>4. [m \in Nodes |-> Status(m)]' = [m \in Nodes |-> Status(m)]
  BY <1>3
<1> HIDE DEF n
<1>5. CASE wanted' = wanted /\ image' = image
  BY <1>2, <1>4, <1>5 DEF Owned!vars
<1>6. CASE wanted' = wanted \ {n} /\ image' = [image EXCEPT ![n] = None]
  BY <1>2, <1>3, <1>4, <1>6 DEF Owned!Stop, Owned!Next
<1>7. CASE wanted' = wanted \cup {n} /\ image' = image
  BY <1>2, <1>3, <1>4, <1>7 DEF Owned!Start, Owned!Next
<1>8. CASE wanted' = wanted /\ image[n] # None /\ image' = [image EXCEPT ![n] = None]
  BY <1>2, <1>3, <1>4, <1>8 DEF Owned!Dies, Owned!Next
<1>9. QED
  BY <1>2, <1>5, <1>6, <1>7, <1>8

LEMMA WorkMaps ==
  ASSUME GeyserRepo \/ GeyserNodes = {}, Inv, Inv', NEW o \in Operators, Work(o)
  PROVE  Owned!Next \/ UNCHANGED Owned!vars
<1>1. ASSUME UNCHANGED hostVars, NEW s \in BOOLEAN, Finished(o, s), job[o] # None
      PROVE  Owned!Next \/ UNCHANGED Owned!vars
  BY <1>1, LeaveMaps DEF Finished
<1>2. CASE Build(o)
  <2>1. At(o, "build") /\ UNCHANGED hostVars /\ job[o] # None
    BY <1>2 DEF Build, At
  <2>2. CASE Finished(o, FALSE)
    BY <1>1, <2>1, <2>2
  <2>3. CASE Proceed(o, TRUE) /\ UNCHANGED report
    BY <2>1, <2>3, QuietMaps DEF hostVars
  <2>4. QED
    BY <1>2, <2>2, <2>3 DEF Build
<1>3. CASE Push(o)
  <2>1. PICK ok \in BOOLEAN : Proceed(o, ok) /\ At(o, "push")
    BY <1>3 DEF Push
  <2>2. UNCHANGED <<report, file, image, wanted>>
    BY <1>3 DEF Push
  <2>3. QED
    BY <2>1, <2>2, QuietMaps
<1>4. CASE Verify(o)
  <2>1. PICK ok \in BOOLEAN : Proceed(o, ok) /\ At(o, "verify")
    BY <1>4 DEF Verify
  <2>2. UNCHANGED <<report, file, image, wanted>>
    BY <1>4 DEF Verify, hostVars
  <2>3. QED
    BY <2>1, <2>2, QuietMaps
<1>5. CASE Check(o)
  <2>1. At(o, "check") /\ UNCHANGED hostVars /\ job[o] # None
    BY <1>5 DEF Check, At
  <2>2. CASE Finished(o, FALSE)
    BY <1>1, <2>1, <2>2
  <2>3. CASE Proceed(o, TRUE) /\ UNCHANGED report
    BY <2>1, <2>3, QuietMaps DEF hostVars
  <2>4. QED
    BY <1>5, <2>2, <2>3 DEF Check
<1>6. CASE SwapOne(o)
  BY <1>6, SwapMaps
<1>7. CASE Mark(o)
  <2>1. Proceed(o, TRUE) /\ At(o, "mark") /\ UNCHANGED <<report, file, image, wanted>>
    BY <1>7 DEF Mark
  <2>2. QED
    BY <2>1, QuietMaps
<1>8. CASE Stop(o) \/ Start(o) \/ SafeExit(o)
  BY <1>8, CycleMaps
<1>9. CASE CatchUp(o)
  <2>1. PICK ok \in BOOLEAN : Proceed(o, ok) /\ At(o, "catchup")
    BY <1>9 DEF CatchUp
  <2>2. UNCHANGED <<report, file, image, wanted>>
    BY <1>9 DEF CatchUp, hostVars
  <2>3. QED
    BY <2>1, <2>2, QuietMaps
<1>10. CASE Finish(o)
  <2>1. PICK seen \in BOOLEAN :
          Finished(o, Succeeded(job[o],
            seen /\ VersionMatches(file[job[o].node]["binary"], job[o].version)))
    BY <1>10 DEF Finish
  <2>2. UNCHANGED hostVars /\ job[o] # None /\ job[o].ok \in BOOLEAN
    BY <1>10, AtJob DEF Finish, At, Job
  <2> DEFINE s == Succeeded(job[o],
            seen /\ VersionMatches(file[job[o].node]["binary"], job[o].version))
  <2>3. s \in BOOLEAN
    BY <2>2 DEF Succeeded
  <2> HIDE DEF s
  <2>4. Finished(o, s)
    BY <2>1 DEF s
  <2>5. QED
    BY <1>1, <2>2, <2>3, <2>4
<1>11. QED
  BY <1>2, <1>3, <1>4, <1>5, <1>6, <1>7, <1>8, <1>9, <1>10 DEF Work

\* A step of nobody's operation.
LEMMA SurroundingsMap ==
  ASSUME Inv, Inv', UNCHANGED <<job, report, file, wanted>>
  PROVE  /\ \A n \in Nodes : Launch(n) \/ ProcessDies(n) => Owned!Next
         /\ image' = image => UNCHANGED Owned!vars
<1>1. \A m \in Nodes : Status(m)' = Status(m)
  BY Unaffected DEF Inv
<1>2. [m \in Nodes |-> Status(m)]' = [m \in Nodes |-> Status(m)]
  BY <1>1
<1>3. ASSUME NEW n \in Nodes, Launch(n) PROVE Owned!Next
  <2>1. Owned!Launch(n)
    BY <1>2, <1>3 DEF Launch, Owned!Launch
  <2>2. QED
    BY <2>1 DEF Owned!Next
<1>4. ASSUME NEW n \in Nodes, ProcessDies(n) PROVE Owned!Next
  <2>1. Owned!Dies(n)
    BY <1>2, <1>4 DEF ProcessDies, Owned!Dies
  <2>2. QED
    BY <2>1 DEF Owned!Next
<1>5. QED
  BY <1>2, <1>3, <1>4 DEF Owned!vars

\* operations.py:103-426, in a fleet that builds the plugins it installs:
\* every command of every operation, whatever fails, whoever dies and
\* however many operators there are, is a step that OwnedNodes allows, or
\* changes nothing that it speaks of.
THEOREM NodesAreOwned ==
  ASSUME GeyserRepo \/ GeyserNodes = {}
  PROVE  Spec => ImplementsOwnedNodes
<1>1. Init => Owned!Init
  <2> SUFFICES ASSUME Init PROVE Owned!Init
    OBVIOUS
  <2>1. Inv /\ \A n \in Nodes : Nobody(n) /\ ~Settles(n)
    BY InvInit DEF Init, Nobody, Settles
  <2>2. \A n \in Nodes : Status(n) = Owned!Free
    BY <2>1, StatusIs DEF Inv, StatusesOK, StatusFacts
  <2>3. QED
    BY <2>2 DEF Init, Owned!Init
<1>2. ASSUME Inv, Inv', [Next]_vars PROVE Owned!Next \/ UNCHANGED Owned!vars
  <2>1. ASSUME NEW o \in Operators, NEW kind \in Kinds, NEW n \in Nodes, NEW v \in Versions,
               NEW confirm \in BOOLEAN, Request(o, kind, n, v, confirm)
        PROVE  Owned!Next \/ UNCHANGED Owned!vars
    BY <1>2, <2>1, RequestMaps
  <2>2. ASSUME NEW o \in Operators, Work(o)
        PROVE  Owned!Next \/ UNCHANGED Owned!vars
    BY <1>2, <2>2, WorkMaps
  <2>3. ASSUME NEW o \in Operators, OperatorDies(o)
        PROVE  Owned!Next \/ UNCHANGED Owned!vars
    BY <1>2, <2>3, LeaveMaps DEF OperatorDies
  <2>4. ASSUME NEW n \in Nodes, Launch(n) \/ ProcessDies(n)
        PROVE  Owned!Next
    BY <1>2, <2>4, SurroundingsMap DEF Launch, ProcessDies
  <2>5. CASE LeaderSlots \/ UNCHANGED vars
    BY <1>2, <2>5, SurroundingsMap DEF LeaderSlots, vars, hostVars
  <2>6. QED
    BY <1>2, <2>1, <2>2, <2>3, <2>4, <2>5 DEF Next
<1>3. Inv /\ Inv' /\ [Next]_vars => [Owned!Next]_(Owned!vars)
  BY <1>2
<1>4. QED
  BY <1>1, <1>3, Invariance, PTL DEF Spec, ImplementsOwnedNodes, Owned!Spec
=============================================================================
