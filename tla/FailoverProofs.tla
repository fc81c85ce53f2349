--------------------------- MODULE FailoverProofs ---------------------------
(***************************************************************************)
(* Proofs about Failover, for every fleet, every set of processes and      *)
(* every configuration of the pools.                                       *)
(***************************************************************************)
EXTENDS Failover, TLAPS

(* The probe. *)

\* What the reference says of a node is a NodeStatus (probe.py:94-102).
LEMMA ReferenceSideType ==
  ASSUME NEW n, NEW c \in Condition, NEW r
  PROVE  ReferenceSide(n, c, r) \in NodeStatus
BY DEF ReferenceSide, NodeStatus, NoStatus, Condition

\* probe_node turns a NodeStatus into a NodeStatus (probe.py:104-130).
LEMMA ProbeNodeType ==
  ASSUME NEW s \in NodeStatus, NEW n, NEW c \in Condition, NEW known
  PROVE  ProbeNode(s, n, c, known) \in NodeStatus
<1>1. c.lag \in Nat /\ (c.rpc = "ok") \in BOOLEAN
  BY DEF Condition
<1>2. QED
  BY <1>1 DEF ProbeNode, NodeStatus

LEMMA IdleJobType == IdleJob \in Job
BY DEF IdleJob, Job, NoDiff, Diff, NoStatus, NodeStatus
-----------------------------------------------------------------------------
(* The inductive invariant: what a process in the middle of a change knows. *)

Changing(j) == j.pc \in {"mark", "apply", "write"}

JobOK(j, marked) ==
  /\ j.action # "watch" => j.node \in Nodes /\ \A p \in j.todo : j.node \in Members[p]
  /\ Changing(j) => j.pool \in Pools /\ j.left.removed \cup j.left.added \subseteq MemberIps(j.pool)
  /\ j.pc \in {"apply", "write"} => j.pool \in marked
  /\ j.pc = "write" => j.call \in Call /\ j.call.ip \in MemberIps(j.pool)

Inv == TypeOK /\ \A x \in Procs : JobOK(job[x], markers)

LEMMA InitInv == Init => Inv
<1> SUFFICES ASSUME Init PROVE Inv
  OBVIOUS
<1>1. TypeOK
  BY IdleJobType DEF Init, TypeOK
<1>2. ASSUME NEW x \in Procs PROVE JobOK(job[x], markers)
  BY DEF Init, JobOK, Changing, IdleJob
<1>3. QED
  BY <1>1, <1>2 DEF Inv

\* A step that only replaces the job of one process keeps the invariant if
\* the new job is well-typed and well-formed.
LEMMA BecomeInv ==
  ASSUME Inv, NEW x \in Procs, NEW j \in Job, JobOK(j, markers'), Become(x, j),
         zone' \in [Pools -> SUBSET Ips], markers' \in SUBSET Pools, markers \subseteq markers',
         ledger' \in [Pools -> SUBSET Ips], UNCHANGED envVars
  PROVE  Inv'
<1>1. TypeOK'
  BY DEF Inv, TypeOK, Become, envVars
<1>2. ASSUME NEW y \in Procs PROVE JobOK(job[y], markers)'
  <2>1. CASE y = x
    BY <2>1 DEF Become, Inv, TypeOK, JobOK, Changing
  <2>2. CASE y # x
    BY <2>2 DEF Become, Inv, TypeOK, JobOK, Changing
  <2>3. QED
    BY <2>1, <2>2
<1>3. QED
  BY <1>1, <1>2 DEF Inv
-----------------------------------------------------------------------------
(* One lemma per step: from a state of the invariant it leads to another. *)

LEMMA StartPassInv ==
  ASSUME Inv, NEW w \in Procs, NEW dry_run \in BOOLEAN, StartPass(w, dry_run)
  PROVE  Inv'
<1> DEFINE first == [n \in Nodes |-> ReferenceSide(n, cond[n], ref)]
           j == [IdleJob EXCEPT
                   !.pc = "probe", !.confirm = ~dry_run, !.todo = Pools,
                   !.awaiting = Nodes, !.reference = (ref # "down"), !.status = first]
<1>1. \A n \in Nodes : cond[n] \in Condition
  BY FailoverAssumption DEF Inv, TypeOK
<1>2. first \in [Nodes -> NodeStatus]
  BY <1>1, ReferenceSideType
<1> HIDE DEF first
<1>3. j \in Job
  BY <1>2, IdleJobType DEF Job
<1>4. JobOK(j, markers')
  BY DEF JobOK, Changing, IdleJob
<1>5. Become(w, j)
  BY DEF StartPass, first
<1> HIDE DEF j
<1>6. QED
  BY <1>3, <1>4, <1>5, BecomeInv DEF StartPass, dnsVars, Inv, TypeOK

LEMMA NodeAnswersInv ==
  ASSUME Inv, NEW w \in Procs, NEW n \in Nodes, NodeAnswers(w, n)
  PROVE  Inv'
<1> DEFINE old == job[w]
           answer == ProbeNode(old.status[n], n, cond[n], old.reference)
           j == [old EXCEPT !.pc = IF old.awaiting = {n} THEN "pool" ELSE "probe",
                            !.awaiting = @ \ {n}, !.status[n] = answer]
<1>1. old \in Job /\ JobOK(old, markers) /\ cond[n] \in Condition
  BY FailoverAssumption DEF Inv, TypeOK
<1>2. answer \in NodeStatus
  BY <1>1, ProbeNodeType DEF Job
<1>3. Become(w, j)
  BY DEF NodeAnswers
<1> HIDE DEF answer, old
<1>4. j \in Job
  BY <1>1, <1>2 DEF Job
<1>5. JobOK(j, markers')
  BY <1>1 DEF JobOK, Changing, Job
<1>6. QED
  BY <1>3, <1>4, <1>5, BecomeInv DEF NodeAnswers, dnsVars, Inv, TypeOK

LEMMA StartOverrideInv ==
  ASSUME Inv, NEW c \in Procs, NEW action \in {"eject", "restore"}, NEW n \in Nodes,
         NEW confirm \in BOOLEAN, NEW pools \in SUBSET Pools,
         StartOverride(c, action, n, confirm, pools)
  PROVE  Inv'
<1> DEFINE j == [IdleJob EXCEPT !.pc = "pool", !.action = action, !.node = n,
                                !.confirm = confirm, !.todo = pools]
<1>1. j \in Job
  BY IdleJobType DEF Job
<1>2. \A p \in pools : n \in Members[p]
  BY DEF StartOverride
<1>3. JobOK(j, markers')
  BY <1>2 DEF JobOK, Changing, IdleJob
<1>4. QED
  BY <1>1, <1>3, BecomeInv DEF StartOverride, dnsVars, Inv, TypeOK

LEMMA PassOverInv ==
  ASSUME Inv, NEW x \in Procs, NEW p \in Pools, PassOver(x, p)
  PROVE  Inv'
<1> DEFINE j == [job[x] EXCEPT !.todo = @ \ {p}]
<1>1. job[x] \in Job /\ JobOK(job[x], markers)
  BY DEF Inv, TypeOK
<1>2. j \in Job /\ JobOK(j, markers')
  BY <1>1 DEF Job, JobOK, Changing, PassOver
<1>3. QED
  BY <1>2, BecomeInv DEF PassOver, dnsVars, Inv, TypeOK

\* The change decided for a pool concerns addresses of its members only.
LEMMA ChangeType ==
  ASSUME NEW p \in Pools, NEW j \in Job, JobOK(j, markers), p \in j.todo
  PROVE  Change(j, p) \in Diff /\ Change(j, p).removed \cup Change(j, p).added \subseteq MemberIps(p)
<1>1. MemberIps(p) \subseteq Ips
  BY FailoverAssumption DEF MemberIps, Ips
<1>2. Desired(p, j.status) \subseteq MemberIps(p)
  BY DEF Desired, MemberIps
<1>3. CASE j.action = "watch"
  BY <1>1, <1>2, <1>3 DEF Change, WatchDiff, Diff
<1>4. CASE j.action # "watch"
  <2>1. Host[j.node] \in MemberIps(p)
    BY <1>4 DEF JobOK, MemberIps
  <2>2. QED
    BY <1>1, <1>4, <2>1 DEF Change, OverrideDiff, Diff
<1>5. QED
  BY <1>3, <1>4

LEMMA DecideInv ==
  ASSUME Inv, NEW x \in Procs, NEW p \in Pools, Decide(x, p)
  PROVE  Inv'
<1> DEFINE change == Change(job[x], p)
           j == [job[x] EXCEPT !.pc = "mark", !.pool = p, !.row = change, !.left = change]
<1>1. job[x] \in Job /\ JobOK(job[x], markers) /\ p \in job[x].todo
  BY DEF Inv, TypeOK, Decide
<1>2. change \in Diff /\ change.removed \cup change.added \subseteq MemberIps(p)
  BY <1>1, ChangeType
<1>3. Become(x, j)
  BY DEF Decide
<1> HIDE DEF change
<1>4. j \in Job
  BY <1>1, <1>2 DEF Job
<1>5. JobOK(j, markers')
  BY <1>1, <1>2 DEF Job, JobOK, Changing
<1>6. QED
  BY <1>3, <1>4, <1>5, BecomeInv DEF Decide, dnsVars, Inv, TypeOK

LEMMA EnsureMarkerInv ==
  ASSUME Inv, NEW x \in Procs, EnsureMarker(x)
  PROVE  Inv'
<1> DEFINE j == [job[x] EXCEPT !.pc = "apply"]
<1>1. job[x] \in Job /\ JobOK(job[x], markers)
  BY DEF Inv, TypeOK
<1>2. j \in Job /\ JobOK(j, markers')
  BY <1>1 DEF Job, JobOK, Changing, EnsureMarker
<1>3. markers' \in SUBSET Pools /\ markers \subseteq markers'
  BY <1>1 DEF EnsureMarker, JobOK, Changing, Inv, TypeOK
<1>4. QED
  BY <1>2, <1>3, BecomeInv DEF EnsureMarker, Inv, TypeOK

LEMMA RecordAuditInv ==
  ASSUME Inv, NEW x \in Procs, RecordAudit(x)
  PROVE  Inv'
<1> DEFINE old == job[x]
           j == [old EXCEPT !.pc = "pool", !.todo = @ \ {old.pool}, !.pool = None, !.row = NoDiff]
<1>1. old \in Job /\ JobOK(old, markers)
  BY DEF Inv, TypeOK
<1>2. j \in Job /\ JobOK(j, markers')
  BY <1>1 DEF Job, JobOK, Changing, NoDiff, Diff
<1>3. ledger' \in [Pools -> SUBSET Ips]
  BY <1>1 DEF RecordAudit, Inv, TypeOK, Job, Diff
<1>4. QED
  BY <1>2, <1>3, BecomeInv DEF RecordAudit, dnsVars, Inv, TypeOK

LEMMA EndJobInv ==
  ASSUME Inv, NEW x \in Procs, EndJob(x)
  PROVE  Inv'
<1>1. JobOK(IdleJob, markers')
  BY DEF JobOK, Changing, IdleJob
<1>2. QED
  BY <1>1, IdleJobType, BecomeInv DEF EndJob, dnsVars, Inv, TypeOK

LEMMA DriverListInv ==
  ASSUME Inv, NEW x \in Procs, NEW c \in NextCalls(job[x].left), DriverList(x, c)
  PROVE  Inv'
<1> DEFINE old == job[x]
           listed == [kind |-> c.kind, ip |-> c.ip, seen |-> zone[old.pool]]
           inside == [old EXCEPT !.pc = "write", !.call = listed]
           skipped == [old EXCEPT !.left = Sent(@, c)]
<1>1. /\ old \in Job /\ JobOK(old, markers)
      /\ old.pc = "apply" /\ old.pool \in Pools /\ old.left \in Diff
  BY DEF Inv, TypeOK, DriverList, JobOK, Changing, Job
<1>2. c.kind \in {"remove", "add"} /\ c.ip \in old.left.removed \cup old.left.added
  BY DEF NextCalls
<1>3. listed \in Call /\ c.ip \in MemberIps(old.pool)
  BY <1>1, <1>2 DEF Call, Diff, JobOK, Changing, Inv, TypeOK
<1>4. Sent(old.left, c) \in Diff
  BY <1>1 DEF Sent, Diff
<1>5. inside \in Job /\ JobOK(inside, markers')
  BY <1>1, <1>3 DEF Job, JobOK, Changing, DriverList, dnsVars
<1>6. skipped \in Job /\ JobOK(skipped, markers')
  BY <1>1, <1>4 DEF Job, JobOK, Changing, DriverList, dnsVars, Sent
<1>7. Become(x, inside) \/ Become(x, skipped)
  BY DEF DriverList
<1> HIDE DEF inside, skipped
<1>8. QED
  BY <1>5, <1>6, <1>7, BecomeInv DEF DriverList, dnsVars, Inv, TypeOK

LEMMA DriverWriteInv ==
  ASSUME Inv, NEW x \in Procs, DriverWrite(x)
  PROVE  Inv'
<1> DEFINE old == job[x]
           j == [old EXCEPT !.pc = "apply", !.left = Sent(@, old.call), !.call = None]
<1>1. /\ old \in Job /\ JobOK(old, markers)
      /\ old.pc = "write" /\ old.pool \in Pools /\ old.left \in Diff /\ old.call \in Call
  BY DEF Inv, TypeOK, DriverWrite, JobOK, Changing, Job
<1>2. Sent(old.left, old.call) \in Diff
  BY <1>1 DEF Sent, Diff
<1>3. j \in Job /\ JobOK(j, markers')
  BY <1>1, <1>2 DEF Job, JobOK, Changing, DriverWrite, Sent
<1>4. zone' \in [Pools -> SUBSET Ips]
  BY <1>1 DEF DriverWrite, Written, Apply, Call, Inv, TypeOK
<1>5. QED
  BY <1>3, <1>4, BecomeInv DEF DriverWrite, Inv, TypeOK

LEMMA StoppedInv ==
  ASSUME Inv, NEW x \in Procs, Refused(x) \/ Crash(x)
  PROVE  Inv'
<1>1. Stopped(x) \in Job /\ JobOK(Stopped(x), markers')
  BY IdleJobType DEF Stopped, Job, JobOK, Changing, IdleJob
<1>2. Become(x, Stopped(x)) /\ UNCHANGED <<dnsVars, ledger, envVars>>
  BY DEF Refused, Crash
<1>3. QED
  BY <1>1, <1>2, BecomeInv DEF dnsVars, Inv, TypeOK

LEMMA RestartInv ==
  ASSUME Inv, NEW x \in Procs, Restart(x)
  PROVE  Inv'
<1>1. JobOK(IdleJob, markers')
  BY DEF JobOK, Changing, IdleJob
<1>2. QED
  BY <1>1, IdleJobType, BecomeInv DEF Restart, dnsVars, Inv, TypeOK

LEMMA EnvironmentInv ==
  ASSUME Inv, Environment
  PROVE  Inv'
<1>1. job' = job /\ markers' = markers /\ ledger' = ledger
  BY DEF Environment, ConditionChanges, ReferenceChanges, OutsideEdit, dnsVars
<1>2. zone' \in [Pools -> SUBSET Ips]
  BY DEF Environment, ConditionChanges, ReferenceChanges, OutsideEdit, dnsVars, Inv, TypeOK, Ips
<1>3. cond' \in [Nodes -> Conditions] /\ ref' \in References
  BY DEF Environment, ConditionChanges, ReferenceChanges, OutsideEdit, envVars, Inv, TypeOK
<1>4. QED
  BY <1>1, <1>2, <1>3 DEF Inv, TypeOK, JobOK, Changing
-----------------------------------------------------------------------------
(* The theorems. *)

LEMMA NextInv == Inv /\ [Next]_vars => Inv'
<1> SUFFICES ASSUME Inv, [Next]_vars PROVE Inv'
  OBVIOUS
<1>1. CASE UNCHANGED vars
  BY <1>1 DEF vars, dnsVars, envVars, Inv, TypeOK, JobOK, Changing
<1>2. CASE Environment
  BY <1>2, EnvironmentInv
<1>3. ASSUME NEW x \in Procs, NEW dry_run \in BOOLEAN, StartPass(x, dry_run) PROVE Inv'
  BY <1>3, StartPassInv
<1>4. ASSUME NEW x \in Procs, Override(x) PROVE Inv'
  BY <1>4, StartOverrideInv DEF Override
<1>5. ASSUME NEW x \in Procs, Work(x) PROVE Inv'
  <2>1. CASE \E n \in Nodes : NodeAnswers(x, n)
    BY <2>1, NodeAnswersInv
  <2>2. CASE \E p \in Pools : PassOver(x, p) \/ Decide(x, p)
    BY <2>2, PassOverInv, DecideInv
  <2>3. CASE EnsureMarker(x)
    BY <2>3, EnsureMarkerInv
  <2>4. CASE \E c \in NextCalls(job[x].left) : DriverList(x, c)
    BY <2>4, DriverListInv
  <2>5. CASE DriverWrite(x)
    BY <2>5, DriverWriteInv
  <2>6. CASE Refused(x)
    BY <2>6, StoppedInv
  <2>7. CASE RecordAudit(x)
    BY <2>7, RecordAuditInv
  <2>8. CASE EndJob(x)
    BY <2>8, EndJobInv
  <2>9. QED
    BY <1>5, <2>1, <2>2, <2>3, <2>4, <2>5, <2>6, <2>7, <2>8 DEF Work
<1>6. ASSUME NEW x \in Procs, Crash(x) \/ Restart(x) PROVE Inv'
  BY <1>6, StoppedInv, RestartInv
<1>7. QED
  BY <1>1, <1>2, <1>3, <1>4, <1>5, <1>6 DEF Next

LEMMA Invariance == Spec => []Inv
BY InitInv, NextInv, PTL DEF Spec

\* Every variable keeps its type, whatever the fleet and however many
\* processes run (watch.py:43-106, operations.py:463-507).
THEOREM TypeCorrect == Spec => []TypeOK
<1>1. Inv => TypeOK
  BY DEF Inv
<1>2. QED
  BY <1>1, Invariance, PTL
-----------------------------------------------------------------------------
(* Refinement of OwnedRecords. *)

\* The steps that touch neither the zone nor the markers.
LEMMA QuietSteps ==
  ASSUME NEW x \in Procs,
         \/ \E dry_run \in BOOLEAN : StartPass(x, dry_run)
         \/ Override(x) \/ Crash(x) \/ Restart(x) \/ Refused(x) \/ RecordAudit(x) \/ EndJob(x)
         \/ \E n \in Nodes : NodeAnswers(x, n)
         \/ \E p \in Pools : PassOver(x, p) \/ Decide(x, p)
         \/ \E c \in NextCalls(job[x].left) : DriverList(x, c)
  PROVE  UNCHANGED dnsVars
<1>1. CASE \/ \E dry_run \in BOOLEAN : StartPass(x, dry_run)
           \/ Override(x) \/ Crash(x) \/ Restart(x) \/ Refused(x) \/ RecordAudit(x) \/ EndJob(x)
  BY <1>1 DEF StartPass, Override, StartOverride, Crash, Restart, Refused, RecordAudit, EndJob
<1>2. CASE \/ \E n \in Nodes : NodeAnswers(x, n)
           \/ \E p \in Pools : PassOver(x, p) \/ Decide(x, p)
           \/ \E c \in NextCalls(job[x].left) : DriverList(x, c)
  BY <1>2 DEF NodeAnswers, PassOver, Decide, DriverList
<1>3. QED
  BY <1>1, <1>2

\* A write that Cloudflare accepts adds or deletes one record.
LEMMA WriteRotates ==
  ASSUME Inv, Driver = "cloudflare", NEW x \in Procs, DriverWrite(x)
  PROVE  Owned!Next
<1> DEFINE old == job[x]
           p == old.pool
           ip == old.call.ip
<1>1. p \in Pools /\ p \in markers /\ old.call \in Call /\ ip \in MemberIps(p)
  BY DEF Inv, JobOK, Changing, DriverWrite
<1>2. Needed(old.call, zone[p])
  BY DEF DriverWrite, Accepted
<1>3. zone' = [zone EXCEPT ![p] = Apply(old.call, @)] /\ markers' = markers
  BY DEF DriverWrite, Written
<1>4. Apply(old.call, zone[p]) = IF ip \in zone[p] THEN zone[p] \ {ip} ELSE zone[p] \cup {ip}
  BY <1>1, <1>2 DEF Apply, Needed, Call
<1>5. Owned!Toggle(p, ip)
  BY <1>3, <1>4 DEF Owned!Toggle
<1>6. QED
  BY <1>1, <1>5 DEF Owned!Next, Owned!Rotate

LEMMA StepRefines ==
  ASSUME Inv, Driver = "cloudflare", [Next]_vars
  PROVE  [Owned!Next]_(Owned!vars)
<1>1. CASE UNCHANGED vars
  BY <1>1 DEF vars, dnsVars, Owned!vars
<1>2. CASE Environment
  <2>1. CASE \E p \in Pools, ip \in Foreign : OutsideEdit(p, ip)
    BY <2>1 DEF OutsideEdit, Owned!Next, Owned!OutsideEdit, Owned!Toggle
  <2>2. CASE ReferenceChanges \/ \E n \in Nodes : ConditionChanges(n)
    BY <2>2 DEF ReferenceChanges, ConditionChanges, dnsVars, Owned!vars
  <2>3. QED
    BY <1>2, <2>1, <2>2 DEF Environment
<1>3. ASSUME NEW x \in Procs, EnsureMarker(x) PROVE Owned!Next
  <2>1. job[x].pool \in Pools
    BY <1>3 DEF Inv, JobOK, Changing, EnsureMarker
  <2>2. Owned!Claim(job[x].pool)
    BY <1>3 DEF EnsureMarker, Owned!Claim
  <2>3. QED
    BY <2>1, <2>2 DEF Owned!Next
<1>4. ASSUME NEW x \in Procs, DriverWrite(x) PROVE Owned!Next
  BY <1>4, WriteRotates
<1>5. ASSUME NEW x \in Procs,
             ~EnsureMarker(x), ~DriverWrite(x),
             \/ \E dry_run \in BOOLEAN : StartPass(x, dry_run)
             \/ Override(x) \/ Work(x) \/ Crash(x) \/ Restart(x)
      PROVE  UNCHANGED Owned!vars
  BY <1>5, QuietSteps DEF Work, dnsVars, Owned!vars
<1>6. QED
  BY <1>1, <1>2, <1>3, <1>4, <1>5 DEF Next

LEMMA InitRefines == Init => Owned!Init
BY DEF Init, Owned!Init

\* dns.py:9 "solfleet only manages records it owns": on Cloudflare, any
\* number of watch loops and overrides, racing and failing at any point,
\* change only marked pools, by one member address at a time.
THEOREM CloudflareRefinement ==
  ASSUME Driver = "cloudflare"
  PROVE  Spec => ImplementsOwnedRecords
<1>1. Inv /\ [Next]_vars => [Owned!Next]_(Owned!vars)
  BY StepRefines
<1>2. QED
  BY <1>1, InitRefines, Invariance, PTL DEF Spec, Owned!Spec, ImplementsOwnedRecords
-----------------------------------------------------------------------------
(* Last-member protection when one process runs at a time. *)

\* What the records become once the rest of the change is sent.
Final(records, left) == (records \ left.removed) \cup left.added

\* The strengthening: a change in progress is consistent with the zone it
\* was computed from, and completing it leaves a record.
Protected(j) ==
  /\ \A p \in Pools : ~(j.pc \in {"apply", "write"} /\ j.pool = p) => zone[p] # {}
  /\ Changing(j) => /\ Final(zone[j.pool], j.left) # {}
                    /\ j.left.removed \cap j.left.added = {}
  /\ j.pc = "write" => /\ j.call.seen = zone[j.pool]
                       /\ Needed(j.call, zone[j.pool])
                       /\ j.call.kind = "remove" => j.call.ip \in j.left.removed
                       /\ j.call.kind = "add" => j.call.ip \in j.left.added

\* The decision to change a pool leaves it at least one record.
LEMMA DecisionLeavesOne ==
  ASSUME NEW p \in Pools, NEW j, zone[p] # {}, Acts(j, p)
  PROVE  /\ Final(zone[p], Change(j, p)) # {}
         /\ Change(j, p).removed \cap Change(j, p).added = {}
<1>1. CASE j.action = "watch"
  <2> DEFINE desired == Desired(p, j.status)
  <2>1. desired # {}
    BY <1>1 DEF Acts, WatchActs
  <2>2. Change(j, p) = WatchDiff(p, zone[p], desired)
    BY <1>1 DEF Change
  <2> HIDE DEF desired
  <2>3. QED
    BY <2>1, <2>2 DEF WatchDiff, Final
<1>2. CASE j.action = "eject"
  <2>1. ~WouldEmpty(zone[p], Host[j.node])
    BY <1>2 DEF Acts, OverrideActs, Executes, Gate
  <2>2. QED
    BY <1>2, <2>1 DEF WouldEmpty, Change, OverrideDiff, Final
<1>3. CASE j.action \notin {"watch", "eject"}
  BY <1>3 DEF Change, OverrideDiff, Final
<1>4. QED
  BY <1>1, <1>2, <1>3

\* The outcome of a change does not move while the driver calls are sent.
LEMMA SentKeepsFinal ==
  ASSUME NEW records, NEW left \in Diff, NEW c,
         left.removed \cap left.added = {},
         Final(records, left) # {},
         \/ c.kind = "remove" /\ c.ip \in left.removed
         \/ c.kind = "add" /\ c.ip \in left.added
  PROVE  /\ Final(Apply(c, records), Sent(left, c)) # {}
         /\ Sent(left, c).removed \cap Sent(left, c).added = {}
         /\ ~Needed(c, records) => Final(records, Sent(left, c)) # {}
<1>1. CASE c.kind = "remove" /\ c.ip \in left.removed
  <2>1. c.ip \notin left.added
    BY <1>1
  <2>2. QED
    BY <1>1, <2>1 DEF Final, Sent, Apply, Needed
<1>2. CASE c.kind = "add" /\ c.ip \in left.added
  <2>1. c.ip \notin left.removed
    BY <1>2
  <2>2. QED
    BY <1>2, <2>1 DEF Final, Sent, Apply, Needed
<1>3. QED
  BY <1>1, <1>2

LEMMA ProtectedWork ==
  ASSUME Inv, NEW op \in Procs, Protected(job[op]), Work(op)
  PROVE  Protected(job[op])'
<1> DEFINE old == job[op]
<1>1. old \in Job /\ JobOK(old, markers) /\ zone \in [Pools -> SUBSET Ips]
      /\ job \in [Procs -> Job]
  BY DEF Inv, TypeOK
<1>2. CASE \E n \in Nodes : NodeAnswers(op, n)
  BY <1>1, <1>2 DEF NodeAnswers, Become, dnsVars, Job, Protected, Changing
<1>3. ASSUME NEW p \in Pools, PassOver(op, p) PROVE Protected(job[op])'
  BY <1>1, <1>3 DEF PassOver, Become, dnsVars, Job, Protected, Changing
<1>4. ASSUME NEW p \in Pools, Decide(op, p) PROVE Protected(job[op])'
  <2> DEFINE change == Change(old, p)
  <2>1. zone[p] # {} /\ Acts(old, p)
    BY <1>4 DEF Decide, Protected
  <2>2. Final(zone[p], change) # {} /\ change.removed \cap change.added = {}
    BY <2>1, DecisionLeavesOne
  <2>3. job' = [job EXCEPT ![op] = [old EXCEPT !.pc = "mark", !.pool = p,
                                               !.row = change, !.left = change]]
    BY <1>4 DEF Decide, Become
  <2> HIDE DEF change
  <2>4. job'[op].pc = "mark" /\ job'[op].pool = p /\ job'[op].left = change
    BY <1>1, <2>3 DEF Job
  <2>5. zone' = zone
    BY <1>4 DEF Decide, dnsVars
  <2>6. \A q \in Pools : zone[q] # {}
    BY <1>4 DEF Decide, Protected
  <2>7. QED
    BY <2>2, <2>4, <2>5, <2>6 DEF Protected, Changing
<1>5. CASE EnsureMarker(op)
  BY <1>1, <1>5 DEF EnsureMarker, Become, Job, Protected, Changing
<1>6. ASSUME NEW c \in NextCalls(old.left), DriverList(op, c) PROVE Protected(job[op])'
  <2>1. zone' = zone /\ old.pc = "apply" /\ old.pool \in Pools /\ old.left \in Diff
    BY <1>1, <1>6 DEF DriverList, dnsVars, JobOK, Changing, Job
  <2>2. \/ c.kind = "remove" /\ c.ip \in old.left.removed
        \/ c.kind = "add" /\ c.ip \in old.left.added
    BY DEF NextCalls
  <2>3. Final(zone[old.pool], old.left) # {} /\ old.left.removed \cap old.left.added = {}
    BY <2>1 DEF Protected, Changing
  <2>4. CASE Needed(c, zone[old.pool])
    <3> DEFINE listed == [kind |-> c.kind, ip |-> c.ip, seen |-> zone[old.pool]]
    <3>1. job' = [job EXCEPT ![op] = [old EXCEPT !.pc = "write", !.call = listed]]
      BY <1>6, <2>4 DEF DriverList, Become, MustWrite
    <3>2. /\ job'[op].pc = "write" /\ job'[op].pool = old.pool
          /\ job'[op].left = old.left /\ job'[op].call = listed
      BY <1>1, <3>1 DEF Job
    <3>3. QED
      BY <2>1, <2>2, <2>3, <2>4, <3>2 DEF Protected, Changing, Needed
  <2>5. CASE ~Needed(c, zone[old.pool])
    <3>1. job' = [job EXCEPT ![op] = [old EXCEPT !.left = Sent(@, c)]]
      BY <1>6, <2>5 DEF DriverList, Become, MustWrite
    <3>2. job'[op].pc = "apply" /\ job'[op].pool = old.pool /\ job'[op].left = Sent(old.left, c)
      BY <1>1, <2>1, <3>1 DEF Job
    <3>3. /\ Final(zone[old.pool], Sent(old.left, c)) # {}
          /\ Sent(old.left, c).removed \cap Sent(old.left, c).added = {}
      BY <2>1, <2>2, <2>3, <2>5, SentKeepsFinal
    <3>4. QED
      BY <2>1, <3>2, <3>3 DEF Protected, Changing
  <2>6. QED
    BY <2>4, <2>5
<1>7. CASE DriverWrite(op)
  <2>1. /\ old.pc = "write" /\ old.pool \in Pools /\ old.left \in Diff
        /\ old.call.kind \in {"remove", "add"}
    BY <1>1, <1>7 DEF DriverWrite, JobOK, Changing, Job, Call
  <2>2. /\ old.call.seen = zone[old.pool]
        /\ \/ old.call.kind = "remove" /\ old.call.ip \in old.left.removed
           \/ old.call.kind = "add" /\ old.call.ip \in old.left.added
    BY <2>1 DEF Protected
  <2>3. Final(zone[old.pool], old.left) # {} /\ old.left.removed \cap old.left.added = {}
    BY <2>1 DEF Protected, Changing
  <2>4. zone' = [zone EXCEPT ![old.pool] = Apply(old.call, @)]
    BY <1>7, <2>2 DEF DriverWrite, Written
  <2>5. /\ Final(Apply(old.call, zone[old.pool]), Sent(old.left, old.call)) # {}
        /\ Sent(old.left, old.call).removed \cap Sent(old.left, old.call).added = {}
    BY <2>1, <2>2, <2>3, SentKeepsFinal
  <2>6. job'[op].pc = "apply" /\ job'[op].pool = old.pool /\ job'[op].left = Sent(old.left, old.call)
    BY <1>1, <1>7 DEF DriverWrite, Become, Job
  <2>7. zone'[old.pool] = Apply(old.call, zone[old.pool])
        /\ \A q \in Pools \ {old.pool} : zone'[q] = zone[q]
    BY <1>1, <2>1, <2>4
  <2>8. \A q \in Pools \ {old.pool} : zone[q] # {}
    BY DEF Protected
  <2>9. QED
    BY <2>5, <2>6, <2>7, <2>8 DEF Protected, Changing
<1>8. CASE Refused(op)
  BY <1>8 DEF Refused, Accepted, Protected
<1>9. CASE RecordAudit(op)
  <2>1. old.pc = "apply" /\ old.left = NoDiff /\ old.pool \in Pools /\ zone' = zone
    BY <1>1, <1>9 DEF RecordAudit, dnsVars, JobOK, Changing
  <2>2. \A p \in Pools : zone[p] # {}
    BY <2>1 DEF Protected, Changing, Final, NoDiff
  <2>3. job'[op].pc = "pool"
    BY <1>1, <1>9 DEF RecordAudit, Become, Job
  <2>4. QED
    BY <2>1, <2>2, <2>3 DEF Protected, Changing
<1>10. CASE EndJob(op)
  BY <1>1, <1>10 DEF EndJob, Become, IdleJob, dnsVars, Protected, Changing
<1>11. QED
  BY <1>2, <1>3, <1>4, <1>5, <1>6, <1>7, <1>8, <1>9, <1>10 DEF Work

LEMMA ProtectedStep ==
  ASSUME NEW op, Procs = {op}, Crashes = FALSE, OutsideEdits = FALSE,
         Inv, Protected(job[op]), [Next]_vars
  PROVE  Protected(job[op])'
<1>1. op \in Procs /\ job \in [Procs -> Job]
  BY DEF Inv, TypeOK
<1>2. CASE UNCHANGED vars \/ Environment
  BY <1>2 DEF vars, dnsVars, envVars, Environment, ConditionChanges, ReferenceChanges, OutsideEdit,
              Protected, Changing
<1>3. CASE \E dry_run \in BOOLEAN : StartPass(op, dry_run)
  <2>1. zone' = zone /\ job[op].pc = "idle" /\ job'[op].pc = "probe"
    BY <1>1, <1>3 DEF StartPass, Become, IdleJob, dnsVars
  <2>2. QED
    BY <2>1 DEF Protected, Changing
<1>4. CASE Override(op)
  <2>1. zone' = zone /\ job[op].pc = "idle" /\ job'[op].pc = "pool"
    BY <1>1, <1>4 DEF Override, StartOverride, Become, IdleJob, dnsVars
  <2>2. QED
    BY <2>1 DEF Protected, Changing
<1>5. CASE Work(op)
  BY <1>1, <1>5, ProtectedWork
<1>6. CASE Crash(op)
  BY <1>6 DEF Crash
<1>7. CASE Restart(op)
  <2>1. zone' = zone /\ job[op].pc = "down" /\ job'[op].pc = "idle"
    BY <1>1, <1>7 DEF Restart, Become, IdleJob, dnsVars
  <2>2. QED
    BY <2>1 DEF Protected, Changing
<1>8. QED
  BY <1>2, <1>3, <1>4, <1>5, <1>6, <1>7 DEF Next

\* Last-member protection (watch.py:73, operations.py:482): if a single
\* process runs, is not interrupted and nobody else edits the zone, a pool
\* is empty only while that process is about to add its healthy members,
\* whatever the driver.  The runs NotLeftEmpty and NeverEmpty show that
\* neither the assumption nor the exception can be dropped.
THEOREM OneProcessProtectsPools ==
  ASSUME NEW op, Procs = {op}, Crashes = FALSE, OutsideEdits = FALSE
  PROVE  Spec => []EmptyOnlyMidHandover
<1>1. Init => Protected(job[op])
  BY DEF Init, Protected, Changing, IdleJob
<1>2. Inv /\ Protected(job[op]) /\ [Next]_vars => Protected(job[op])'
  BY ProtectedStep
<1>3. Inv /\ Protected(job[op]) => EmptyOnlyMidHandover
  BY DEF Protected, Changing, Final, EmptyOnlyMidHandover
<1>4. QED
  BY <1>1, <1>2, <1>3, Invariance, PTL DEF Spec
-----------------------------------------------------------------------------
(* The audit rows of one process. *)

\* A write or an outside edit elsewhere leaves the member records as they are.
LEMMA EditKeepsMembers ==
  ASSUME Inv, NEW p \in Pools, NEW q \in Pools, NEW ip \in Foreign, OutsideEdit(q, ip)
  PROVE  /\ zone'[p] \cap MemberIps(p) = zone[p] \cap MemberIps(p)
         /\ \A k \in MemberIps(p) : k \in zone'[p] <=> k \in zone[p]
<1>1. ip \notin MemberIps(p)
  BY FailoverAssumption DEF MemberIps
<1>2. zone'[p] \in {zone[p], zone[p] \ {ip}, zone[p] \cup {ip}}
  BY DEF OutsideEdit, Inv, TypeOK
<1>3. QED
  BY <1>1, <1>2

\* The strengthening: completing the change in progress makes the zone what
\* the audit row will make the ledger, as far as members are concerned.
Accounted(j) ==
  /\ \A p \in Pools : ~(Changing(j) /\ j.pool = p) =>
       ledger[p] \cap MemberIps(p) = zone[p] \cap MemberIps(p)
  /\ Changing(j) => /\ Final(zone[j.pool], j.left) \cap MemberIps(j.pool)
                        = Final(ledger[j.pool], j.row) \cap MemberIps(j.pool)
                    /\ j.left.removed \cap j.left.added = {}
  /\ j.pc = "write" => /\ j.call.seen \cap MemberIps(j.pool) = zone[j.pool] \cap MemberIps(j.pool)
                       /\ Needed(j.call, zone[j.pool])
                       /\ j.call.kind = "remove" => j.call.ip \in j.left.removed
                       /\ j.call.kind = "add" => j.call.ip \in j.left.added

LEMMA ChangeDisjoint ==
  ASSUME NEW p \in Pools, NEW j
  PROVE  Change(j, p).removed \cap Change(j, p).added = {}
BY DEF Change, WatchDiff, OverrideDiff

\* Two sets of records that agree on the addresses in m.
SameIn(m, a, b) == a \cap m = b \cap m

\* Among the addresses in m, sending one call of a change brings the records
\* closer to its outcome, and does not move the outcome.
LEMMA SentKeepsOutcome ==
  ASSUME NEW m, NEW records, NEW written, NEW left \in Diff, NEW c,
         left.removed \cap left.added = {},
         \/ c.kind = "remove" /\ c.ip \in left.removed
         \/ c.kind = "add" /\ c.ip \in left.added
  PROVE  /\ SameIn(m, written, Apply(c, records)) =>
              SameIn(m, Final(written, Sent(left, c)), Final(records, left))
         /\ ~Needed(c, records) => Final(records, Sent(left, c)) = Final(records, left)
         /\ Sent(left, c).removed \cap Sent(left, c).added = {}
<1>1. CASE c.kind = "remove" /\ c.ip \in left.removed
  <2>1. c.ip \notin left.added
    BY <1>1
  <2>2. QED
    BY <1>1, <2>1 DEF SameIn, Final, Sent, Apply, Needed
<1>2. CASE c.kind = "add" /\ c.ip \in left.added
  <2>1. c.ip \notin left.removed
    BY <1>2
  <2>2. QED
    BY <1>2, <2>1 DEF SameIn, Final, Sent, Apply, Needed
<1>3. QED
  BY <1>1, <1>2

LEMMA AccountedWork ==
  ASSUME Inv, NEW op \in Procs, Accounted(job[op]), Work(op)
  PROVE  Accounted(job[op])'
<1> DEFINE old == job[op]
<1>1. /\ old \in Job /\ JobOK(old, markers) /\ zone \in [Pools -> SUBSET Ips]
      /\ job \in [Procs -> Job] /\ ledger \in [Pools -> SUBSET Ips]
  BY DEF Inv, TypeOK
<1>2. CASE \E n \in Nodes : NodeAnswers(op, n)
  BY <1>1, <1>2 DEF NodeAnswers, Become, dnsVars, Job, Accounted, Changing
<1>3. ASSUME NEW p \in Pools, PassOver(op, p) PROVE Accounted(job[op])'
  BY <1>1, <1>3 DEF PassOver, Become, dnsVars, Job, Accounted, Changing
<1>4. ASSUME NEW p \in Pools, Decide(op, p) PROVE Accounted(job[op])'
  <2> DEFINE change == Change(old, p)
  <2>1. change.removed \cap change.added = {}
    BY ChangeDisjoint
  <2>2. job' = [job EXCEPT ![op] = [old EXCEPT !.pc = "mark", !.pool = p,
                                               !.row = change, !.left = change]]
    BY <1>4 DEF Decide, Become
  <2> HIDE DEF change
  <2>3. /\ job'[op].pc = "mark" /\ job'[op].pool = p
        /\ job'[op].left = change /\ job'[op].row = change
    BY <1>1, <2>2 DEF Job
  <2>4. zone' = zone /\ ledger' = ledger
    BY <1>4 DEF Decide, dnsVars
  <2>5. \A q \in Pools : ledger[q] \cap MemberIps(q) = zone[q] \cap MemberIps(q)
    BY <1>4 DEF Decide, Accounted, Changing
  <2>6. Final(zone[p], change) \cap MemberIps(p) = Final(ledger[p], change) \cap MemberIps(p)
    BY <2>5 DEF Final
  <2>7. QED
    BY <2>1, <2>3, <2>4, <2>5, <2>6 DEF Accounted, Changing
<1>5. CASE EnsureMarker(op)
  BY <1>1, <1>5 DEF EnsureMarker, Become, Job, Accounted, Changing
<1>6. ASSUME NEW c \in NextCalls(old.left), DriverList(op, c) PROVE Accounted(job[op])'
  <2>1. /\ zone' = zone /\ ledger' = ledger
        /\ old.pc = "apply" /\ old.pool \in Pools /\ old.left \in Diff
    BY <1>1, <1>6 DEF DriverList, dnsVars, JobOK, Changing, Job
  <2>2. \/ c.kind = "remove" /\ c.ip \in old.left.removed
        \/ c.kind = "add" /\ c.ip \in old.left.added
    BY DEF NextCalls
  <2>3. CASE Needed(c, zone[old.pool])
    <3> DEFINE listed == [kind |-> c.kind, ip |-> c.ip, seen |-> zone[old.pool]]
    <3>1. job' = [job EXCEPT ![op] = [old EXCEPT !.pc = "write", !.call = listed]]
      BY <1>6, <2>3 DEF DriverList, Become, MustWrite
    <3>2. /\ job'[op].pc = "write" /\ job'[op].pool = old.pool /\ job'[op].row = old.row
          /\ job'[op].left = old.left /\ job'[op].call = listed
      BY <1>1, <3>1 DEF Job
    <3>3. QED
      BY <2>1, <2>2, <2>3, <3>2 DEF Accounted, Changing, Needed
  <2>4. CASE ~Needed(c, zone[old.pool])
    <3>1. job' = [job EXCEPT ![op] = [old EXCEPT !.left = Sent(@, c)]]
      BY <1>6, <2>4 DEF DriverList, Become, MustWrite
    <3>2. /\ job'[op].pc = "apply" /\ job'[op].pool = old.pool
          /\ job'[op].row = old.row /\ job'[op].left = Sent(old.left, c)
      BY <1>1, <2>1, <3>1 DEF Job
    <3>3. old.left.removed \cap old.left.added = {}
      BY <2>1 DEF Accounted, Changing
    <3>4. /\ Final(zone[old.pool], Sent(old.left, c)) = Final(zone[old.pool], old.left)
          /\ Sent(old.left, c).removed \cap Sent(old.left, c).added = {}
      BY <2>1, <2>2, <2>4, <3>3, SentKeepsOutcome
    <3>5. QED
      BY <2>1, <3>2, <3>4 DEF Accounted, Changing
  <2>5. QED
    BY <2>3, <2>4
<1>7. CASE DriverWrite(op)
  <2> DEFINE members == MemberIps(old.pool)
             written == Written(old.call, zone[old.pool])
  <2>1. /\ old.pc = "write" /\ old.pool \in Pools /\ old.left \in Diff
        /\ old.call.kind \in {"remove", "add"} /\ ledger' = ledger
    BY <1>1, <1>7 DEF DriverWrite, JobOK, Changing, Job, Call
  <2>2. /\ old.call.seen \cap members = zone[old.pool] \cap members
        /\ \/ old.call.kind = "remove" /\ old.call.ip \in old.left.removed
           \/ old.call.kind = "add" /\ old.call.ip \in old.left.added
    BY <2>1 DEF Accounted
  <2>3. /\ Final(zone[old.pool], old.left) \cap members = Final(ledger[old.pool], old.row) \cap members
        /\ old.left.removed \cap old.left.added = {}
    BY <2>1 DEF Accounted, Changing
  <2>4. written \cap members = Apply(old.call, zone[old.pool]) \cap members
    BY <2>2 DEF Written, Apply
  <2>5. /\ zone'[old.pool] = written
        /\ \A q \in Pools \ {old.pool} : zone'[q] = zone[q]
    BY <1>1, <1>7, <2>1 DEF DriverWrite
  <2> HIDE DEF members, written
  <2>6. /\ Final(written, Sent(old.left, old.call)) \cap members = Final(zone[old.pool], old.left) \cap members
        /\ Sent(old.left, old.call).removed \cap Sent(old.left, old.call).added = {}
    <3> DEFINE left == old.left
               c == old.call
               records == zone[old.pool]
    <3>1. /\ left \in Diff /\ left.removed \cap left.added = {}
          /\ \/ c.kind = "remove" /\ c.ip \in left.removed
             \/ c.kind = "add" /\ c.ip \in left.added
          /\ SameIn(members, written, Apply(c, records))
      BY <2>1, <2>2, <2>3, <2>4 DEF SameIn
    <3> HIDE DEF left, c, records
    <3>2. /\ SameIn(members, Final(written, Sent(left, c)), Final(records, left))
          /\ Sent(left, c).removed \cap Sent(left, c).added = {}
      BY <3>1, SentKeepsOutcome
    <3>3. QED
      BY <3>2 DEF left, c, records, SameIn
  <2>7. /\ job'[op].pc = "apply" /\ job'[op].pool = old.pool
        /\ job'[op].row = old.row /\ job'[op].left = Sent(old.left, old.call)
    BY <1>1, <1>7 DEF DriverWrite, Become, Job
  <2>8. \A q \in Pools \ {old.pool} : ledger[q] \cap MemberIps(q) = zone[q] \cap MemberIps(q)
    BY DEF Accounted
  <2>9. QED
    BY <2>1, <2>3, <2>5, <2>6, <2>7, <2>8 DEF Accounted, Changing, members
<1>8. CASE Refused(op)
  BY <1>8 DEF Refused, Accepted, Accounted
<1>9. CASE RecordAudit(op)
  <2>1. old.pc = "apply" /\ old.left = NoDiff /\ old.pool \in Pools /\ zone' = zone
    BY <1>1, <1>9 DEF RecordAudit, dnsVars, JobOK, Changing
  <2>2. zone[old.pool] \cap MemberIps(old.pool)
        = Final(ledger[old.pool], old.row) \cap MemberIps(old.pool)
    BY <2>1 DEF Accounted, Changing, Final, NoDiff
  <2>3. /\ ledger'[old.pool] = Final(ledger[old.pool], old.row)
        /\ \A q \in Pools \ {old.pool} : ledger'[q] = ledger[q]
    BY <1>1, <1>9, <2>1 DEF RecordAudit, Final
  <2>4. \A q \in Pools \ {old.pool} : ledger[q] \cap MemberIps(q) = zone[q] \cap MemberIps(q)
    BY DEF Accounted
  <2>5. job'[op].pc = "pool"
    BY <1>1, <1>9 DEF RecordAudit, Become, Job
  <2>6. QED
    BY <2>1, <2>2, <2>3, <2>4, <2>5 DEF Accounted, Changing
<1>10. CASE EndJob(op)
  BY <1>1, <1>10 DEF EndJob, Become, IdleJob, dnsVars, Accounted, Changing
<1>11. QED
  BY <1>2, <1>3, <1>4, <1>5, <1>6, <1>7, <1>8, <1>9, <1>10 DEF Work

LEMMA AccountedStep ==
  ASSUME NEW op, Procs = {op}, Crashes = FALSE, Inv, Accounted(job[op]), [Next]_vars
  PROVE  Accounted(job[op])'
<1>1. op \in Procs /\ job \in [Procs -> Job] /\ JobOK(job[op], markers)
  BY DEF Inv, TypeOK
<1>2. CASE UNCHANGED vars \/ ReferenceChanges \/ \E n \in Nodes : ConditionChanges(n)
  BY <1>2 DEF vars, dnsVars, envVars, ConditionChanges, ReferenceChanges, Accounted, Changing
<1>3. ASSUME NEW q \in Pools, NEW ip \in Foreign, OutsideEdit(q, ip) PROVE Accounted(job[op])'
  <2>1. job' = job /\ ledger' = ledger
    BY <1>3 DEF OutsideEdit
  <2>2. /\ \A p \in Pools : zone'[p] \cap MemberIps(p) = zone[p] \cap MemberIps(p)
        /\ \A p \in Pools : \A k \in MemberIps(p) : k \in zone'[p] <=> k \in zone[p]
    BY <1>3, EditKeepsMembers
  <2>3. ASSUME Changing(job[op])
        PROVE  /\ job[op].pool \in Pools
               /\ Final(zone'[job[op].pool], job[op].left) \cap MemberIps(job[op].pool)
                  = Final(zone[job[op].pool], job[op].left) \cap MemberIps(job[op].pool)
    BY <1>1, <2>2, <2>3 DEF JobOK, Final
  <2>4. ASSUME job[op].pc = "write"
        PROVE  Needed(job[op].call, zone'[job[op].pool]) = Needed(job[op].call, zone[job[op].pool])
    BY <1>1, <2>2, <2>4 DEF JobOK, Changing, Needed
  <2>5. QED
    BY <2>1, <2>2, <2>3, <2>4 DEF Accounted, Changing
<1>4. CASE \E dry_run \in BOOLEAN : StartPass(op, dry_run)
  <2>1. zone' = zone /\ ledger' = ledger /\ job[op].pc = "idle" /\ job'[op].pc = "probe"
    BY <1>1, <1>4 DEF StartPass, Become, IdleJob, dnsVars
  <2>2. QED
    BY <2>1 DEF Accounted, Changing
<1>5. CASE Override(op)
  <2>1. zone' = zone /\ ledger' = ledger /\ job[op].pc = "idle" /\ job'[op].pc = "pool"
    BY <1>1, <1>5 DEF Override, StartOverride, Become, IdleJob, dnsVars
  <2>2. QED
    BY <2>1 DEF Accounted, Changing
<1>6. CASE Work(op)
  BY <1>1, <1>6, AccountedWork
<1>7. CASE Crash(op)
  BY <1>7 DEF Crash
<1>8. CASE Restart(op)
  <2>1. zone' = zone /\ ledger' = ledger /\ job[op].pc = "down" /\ job'[op].pc = "idle"
    BY <1>1, <1>8 DEF Restart, Become, IdleJob, dnsVars
  <2>2. QED
    BY <2>1 DEF Accounted, Changing
<1>9. QED
  BY <1>2, <1>3, <1>4, <1>5, <1>6, <1>7, <1>8 DEF Next, Environment

\* audit.py:2 "Every mutation is recorded": if a single process runs and is
\* not interrupted, then outside a change in progress the audit rows account
\* for every member record of the zone, whatever the driver, and whatever
\* other people do to their own records in the meantime.
THEOREM OneProcessIsAccountedFor ==
  ASSUME NEW op, Procs = {op}, Crashes = FALSE
  PROVE  Spec => []AuditAccountsForZone
<1>1. Init => Accounted(job[op])
  BY DEF Init, Accounted, Changing, IdleJob
<1>2. Inv /\ Accounted(job[op]) /\ [Next]_vars => Accounted(job[op])'
  BY AccountedStep
<1>3. Inv /\ Accounted(job[op]) => AuditAccountsForZone
  BY DEF Accounted, Changing, AuditAccountsForZone
<1>4. QED
  BY <1>1, <1>2, <1>3, Invariance, PTL DEF Spec
-----------------------------------------------------------------------------
(* Watch loops that race. *)

\* The strengthening: some running loop would have its pending write accepted.
Sound(w) == Running(w) /\ (job[w].pc = "write" => Accepted(job[w].call, zone[job[w].pool]))

SomeSound == \E w \in Watchers : Sound(w)

\* A loop that has just sent a write is in no danger.
LEMMA WriterIsSound ==
  ASSUME Inv, NEW x \in Watchers, DriverWrite(x)
  PROVE  Sound(x)'
<1>1. job'[x].pc = "apply"
  BY DEF DriverWrite, Become, Inv, TypeOK, Job, Procs
<1>2. QED
  BY <1>1 DEF Sound, Running

\* Every other step of a sound loop leaves it sound: it decided on a write
\* when it saw that the write was needed.
LEMMA SoundStep ==
  ASSUME Inv, Crashes = FALSE, NEW w \in Watchers, Sound(w), ~DriverWrite(w),
         \/ \E dry_run \in BOOLEAN : StartPass(w, dry_run)
         \/ Override(w) \/ Work(w) \/ Crash(w) \/ Restart(w)
  PROVE  Sound(w)'
<1>1. w \in Procs /\ job \in [Procs -> Job] /\ job[w] \in Job
  BY DEF Inv, TypeOK, Procs
<1>2. ASSUME job'[w].pc \notin {"write", "down"} PROVE Sound(w)'
  BY <1>2 DEF Sound, Running
<1>3. CASE \/ \E dry_run \in BOOLEAN : StartPass(w, dry_run)
           \/ Override(w) \/ Restart(w) \/ EndJob(w)
  <2>1. CASE \E dry_run \in BOOLEAN : StartPass(w, dry_run)
    <3>1. job'[w].pc = "probe"
      BY <1>1, <2>1 DEF StartPass, Become, IdleJob
    <3>2. QED
      BY <1>2, <3>1
  <2>2. CASE Override(w)
    BY <1>1, <1>2, <2>2 DEF Override, StartOverride, Become, IdleJob
  <2>3. CASE Restart(w) \/ EndJob(w)
    <3>1. job' = [job EXCEPT ![w] = IdleJob]
      BY <2>3 DEF Restart, EndJob, Become
    <3>2. job'[w].pc = "idle"
      BY <1>1, <3>1 DEF IdleJob
    <3>3. QED
      BY <1>2, <3>2
  <2>4. QED
    BY <1>3, <2>1, <2>2, <2>3
<1>4. CASE Crash(w) \/ Refused(w)
  BY <1>4 DEF Crash, Refused, Sound
<1>5. ASSUME NEW n \in Nodes, NodeAnswers(w, n) PROVE Sound(w)'
  BY <1>1, <1>2, <1>5 DEF NodeAnswers, Become, Job
<1>6. ASSUME NEW p \in Pools, PassOver(w, p) \/ Decide(w, p) PROVE Sound(w)'
  <2>1. job'[w].pc \in {"pool", "mark"}
    <3>1. CASE PassOver(w, p)
      BY <1>1, <3>1 DEF PassOver, Become, Job
    <3>2. CASE Decide(w, p)
      <4>1. job'[w] = [job[w] EXCEPT !.pc = "mark", !.pool = p,
                                     !.row = Change(job[w], p), !.left = Change(job[w], p)]
        BY <1>1, <3>2 DEF Decide, Become
      <4>2. QED
        BY <1>1, <4>1 DEF Job
    <3>3. QED
      BY <1>6, <3>1, <3>2
  <2>2. QED
    BY <1>2, <2>1
<1>7. CASE EnsureMarker(w) \/ RecordAudit(w)
  BY <1>1, <1>2, <1>7 DEF EnsureMarker, RecordAudit, Become, Job
<1>8. ASSUME NEW c \in NextCalls(job[w].left), DriverList(w, c) PROVE Sound(w)'
  <2> DEFINE old == job[w]
             listed == [kind |-> c.kind, ip |-> c.ip, seen |-> zone[old.pool]]
  <2>1. zone' = zone
    BY <1>8 DEF DriverList, dnsVars
  <2>2. CASE Needed(c, zone[old.pool])
    <3>1. job' = [job EXCEPT ![w] = [old EXCEPT !.pc = "write", !.call = listed]]
      BY <1>8, <2>2 DEF DriverList, Become, MustWrite
    <3>2. job'[w].pc = "write" /\ job'[w].pool = old.pool /\ job'[w].call = listed
      BY <1>1, <3>1 DEF Job
    <3>3. QED
      BY <2>1, <2>2, <3>2 DEF Sound, Running, Accepted, Needed
  <2>3. CASE ~Needed(c, zone[old.pool])
    <3>1. job' = [job EXCEPT ![w] = [old EXCEPT !.left = Sent(@, c)]] /\ old.pc = "apply"
      BY <1>8, <2>3 DEF DriverList, Become, MustWrite
    <3>2. job'[w].pc = "apply"
      BY <1>1, <3>1 DEF Job
    <3>3. QED
      BY <3>2 DEF Sound, Running
  <2>4. QED
    BY <2>2, <2>3
<1>9. QED
  BY <1>3, <1>4, <1>5, <1>6, <1>7, <1>8 DEF Work

LEMMA SomeSoundStep ==
  ASSUME Callers \subseteq Watchers, Crashes = FALSE, Inv, SomeSound, [Next]_vars
  PROVE  SomeSound'
<1>1. PICK w \in Watchers : Sound(w)
  BY DEF SomeSound
<1>2. w \in Procs /\ job \in [Procs -> Job] /\ JobOK(job[w], markers)
  BY DEF Inv, TypeOK, Procs
<1>3. CASE UNCHANGED vars \/ ReferenceChanges \/ \E n \in Nodes : ConditionChanges(n)
  BY <1>1, <1>3 DEF vars, dnsVars, ConditionChanges, ReferenceChanges, SomeSound, Sound, Running
<1>4. ASSUME NEW q \in Pools, NEW ip \in Foreign, OutsideEdit(q, ip) PROVE SomeSound'
  <2>1. job' = job
    BY <1>4 DEF OutsideEdit
  <2>2. ASSUME job[w].pc = "write"
        PROVE  Needed(job[w].call, zone'[job[w].pool]) = Needed(job[w].call, zone[job[w].pool])
    <3>1. job[w].pool \in Pools /\ job[w].call.ip \in MemberIps(job[w].pool)
      BY <1>2, <2>2 DEF JobOK, Changing
    <3>2. QED
      BY <1>4, <3>1, EditKeepsMembers DEF Needed
  <2>3. QED
    BY <1>1, <2>1, <2>2 DEF SomeSound, Sound, Running, Accepted
<1>5. ASSUME NEW x \in Procs,
             \/ \E dry_run \in BOOLEAN : StartPass(x, dry_run)
             \/ Override(x) \/ Work(x) \/ Crash(x) \/ Restart(x)
      PROVE  SomeSound'
  <2>1. x \in Watchers
    BY DEF Procs
  <2>2. CASE DriverWrite(x)
    BY <2>1, <2>2, WriterIsSound DEF SomeSound
  <2>3. CASE ~DriverWrite(x) /\ x = w
    BY <1>1, <1>5, <2>3, SoundStep DEF SomeSound
  <2>4. CASE ~DriverWrite(x) /\ x # w
    <3>1. zone' = zone
      BY <1>5, <2>4, QuietSteps DEF Work, EnsureMarker, dnsVars
    <3>2. job'[w] = job[w]
      BY <1>2, <1>5, <2>4 DEF Work, StartPass, Override, StartOverride, Crash, Restart, Refused,
           RecordAudit, EndJob, NodeAnswers, PassOver, Decide, DriverList, EnsureMarker, Become
    <3>3. QED
      BY <1>1, <3>1, <3>2 DEF SomeSound, Sound, Running
  <2>5. QED
    BY <2>2, <2>3, <2>4
<1>6. QED
  BY <1>3, <1>4, <1>5 DEF Next, Environment

\* However many watch loops race for the same records, on either driver and
\* while other people edit the zone, they never all end on a refused write
\* (watch.py:109-129, dns.py:100-111): a write is refused only because
\* another loop has just had its own accepted.  Assumed is that nothing else
\* fails and that overrides run in the same processes.
THEOREM WatchersOutliveTheirRaces ==
  ASSUME Watchers # {}, Callers \subseteq Watchers, Crashes = FALSE
  PROVE  Spec => []SomeWatcherSurvives
<1>1. Init => SomeSound
  BY DEF Init, SomeSound, Sound, Running, IdleJob, Procs
<1>2. Inv /\ SomeSound /\ [Next]_vars => SomeSound'
  BY SomeSoundStep
<1>3. SomeSound => SomeWatcherSurvives
  BY DEF SomeSound, Sound, SomeWatcherSurvives
<1>4. QED
  BY <1>1, <1>2, <1>3, Invariance, PTL DEF Spec
=============================================================================
