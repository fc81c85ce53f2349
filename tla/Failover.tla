------------------------------ MODULE Failover ------------------------------
(***************************************************************************)
(* DNS failover: watch_once/watch_loop (watch.py), the manual overrides    *)
(* dns_eject/dns_restore (operations.py), the DNS drivers (dns.py) and the *)
(* audit log they write (audit.py).                                        *)
(*                                                                         *)
(* A process is one operating-system process running solfleet.  A process  *)
(* in Watchers runs `solfleet watch`, one in Callers issues overrides one  *)
(* after the other; a process in both does these things in turn, never two *)
(* at once.  One step is one round trip to a node, to the DNS provider or  *)
(* to the audit database; the code between two round trips runs in the     *)
(* step of the first.                                                      *)
(***************************************************************************)
EXTENDS Probe, Safety, FiniteSets

CONSTANTS
  Nodes,         \* every node of the fleet (one cluster, one reference RPC)
  Pools,         \* the record names of dns.pools
  Members,       \* Members[p]: the nodes of pool p
  Host,          \* Host[n]: the address of node n
  EjectWhen,     \* EjectWhen[p]: slot_lag, unhealthy, delinquent
  Foreign,       \* addresses of no node, which the zone may hold too
  Driver,        \* "cloudflare" or "route53"
  Watchers,      \* processes that run the watch loop
  DryRuns,       \* the values of --dry-run that passes are started with
  Callers,       \* processes that issue dns_eject and dns_restore
  Conditions,    \* the conditions the nodes go through
  References,    \* the states the reference RPC goes through
  Crashes,       \* whether a call may fail and a process may be killed
  OutsideEdits   \* whether other people edit the foreign records

Procs == Watchers \cup Callers
MemberIps(p) == {Host[m] : m \in Members[p]}
Ips == {Host[n] : n \in Nodes} \cup Foreign

ASSUME FailoverAssumption ==
  /\ Members \in [Pools -> SUBSET Nodes]
  /\ Foreign \cap {Host[n] : n \in Nodes} = {}
  /\ DryRuns \subseteq BOOLEAN
  /\ Driver \in {"cloudflare", "route53"}
  /\ Conditions \subseteq Condition
  /\ References \subseteq ReferenceStates
  /\ Crashes \in BOOLEAN /\ OutsideEdits \in BOOLEAN
  /\ None \notin BOOLEAN \cup Nat

VARIABLES
  zone,      \* zone[p]: the A records under p
  markers,   \* the pools that carry the TXT marker
  ledger,    \* ledger[p]: the records of p that the audit rows account for
  cond,      \* cond[n]: the true condition of node n
  ref,       \* the true state of the reference RPC
  job        \* job[x]: what process x is doing

dnsVars == <<zone, markers>>
envVars == <<cond, ref>>
vars == <<zone, markers, ledger, cond, ref, job>>
-----------------------------------------------------------------------------
(* The local state of a process. *)

Diff == [removed : SUBSET Ips, added : SUBSET Ips]
NoDiff == [removed |-> {}, added |-> {}]

Call == [kind : {"remove", "add"}, ip : Ips, seen : SUBSET Ips]

\* pc      "idle", "probe" (getHealth and getSlot in flight), "pool" (at the
\*         head of the loop over pools), "mark" (about to ensure_marker),
\*         "apply" (in the loops of driver calls), "write" (inside a driver
\*         call that has listed the records), "down" (a loop that raised)
\* todo    the pools not yet visited
\* row     the change decided for the pool, which the audit row will report
\* left    the part of it still to be sent to the driver
\* call    the driver call being executed, with the records it listed
Job == [pc        : {"idle", "probe", "pool", "mark", "apply", "write", "down"},
        action    : {"watch", "eject", "restore"},
        node      : Nodes \cup {None},
        confirm   : BOOLEAN,
        todo      : SUBSET Pools,
        awaiting  : SUBSET Nodes,
        reference : BOOLEAN,
        status    : [Nodes -> NodeStatus],
        pool      : Pools \cup {None},
        row       : Diff,
        left      : Diff,
        call      : Call \cup {None}]

IdleJob == [pc |-> "idle", action |-> "watch", node |-> None, confirm |-> FALSE,
            todo |-> {}, awaiting |-> {}, reference |-> FALSE,
            status |-> [n \in Nodes |-> NoStatus],
            pool |-> None, row |-> NoDiff, left |-> NoDiff, call |-> None]

Become(x, j) == job' = [job EXCEPT ![x] = j]

\* The zone is whatever its owner left there; the ledger starts from it.
Init ==
  /\ zone \in [Pools -> (SUBSET Ips) \ {{}}]
  /\ markers \in SUBSET Pools
  /\ ledger = zone
  /\ cond \in [Nodes -> Conditions]
  /\ ref \in References
  /\ job = [x \in Procs |-> IdleJob]
-----------------------------------------------------------------------------
(* The watch pass: probe_fleet, then one decision per pool. *)

\* probe_cluster() reads the reference before it asks any node.
StartPass(w, dry_run) ==
  /\ w \in Watchers /\ dry_run \in DryRuns /\ job[w].pc = "idle"
  /\ Become(w, [IdleJob EXCEPT
       !.pc = "probe", !.confirm = ~dry_run,
       !.todo = Pools, !.awaiting = Nodes, !.reference = (ref # "down"),
       !.status = [n \in Nodes |-> ReferenceSide(n, cond[n], ref)]])
  /\ UNCHANGED <<dnsVars, ledger, envVars>>

\* One node answers (or times out); asyncio.gather waits for all of them.
NodeAnswers(w, n) ==
  LET j == job[w] IN
  /\ j.pc = "probe" /\ n \in j.awaiting
  /\ Become(w, [j EXCEPT
       !.pc = IF j.awaiting = {n} THEN "pool" ELSE "probe",
       !.awaiting = @ \ {n},
       !.status[n] = ProbeNode(@, n, cond[n], j.reference)])
  /\ UNCHANGED <<dnsVars, ledger, envVars>>

\* Slip: node names where addresses belong.
MutNames(p, status) == {k \in Members[p] : ~ShouldEject(status[k], EjectWhen[p])}

Desired(p, status) ==
  {Host[m] : m \in {k \in Members[p] : ~ShouldEject(status[k], EjectWhen[p])}}

\* Slip: recovered members are never added back.
MutRemovalsOnly(p, current, desired) ==
  [removed |-> (current \cap MemberIps(p)) \ desired, added |-> {}]

\* to_remove and to_add, against the records listed in the same step.
WatchDiff(p, current, desired) ==
  [removed |-> (current \cap MemberIps(p)) \ desired, added |-> desired \ current]

\* Slip: no last-member protection.
MutUnprotected(j, p) ==
  WatchDiff(p, zone[p], Desired(p, j.status)) # NoDiff /\ j.confirm

\* Slip: a pass with nothing to add is taken for one with nothing to do.
MutActsOnAdditions(j, p) ==
  LET desired == Desired(p, j.status)
  IN  desired # {} /\ WatchDiff(p, zone[p], desired).added # {} /\ j.confirm

\* Whether this pass changes the pool: not when every member fails
\* (last-member protection), when nothing differs, or in a dry run.
WatchActs(j, p) ==
  LET desired == Desired(p, j.status)
  IN  desired # {} /\ WatchDiff(p, zone[p], desired) # NoDiff /\ j.confirm
-----------------------------------------------------------------------------
(* The manual overrides: find the node's pools, gate each of them. *)

\* `record`, when given, narrows the node's pools to one.
StartOverride(c, action, n, confirm, pools) ==
  /\ c \in Callers /\ job[c].pc = "idle"
  /\ LET mine == {p \in Pools : n \in Members[p]} IN
       pools # {} /\ (pools = mine \/ \E p \in mine : pools = {p})
  /\ Become(c, [IdleJob EXCEPT
       !.pc = "pool", !.action = action, !.node = n, !.confirm = confirm, !.todo = pools])
  /\ UNCHANGED <<dnsVars, ledger, envVars>>

WouldEmpty(current, ip) == current \ {ip} = {} /\ ip \in current

OverrideActs(j, p) ==
  Executes(Gate(j.confirm,
    {IF j.action = "eject" THEN ~WouldEmpty(zone[p], Host[j.node]) ELSE TRUE}))

OverrideDiff(j) ==
  IF j.action = "eject"
  THEN [removed |-> {Host[j.node]}, added |-> {}]
  ELSE [removed |-> {}, added |-> {Host[j.node]}]
-----------------------------------------------------------------------------
(* Both walk through their pools in the same way.  Pools are visited in the *)
(* order of fleet.yaml; the model takes them in any order.                  *)

Acts(j, p) == IF j.action = "watch" THEN WatchActs(j, p) ELSE OverrideActs(j, p)

Change(j, p) ==
  IF j.action = "watch" THEN WatchDiff(p, zone[p], Desired(p, j.status)) ELSE OverrideDiff(j)

\* Nothing to do, or not allowed to.  Where an audit row is written (the
\* protected pool, the denied or dry-run override) it reports no change.
PassOver(x, p) ==
  LET j == job[x] IN
  /\ j.pc = "pool" /\ p \in j.todo /\ ~Acts(j, p)
  /\ Become(x, [j EXCEPT !.todo = @ \ {p}])
  /\ UNCHANGED <<dnsVars, ledger, envVars>>

Decide(x, p) ==
  LET j == job[x] IN
  /\ j.pc = "pool" /\ p \in j.todo /\ Acts(j, p)
  /\ Become(x, [j EXCEPT !.pc = "mark", !.pool = p,
                         !.row = Change(j, p), !.left = Change(j, p)])
  /\ UNCHANGED <<dnsVars, ledger, envVars>>

EnsureMarker(x) ==
  /\ job[x].pc = "mark"
  /\ markers' = markers \cup {job[x].pool}
  /\ Become(x, [job[x] EXCEPT !.pc = "apply"])
  /\ UNCHANGED <<zone, ledger, envVars>>

RecordAudit(x) ==
  LET j == job[x] IN
  /\ j.pc = "apply" /\ j.left = NoDiff
  /\ ledger' = [ledger EXCEPT ![j.pool] = (@ \ j.row.removed) \cup j.row.added]
  /\ Become(x, [j EXCEPT !.pc = "pool", !.todo = @ \ {j.pool}, !.pool = None, !.row = NoDiff])
  /\ UNCHANGED <<dnsVars, envVars>>

\* watch_once returns and the loop sleeps, or the command exits.
EndJob(x) ==
  /\ job[x].pc = "pool" /\ job[x].todo = {}
  /\ Become(x, IdleJob)
  /\ UNCHANGED <<dnsVars, ledger, envVars>>
-----------------------------------------------------------------------------
(* The drivers.  add_member and remove_member list the records, then write  *)
(* if the change is still needed.                                           *)

\* Every removal is sent before the first addition.
NextCalls(left) ==
  IF left.removed # {}
  THEN [kind : {"remove"}, ip : left.removed]
  ELSE [kind : {"add"}, ip : left.added]

Needed(c, records) == (c.kind = "add") = (c.ip \notin records)
Apply(c, records) == IF c.kind = "add" THEN records \cup {c.ip} ELSE records \ {c.ip}

\* Slip: the loop over the additions ends after the first one.
MutFirstOnly(left, c) ==
  [removed |-> left.removed \ {c.ip}, added |-> IF c.kind = "add" THEN {} ELSE left.added]

Sent(left, c) == [removed |-> left.removed \ {c.ip}, added |-> left.added \ {c.ip}]

\* Slip: add_member and remove_member write without looking.
MutAlwaysWrites(c, listed) == TRUE

MustWrite(c, listed) == Needed(c, listed)

DriverList(x, c) ==
  LET j == job[x]
      current == zone[j.pool]
  IN
  /\ j.pc = "apply" /\ c \in NextCalls(j.left)
  /\ Become(x, IF MustWrite(c, current)
               THEN [j EXCEPT !.pc = "write",
                              !.call = [kind |-> c.kind, ip |-> c.ip, seen |-> current]]
               ELSE [j EXCEPT !.left = Sent(@, c)])
  /\ UNCHANGED <<dnsVars, ledger, envVars>>

\* Cloudflare has one object per A record and refuses to create one twice or
\* to delete one that is gone; Route53 replaces the whole record set by the
\* list the driver computed from what it read.
Accepted(c, records) == Driver = "route53" \/ Needed(c, records)

\* Slip: the Cloudflare driver replaces the whole list, as Route53 does.
MutWholeList(c, records) == Apply(c, c.seen)

\* Slip: an addition upserts the new address alone.
MutUpsertOne(c, records) == IF c.kind = "add" THEN {c.ip} ELSE Apply(c, c.seen)

Written(c, records) == IF Driver = "route53" THEN Apply(c, c.seen) ELSE Apply(c, records)

DriverWrite(x) ==
  LET j == job[x] IN
  /\ j.pc = "write" /\ Accepted(j.call, zone[j.pool])
  /\ zone' = [zone EXCEPT ![j.pool] = Written(j.call, @)]
  /\ Become(x, [j EXCEPT !.pc = "apply", !.left = Sent(@, j.call), !.call = None])
  /\ UNCHANGED <<markers, ledger, envVars>>
-----------------------------------------------------------------------------
(* Failures.  Nothing catches an exception of a driver, of the audit log or *)
(* of an unexpected answer: an override's command exits, the watch loop     *)
(* ends and stays down until somebody runs it again.                        *)

Stopped(x) == IF x \in Watchers THEN [IdleJob EXCEPT !.pc = "down"] ELSE IdleJob

Refused(x) ==
  /\ job[x].pc = "write" /\ ~Accepted(job[x].call, zone[job[x].pool])
  /\ Become(x, Stopped(x))
  /\ UNCHANGED <<dnsVars, ledger, envVars>>

Crash(x) ==
  /\ Crashes /\ job[x].pc \notin {"idle", "down"}
  /\ Become(x, Stopped(x))
  /\ UNCHANGED <<dnsVars, ledger, envVars>>

Restart(x) ==
  /\ job[x].pc = "down"
  /\ Become(x, IdleJob)
  /\ UNCHANGED <<dnsVars, ledger, envVars>>
-----------------------------------------------------------------------------
(* The environment. *)

ConditionChanges(n) ==
  /\ \E c \in Conditions \ {cond[n]} : cond' = [cond EXCEPT ![n] = c]
  /\ UNCHANGED <<dnsVars, ledger, ref, job>>

ReferenceChanges ==
  /\ ref' \in References \ {ref}
  /\ UNCHANGED <<dnsVars, ledger, cond, job>>

OutsideEdit(p, ip) ==
  /\ OutsideEdits /\ ip \in Foreign
  /\ zone' = [zone EXCEPT ![p] = IF ip \in @ THEN @ \ {ip} ELSE @ \cup {ip}]
  /\ UNCHANGED <<markers, ledger, envVars, job>>
-----------------------------------------------------------------------------
\* The steps process x takes by itself once a pass or an override runs.
Work(x) ==
  \/ \E n \in Nodes : NodeAnswers(x, n)
  \/ \E p \in Pools : PassOver(x, p) \/ Decide(x, p)
  \/ EnsureMarker(x)
  \/ \E c \in NextCalls(job[x].left) : DriverList(x, c)
  \/ DriverWrite(x)
  \/ Refused(x)
  \/ RecordAudit(x)
  \/ EndJob(x)

Override(c) ==
  \E action \in {"eject", "restore"}, n \in Nodes, confirm \in BOOLEAN, pools \in SUBSET Pools :
    StartOverride(c, action, n, confirm, pools)

Environment ==
  \/ \E n \in Nodes : ConditionChanges(n)
  \/ ReferenceChanges
  \/ \E p \in Pools, ip \in Foreign : OutsideEdit(p, ip)

Next ==
  \/ \E x \in Procs :
       (\E dry_run \in BOOLEAN : StartPass(x, dry_run)) \/ Override(x)
       \/ Work(x) \/ Crash(x) \/ Restart(x)
  \/ Environment

Spec == Init /\ [][Next]_vars

\* Every HTTP call has a timeout, the loop sleeps for a fixed interval, and
\* nothing in a pass waits for another process.  No fairness of Override,
\* Crash, Restart or the environment.
Fairness == \A x \in Procs : WF_vars(Work(x)) /\ WF_vars(StartPass(x, FALSE))

FairSpec == Spec /\ Fairness
-----------------------------------------------------------------------------
(* Properties. *)

\* Every variable keeps its type.
TypeOK ==
  /\ zone \in [Pools -> SUBSET Ips]
  /\ markers \in SUBSET Pools
  /\ ledger \in [Pools -> SUBSET Ips]
  /\ cond \in [Nodes -> Conditions]
  /\ ref \in References
  /\ job \in [Procs -> Job]

Owned == INSTANCE OwnedRecords WITH Owned <- [p \in Pools |-> MemberIps(p)], Addresses <- Ips

\* dns.py:9 "solfleet only manages records it owns": whatever several watch
\* loops and overrides do at once, and wherever they fail, the zone changes
\* only in marked pools, by one member address at a time (Cloudflare).
ImplementsOwnedRecords == Owned!Spec

\* Last-member protection, as far as the code provides it: when one process
\* at a time runs, a pool that is empty is one whose healthy members the
\* process is about to add (watch.py:96-99 removes before it adds).
EmptyOnlyMidHandover ==
  \A p \in Pools : zone[p] = {} =>
    \E x \in Procs : job[x].pool = p /\ job[x].pc \in {"apply", "write"} /\ job[x].left.added # {}

\* watch.py:8 "never empty a pool", taken at its word.
NeverEmpty == \A p \in Pools : zone[p] # {}

\* operations.py:512 "Refuses to empty a pool": once no process is in the
\* middle of a change, every pool has a record.
NotLeftEmpty ==
  (\A x \in Procs : job[x].pc \notin {"mark", "apply", "write"}) => NeverEmpty

\* audit.py:2 "Every mutation is recorded": outside a change in progress the
\* audit rows account for every member record of the zone.
AuditAccountsForZone ==
  (\A x \in Procs : job[x].pc \notin {"mark", "apply", "write"}) =>
    \A p \in Pools : ledger[p] \cap MemberIps(p) = zone[p] \cap MemberIps(p)

\* dns.py:11 "a refusal to touch unmarked records": solfleet claims no pool
\* that already holds records and has no marker.
NoClaimOfForeignRecords ==
  [][\A p \in Pools : p \in markers' \ markers => zone[p] = {}]_vars

Running(x) == x \in Watchers /\ job[x].pc # "down"

\* Two watch loops that race for the same Cloudflare record: the loser of a
\* delete or create gets a 4xx and its loop ends, yet a loop always remains.
SomeWatcherSurvives == \E w \in Watchers : Running(w)

\* The status a probe ends with when the fleet is as c and r say.
StatusOf(c, r) ==
  [n \in Nodes |-> ProbeNode(ReferenceSide(n, c[n], r), n, c[n], r # "down")]

\* The fleet stays as c and r say, and nobody overrides.
Settled(c, r) == cond = c /\ ref = r /\ \A x \in Procs : job[x].action = "watch"

\* The member records are those of the passing members.
InRotation(c, r) ==
  \A p \in Pools : LET desired == Desired(p, StatusOf(c, r)) IN
    desired # {} => zone[p] \cap MemberIps(p) = desired

\* Failover does its work: if from some time on the fleet's health stays as
\* it is, nobody overrides, and some watch loop keeps running, then the
\* member records of every pool with a passing member become, and remain,
\* exactly those of its passing members, whatever races, crashes and stale
\* decisions came before (watch.py:43-106, README "pulls lagging/unhealthy
\* nodes out of DNS and restores them on recovery").
Converges ==
  \A c \in [Nodes -> Conditions], r \in References :
    (<>[]Settled(c, r) /\ \E w \in Watchers : <>[]Running(w)) => <>[]InRotation(c, r)
=============================================================================
