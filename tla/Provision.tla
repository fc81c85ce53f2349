------------------------------ MODULE Provision ------------------------------
(***************************************************************************)
(* provision_node (provision.py): a bare host becomes a serving node.  One *)
(* host, its disks, and the builder its software comes from (Builder).     *)
(*                                                                         *)
(* The run of an operator is a plan, like the operations of NodeOps, with  *)
(* one entry for each disk that says what is to be done to it next.  The   *)
(* user, the system settings, the swap and the unit are attempted and      *)
(* their results conjoined; disks, build, distribution and missing keys    *)
(* end the run.                                                            *)
(***************************************************************************)
EXTENDS Builder, Functions

CONSTANTS
  Disks,        \* the node's disks, in the order of fleet.yaml
  Tmpfs,        \* those of fs = "tmpfs"; the others are block devices
  Host,         \* what preflight finds: [x86, cores, ram]
  Voting,       \* role = "validator" and not launch.no_voting
  GeyserLib,    \* whether service.geyser_lib is set
  Provisioners  \* the operators who provision the host

Blocks == Range(Disks) \ Tmpfs
Keys == IF Voting THEN {"identity", "vote"} ELSE {"identity"}
Operators == Provisioners \cup Upgraders

\* The artifacts with a destination on the node.
Files == IF GeyserLib THEN Parts ELSE {"binary"}

ASSUME ProvisionAssumption ==
  /\ Disks \in Seq(Range(Disks)) /\ Provisioners \cap Upgraders = {}
  /\ Host \in [x86 : BOOLEAN, cores : Nat, ram : Nat]
  /\ Voting \in BOOLEAN /\ GeyserLib \in BOOLEAN
  /\ MaxFaults \in Nat

VARIABLES
  format,    \* the block devices with format: true in fleet.yaml
  device,    \* device[d]: "blank", "fs" (a filesystem with nothing on it) or "data"
  prepared,  \* the disks in fstab, mounted and owned by the run user
  done,      \* the stages "user", "system" and "unit" that are done, "start" once
             \* the unit is started
  keys,      \* the keypairs the operator has placed
  file,      \* file[f]: the installed file, or None
  staged,    \* staged[f]: the file <dest>.solfleet-new beside it, or None
  image,     \* the files the running process was launched from, or None
  report     \* the result of the last run, or None

disks == <<device, prepared>>
files == <<file, staged>>
hostVars == <<disks, done, files, image>>
intent == <<format, keys>>
vars == <<builderVars, hostVars, intent, report, job, faults>>

Stages == {"user", "system", "unit", "start"}
NoFiles == [f \in Files |-> None]

Init ==
  /\ BuilderInit
  /\ format \in SUBSET Blocks
  /\ device \in [Blocks -> {"blank", "data"}]
  /\ prepared = {}
  /\ done = {}
  /\ keys \in SUBSET Keys
  /\ file = NoFiles /\ staged = NoFiles
  /\ image = None
  /\ report = None
  /\ job = [o \in Operators |-> None]
  /\ faults = 0
-----------------------------------------------------------------------------
(* The gate and the plan. *)

MinCores == 8
MinRam == 8

\* preflight(): what the host does not answer counts as zero.
Preflight(ssh_ok) ==
  {ssh_ok, ssh_ok /\ Host.x86, ssh_ok /\ Host.cores >= MinCores, ssh_ok /\ Host.ram >= MinRam}

On(c, d) == [do |-> c, part |-> d]

\* Slip: a tmpfs is looked for among the block devices.
MutProbesTmpfs(d) == "probe"

\* What setup_disk begins with; from there it goes on to mkfs and mount.
FirstStep(d) == IF d \in Tmpfs THEN "mount" ELSE "probe"
DiskPlan == [i \in 1..Len(Disks) |-> On(FirstStep(Disks[i]), Disks[i])]

Placed == IF "geyser" \in Files THEN <<"binary", "geyser">> ELSE <<"binary">>

Distribute == IF "geyser" \in Files
              THEN <<Do("push"), Do("verify"), Geyser("push"), Geyser("verify")>>
              ELSE <<Do("push"), Do("verify")>>

ProvisionPlan ==
  <<Do("user"), Do("system")>> \o DiskPlan \o <<Do("disks")>>
  \o BuildPlan(pin, FALSE) \o Distribute \o <<Do("check")>> \o ForEach("swap", Placed)
  \o <<Do("unit"), Do("identity")>> \o (IF Voting THEN <<Do("vote")>> ELSE <<>>)
  \o <<Do("start"), Do("catchup"), Do("finish")>>

\* ack       the devices acknowledged with --format-device
\* format    the devices with format: true when the run began
\* disks_ok  no disk has failed
\* dist_ok   no artifact has failed
\* blind     (history) the devices whose probe failed
\* cold      (history) the unit was not started when the run began
Run(v, ack) ==
  [kind |-> "provision", version |-> v, ref |-> pin, plan |-> ProvisionPlan, ok |-> TRUE,
   sum |-> NoSums, cached |-> FALSE, alone |-> TRUE,
   ack |-> ack, format |-> format, disks_ok |-> TRUE, dist_ok |-> TRUE,
   blind |-> {}, cold |-> "start" \notin done]

Request(o, v, ack, confirm) ==
  /\ job[o] = None
  /\ \E ssh_ok \in BOOLEAN :
       /\ Outcome(ssh_ok, TRUE)
       /\ IF Executes(Gate(confirm, Preflight(ssh_ok)))
          THEN Begin(o, Run(v, ack)) /\ report' = None
          ELSE UNCHANGED <<job, report>>
  /\ UNCHANGED <<builderVars, hostVars, intent>>
-----------------------------------------------------------------------------
(* Stages on the host. *)

\* ensure_user and apply_system; the next stage is attempted whatever becomes
\* of this one.  So is start_service, which needs a unit and does nothing to
\* one that is started.
Stage(o, c) ==
  LET possible == c = "start" => "unit" \in done IN
  /\ At(o, c)
  /\ \E ok, effect \in BOOLEAN :
       /\ Outcome(ok, possible) /\ Effect(ok, possible, effect)
       /\ done' = IF effect THEN done \cup {c} ELSE done
       /\ Proceed(o, ok)
  /\ UNCHANGED <<builderVars, disks, files, image, intent, report>>

\* The trailing `|| true` hides a failing mv, daemon-reload or enable, so
\* that only a lost connection counts as a failure.
InstallUnit(o) ==
  /\ At(o, "unit")
  /\ \E ok, effect \in BOOLEAN :
       /\ Outcome(ok /\ effect, TRUE)
       /\ done' = IF effect THEN done \cup {"unit"} ELSE done
       /\ Proceed(o, ok)
  /\ UNCHANGED <<builderVars, disks, files, image, intent, report>>

\* The plan with c to be done to the disk at its head.
Onward(plan, c) == [plan EXCEPT ![1] = On(c, @.part)]

\* This disk has failed; the others are still set up.
DiskFails(o) == job' = [job EXCEPT ![o].plan = Tail(@), ![o].disks_ok = FALSE]

\* Slip: the refusal does not ask whether the disk is to be formatted.
MutRefusesAllData(j, d, empty) == (d \in j.format => d \in j.ack) /\ empty

\* Slip: acknowledged is enough.
MutFormatsAcked(j, d, empty) == d \in j.format => d \in j.ack

\* setup_disk goes on past its refusals.
MaySetUp(j, d, empty) == d \in j.format => (d \in j.ack /\ empty)

\* lsblk and findmnt: a device they say nothing about counts as empty, also
\* when they fail.
Probe(o) ==
  LET d == Head(job[o].plan).part
      j == job[o]
  IN
  /\ At(o, "probe")
  /\ \E answered \in BOOLEAN :
       /\ Outcome(answered, TRUE)
       /\ LET empty == answered => device[d] = "blank"
              next == IF d \in j.format THEN "mkfs" ELSE "mount"
          IN job' = [job EXCEPT
               ![o].plan = IF MaySetUp(j, d, empty) THEN Onward(@, next) ELSE Tail(@),
               ![o].disks_ok = @ /\ MaySetUp(j, d, empty),
               ![o].blind = IF answered THEN @ ELSE @ \cup {d}]
  /\ UNCHANGED <<builderVars, hostVars, intent, report>>

\* mkfs refuses a mounted device, and may (xfs) or may not (ext4) refuse one
\* it finds a filesystem on.
Mkfs(o) ==
  LET d == Head(job[o].plan).part
      possible == d \notin prepared
  IN
  /\ At(o, "mkfs")
  /\ \E ok, effect \in BOOLEAN :
       /\ \/ Outcome(ok, possible)
          \/ device[d] # "blank" /\ ~ok /\ ~effect /\ UNCHANGED faults
       /\ Effect(ok, possible, effect)
       /\ device' = IF effect THEN [device EXCEPT ![d] = "fs"] ELSE device
       /\ IF ok THEN job' = [job EXCEPT ![o].plan = Onward(@, "mount")] ELSE DiskFails(o)
  /\ UNCHANGED <<builderVars, prepared, done, files, image, intent, report>>

\* mkdir, fstab, mount and chown: the device needs a filesystem and chown
\* the user.
Mount(o) ==
  LET d == Head(job[o].plan).part
      possible == "user" \in done /\ (d \in Blocks => device[d] # "blank")
  IN
  /\ At(o, "mount")
  /\ \E ok, effect \in BOOLEAN :
       /\ Outcome(ok, possible) /\ Effect(ok, possible, effect)
       /\ prepared' = IF effect THEN prepared \cup {d} ELSE prepared
       /\ IF ok THEN Proceed(o, TRUE) ELSE DiskFails(o)
  /\ UNCHANGED <<builderVars, device, done, files, image, intent, report>>

\* finish(steps, False) and finish(steps, succeeded).
Finished(o, succeeded) ==
  /\ report' = [succeeded |-> succeeded, version |-> job[o].version,
                sum |-> job[o].sum, cold |-> job[o].cold]
  /\ job' = [job EXCEPT ![o] = None]

\* "disk setup failed; not installing software"
DisksChecked(o) ==
  /\ At(o, "disks")
  /\ IF job[o].disks_ok THEN Proceed(o, TRUE) /\ UNCHANGED report ELSE Finished(o, FALSE)
  /\ UNCHANGED <<builderVars, hostVars, intent, faults>>
-----------------------------------------------------------------------------
(* Software and start. *)

\* scp from the builder's cache, as it is now, to <dest>.solfleet-new.
Push(o) ==
  LET p == Head(job[o].plan).part
      cached == out[job[o].version][p]
  IN
  /\ At(o, "push")
  /\ \E ok \in BOOLEAN, content \in Content \cup {None} :
       /\ Outcome(ok, cached # None)
       /\ content \in IF ok THEN {cached} ELSE {cached, Bad, staged[p]}
       /\ staged' = [staged EXCEPT ![p] = content]
       /\ job' = [job EXCEPT ![o].plan = Tail(@), ![o].dist_ok = @ /\ ok]
  /\ UNCHANGED <<builderVars, disks, done, file, image, intent, report>>

\* Slip: a missing checksum is taken for a match.
MutNoChecksumMatches(j, p) == j.sum[p] \in {None, staged[p]}

ShaMatch(j, p) == j.sum[p] # None /\ staged[p] = j.sum[p]

Verify(o) ==
  LET p == Head(job[o].plan).part IN
  /\ At(o, "verify")
  /\ \E ok \in BOOLEAN :
       /\ Outcome(ok, ShaMatch(job[o], p))
       /\ job' = [job EXCEPT ![o].plan = Tail(@), ![o].dist_ok = @ /\ ok]
  /\ UNCHANGED <<builderVars, hostVars, intent, report>>

\* "artifact distribution/verification failed"
Check(o) ==
  /\ At(o, "check")
  /\ IF job[o].dist_ok THEN Proceed(o, TRUE) /\ UNCHANGED report ELSE Finished(o, FALSE)
  /\ UNCHANGED <<builderVars, hostVars, intent, faults>>

\* One mv of atomic_swap; whatever becomes of it, the run goes on.
SwapOne(o) ==
  LET p == Head(job[o].plan).part
      possible == staged[p] # None
  IN
  /\ At(o, "swap")
  /\ \E ok, effect \in BOOLEAN :
       /\ Outcome(ok, possible) /\ Effect(ok, possible, effect)
       /\ file' = IF effect THEN [file EXCEPT ![p] = staged[p]] ELSE file
       /\ staged' = IF effect THEN [staged EXCEPT ![p] = None] ELSE staged
       /\ job' = [job EXCEPT ![o].plan = IF ok THEN Tail(@) ELSE SkipSwaps(@),
                             ![o].ok = @ /\ ok]
  /\ UNCHANGED <<builderVars, disks, done, image, intent, report>>

\* Slip: the answer to `test -f` is not looked at.
MutKeyAssumed(k, answered) == answered

KeyPresent(k, answered) == answered /\ k \in keys

\* check_identity_key and check_vote_key; a missing key ends the run.
CheckKey(o, k) ==
  /\ At(o, k)
  /\ \E answered \in BOOLEAN :
       /\ Outcome(answered, TRUE)
       /\ IF KeyPresent(k, answered)
          THEN Proceed(o, TRUE) /\ UNCHANGED report
          ELSE Finished(o, FALSE)
  /\ UNCHANGED <<builderVars, hostVars, intent>>

\* wait_for_catchup: a sample shows the node healthy, or the timeout passes.
CatchUp(o) ==
  /\ At(o, "catchup")
  /\ \E caught_up \in BOOLEAN : (caught_up => image # None) /\ Proceed(o, caught_up)
  /\ UNCHANGED <<builderVars, hostVars, intent, report, faults>>

\* Slip: what the start and the wait returned is left out.
MutReadyIsEnough(j) == j.disks_ok

Succeeded(j) == j.ok /\ j.disks_ok

Finish(o) ==
  /\ o \in Provisioners /\ At(o, "finish")
  /\ Finished(o, Succeeded(job[o]))
  /\ UNCHANGED <<builderVars, hostVars, intent, faults>>
-----------------------------------------------------------------------------
(* The surroundings. *)

Whole(content) == \A f \in Files : content[f] \notin {None, Bad}

\* systemd launches the started unit (Restart=always); the process needs
\* its user, its keys and whole files, and begins to fill the disks.
Launch ==
  /\ {"start", "user"} \subseteq done /\ image = None /\ keys = Keys /\ Whole(file)
  /\ image' = file
  /\ device' = [d \in Blocks |-> IF d \in prepared THEN "data" ELSE device[d]]
  /\ UNCHANGED <<builderVars, prepared, done, files, intent, report, job, faults>>

ProcessDies ==
  /\ image # None /\ faults < MaxFaults
  /\ image' = None
  /\ faults' = faults + 1
  /\ UNCHANGED <<builderVars, disks, done, files, intent, report, job>>

\* An operator's process is killed; nothing it did is undone.
OperatorDies(o) ==
  /\ job[o] # None /\ faults < MaxFaults
  /\ job' = [job EXCEPT ![o] = None]
  /\ faults' = faults + 1
  /\ UNCHANGED <<builderVars, hostVars, intent, report>>

PlaceKey(k) ==
  /\ k \notin keys /\ keys' = keys \cup {k}
  /\ UNCHANGED <<builderVars, hostVars, format, report, job, faults>>

\* The operator takes `format: true` off a disk.
DropFormat(d) ==
  /\ d \in format /\ format' = format \ {d}
  /\ UNCHANGED <<builderVars, hostVars, keys, report, job, faults>>
-----------------------------------------------------------------------------
HostWork(o) ==
  \/ \E c \in {"user", "system", "start"} : Stage(o, c)
  \/ InstallUnit(o)
  \/ Probe(o) \/ Mkfs(o) \/ Mount(o) \/ DisksChecked(o)
  \/ Push(o) \/ Verify(o) \/ Check(o) \/ SwapOne(o)
  \/ \E k \in Keys : CheckKey(o, k)
  \/ CatchUp(o) \/ Finish(o)

OnBuilder == BuilderNext /\ UNCHANGED <<hostVars, intent, report>>

Work(o) == HostWork(o) \/ ((BuilderWork(o) \/ Built(o)) /\ UNCHANGED <<hostVars, intent, report>>)

Next ==
  \/ OnBuilder
  \/ \E o \in Provisioners :
       \/ \E v \in Versions, ack \in SUBSET Blocks, confirm \in BOOLEAN :
            Request(o, v, ack, confirm)
       \/ HostWork(o)
  \/ \E o \in Operators : OperatorDies(o)
  \/ Launch \/ ProcessDies
  \/ \E k \in Keys : PlaceKey(k)
  \/ \E d \in Blocks : DropFormat(d)

Spec == Init /\ [][Next]_vars

\* Every command returns, systemd launches what is started before the half
\* hour of the catch-up wait is over, and the operator does as the reports
\* say: places the keys and runs provision again, the devices acknowledged.
Reruns(o, v) ==
  /\ \A k \in Keys : WF_vars(PlaceKey(k))
  /\ SF_vars(Request(o, v, Blocks, TRUE))

RetrySpec ==
  /\ Spec
  /\ \A o \in Operators : WF_vars(Work(o))
  /\ SF_vars(Launch)
  /\ \E o \in Provisioners, v \in Versions : Reruns(o, v)
-----------------------------------------------------------------------------
(* Properties. *)

Report == [succeeded : BOOLEAN, version : Versions, sum : [Parts -> Content \cup {None}],
           cold : BOOLEAN]

Step == [do : Compiling \cup {"push", "verify", "swap", "collect"}, part : Parts]
   \cup [do : {"probe", "mkfs"}, part : Blocks] \cup [do : {"mount"}, part : Range(Disks)]
   \cup [do : {"disks", "cached", "check", "catchup", "finish", "bootstrap"}
               \cup Stages \cup Keys, part : {"binary"}]

Builds == [kind : {"build", "bootstrap"}, version : Versions, ref : Refs \cup {None},
           plan : Seq(Step), ok : BOOLEAN, sum : [Parts -> Content \cup {None}],
           cached : BOOLEAN, alone : BOOLEAN]
Runs == [kind : {"provision"}, version : Versions, ref : Refs \cup {None},
         plan : Seq(Step), ok : BOOLEAN, sum : [Parts -> Content \cup {None}],
         cached : BOOLEAN, alone : BOOLEAN,
         ack : SUBSET Blocks, format : SUBSET Blocks, disks_ok : BOOLEAN, dist_ok : BOOLEAN,
         blind : SUBSET Blocks, cold : BOOLEAN]

\* Every variable keeps its type.
TypeOK ==
  /\ BuilderTypeOK
  /\ format \in SUBSET Blocks
  /\ device \in [Blocks -> {"blank", "fs", "data"}]
  /\ prepared \in SUBSET Range(Disks)
  /\ done \in SUBSET Stages
  /\ keys \in SUBSET Keys
  /\ file \in [Files -> Content \cup {None}]
  /\ staged \in [Files -> Content \cup {None}]
  /\ image = None \/ image \in [Files -> Content]
  /\ report = None \/ report \in Report
  /\ DOMAIN job = Operators
  /\ \A o \in Provisioners : job[o] \in Runs \cup {None}
  /\ \A o \in Upgraders : job[o] \in Builds \cup {None}
  /\ \A o \in Operators : job[o] # None => job[o].plan # <<>>
  /\ faults \in 0..MaxFaults

\* provision.py:349 `succeeded`: while one operator provisions the host and
\* others use the builder, whatever fails, a run that reports success leaves
\* every stage done, though unit's own result hides a failure, and installed
\* the very files the builder had when their checksums were taken; if the
\* unit was not running before, they are whole and are what runs.
SuccessMeansServing ==
  (report # None /\ report.succeeded) =>
    /\ done = Stages
    /\ Range(Disks) \subseteq prepared
    /\ keys = Keys
    /\ \A f \in Files : file[f] = report.sum[f]
    /\ report.cold => Whole(file) /\ image \in {None, file}

\* provision.py:5 "verifies the operator has placed the identity file and
\* refuses to start without it"; the same for a voting node's vote key, and
\* for its disks: no run, also none that follows runs which were cut short,
\* starts a node that would write its ledger beside them.
NotStartedUnprepared == "start" \in done => keys = Keys /\ Range(Disks) \subseteq prepared

\* provision.py:6 "Disk formatting is refused unless the device is empty AND
\* the operator explicitly acknowledges that device": data is lost only on a
\* device that fleet.yaml says to format, that this run acknowledged and
\* whose probe failed in this run; never on a rerun that could see.
DataLostOnlyBlind ==
  [][\A d \in Blocks : (device[d] = "data" /\ device'[d] # "data") =>
       \E o \in Provisioners :
         /\ At(o, "mkfs") /\ Head(job[o].plan).part = d
         /\ d \in job[o].format \cap job[o].ack \cap job[o].blind]_vars

\* Some device is to be formatted that is not blank, or is blank and is not.
FormatDisagrees == \E d \in Blocks : d \in format <=> device[d] # "blank"

\* Part of a file under its final name in the cache, which `test -f` takes
\* for a finished build.
Poisoned == \E v \in Versions, p \in Parts : out[v][p] = Bad

\* Every stage is done and a process runs from whole files.
Serving ==
  /\ done = Stages /\ keys = Keys
  /\ Range(Disks) \subseteq prepared
  /\ image # None /\ Whole(image)

\* provision.py:3 "Staged and idempotent": whatever fails, an operator who
\* places the keys and runs provision again gets the host to serve for good,
\* unless the builder has no toolchain or is never left alone, its cache was
\* poisoned, or `format` still disagrees with what is on a device, as after
\* every run that stopped between mkfs and its end.
RerunsComplete ==
  \/ <>[]Serving
  \/ <>[]~toolchain
  \/ []<>(\E o \in Upgraders : job[o] # None)
  \/ <>[]Poisoned
  \/ <>[]FormatDisagrees
=============================================================================
