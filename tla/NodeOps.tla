------------------------------- MODULE NodeOps -------------------------------
(***************************************************************************)
(* Node operations: restart_node and execute_upgrade (operations.py) over  *)
(* the SSH steps of executor.py.                                           *)
(*                                                                         *)
(* An operator is one process that runs operations one after the other;    *)
(* several may run at once.  An operation is a plan, a sequence of remote  *)
(* commands (Commands); the code collects their results and (but for the   *)
(* build and the checksums) goes on after a failed one.                    *)
(*                                                                         *)
(* The content of a file is the version it was built for, or Bad.  The     *)
(* node's files are the validator binary, which stands for all AGAVE_BINS, *)
(* and, on nodes with a service.geyser_lib, the geyser plugin.             *)
(***************************************************************************)
EXTENDS Commands, FiniteSets, Safety

CONSTANTS
  Nodes,
  GeyserNodes,   \* the nodes with a service.geyser_lib
  GeyserRepo,    \* whether install.geyser_repo is set
  Versions,      \* the versions there are artifacts of
  OldVersion,    \* what the nodes run at first
  Allowed,       \* the versions policy.allowed_versions matches
  StartsWith,    \* StartsWith[r]: the versions that are a prefix of version r
  Operators,
  Kinds,         \* the operations they run: "restart", "upgrade"
  Bad            \* the content of a file that was copied in part

Content == Versions \cup {Bad}
Files(n) == IF n \in GeyserNodes THEN {"binary", "geyser"} ELSE {"binary"}

ASSUME NodeOpsAssumption ==
  /\ GeyserNodes \subseteq Nodes
  /\ GeyserRepo \in BOOLEAN
  /\ OldVersion \in Versions /\ Allowed \subseteq Versions
  /\ StartsWith \in [Versions -> SUBSET Versions]
  /\ Kinds \subseteq {"restart", "upgrade"}
  /\ MaxFaults \in Nat
  /\ None \notin Content /\ Bad \notin Versions

VARIABLES
  validators, \* the nodes with role = "validator"; the others are RPC nodes
  file,      \* file[n][f]: the installed file
  staged,    \* staged[n][f]: the file <dest>.solfleet-new beside it, or None
  marker,    \* marker[n]: the version in service.version_marker
  wanted,    \* the nodes whose systemd unit is started
  image,     \* image[n]: the files the running process was launched from, or None
  leading,   \* the validators in, or about to enter, their leader slots
  report     \* report[n]: the result of the last operation executed, or None

hostVars == <<file, staged, marker, wanted, image>>
vars == <<validators, hostVars, leading, report, job, faults>>
-----------------------------------------------------------------------------
(* Plans. *)

\* The artifact set of a build, in its order.
Artifacts == IF GeyserRepo THEN <<"binary", "geyser">> ELSE <<"binary">>

Distribute == IF GeyserRepo
              THEN <<[do |-> "push", part |-> "binary"], [do |-> "verify", part |-> "binary"],
                     [do |-> "push", part |-> "geyser"], [do |-> "verify", part |-> "geyser"]>>
              ELSE <<Do("push"), Do("verify")>>
Swap == ForEach("swap", Artifacts) \o <<Do("mark")>>

\* What is left once the service was cycled.
Confirm == <<Do("catchup"), Do("finish")>>

RestartPlan(n) ==
  (IF n \in validators THEN <<Do("exit")>> ELSE <<Do("stop"), Do("start")>>) \o Confirm

\* Slip: an RPC node is not stopped before its files are swapped.
MutUpgradePlan(n) ==
  <<Do("build")>> \o Distribute \o <<Do("check")>> \o Swap
  \o <<Do(IF n \in validators THEN "exit" ELSE "start")>> \o Confirm

\* A validator runs on while its files are replaced, an RPC node is down.
UpgradePlan(n) ==
  <<Do("build")>> \o Distribute \o <<Do("check")>>
  \o (IF n \in validators
      THEN Swap \o <<Do("exit")>>
      ELSE <<Do("stop")>> \o Swap \o <<Do("start")>>)
  \o Confirm

PlanOf(kind, n) == IF kind = "restart" THEN RestartPlan(n) ELSE UpgradePlan(n)

Step == [do : {"build", "push", "verify", "check", "stop", "swap", "mark",
               "start", "exit", "catchup", "finish"},
         part : {"binary", "geyser"}]

\* ok      every result collected so far is good
\* alone   (history) no other operation was on the node in the meantime
Job == [kind : {"restart", "upgrade"}, node : Nodes, version : Versions,
        plan : Seq(Step), ok : BOOLEAN, alone : BOOLEAN]

ASSUME IdleAssumption == None \notin Job

Init ==
  /\ validators \in SUBSET Nodes
  /\ file = [n \in Nodes |-> [f \in Files(n) |-> OldVersion]]
  /\ staged = [n \in Nodes |-> [f \in Files(n) |-> None]]
  /\ marker = [n \in Nodes |-> OldVersion]
  /\ wanted = Nodes
  /\ image = file
  /\ leading \in SUBSET validators
  /\ report = [n \in Nodes |-> None]
  /\ job = [o \in Operators |-> None]
  /\ faults = 0
-----------------------------------------------------------------------------
(* The gate. *)

Active(n) == n \in wanted /\ image[n] # None

\* Whether the preflight finds the disks under the floor.  disk_usage lists
\* no percentage when df fails, and disk_free_ok holds of an empty list.
DiskFreeOk(df_ok, free) == df_ok => free

RestartChecks(n, ssh_ok, disk_ok) == {ssh_ok, Active(n), disk_ok}

\* Slip: an upgrade, like a restart, wants the service active.
MutNeedsActive(n, v, ssh_ok, disk_ok) ==
  {(v \in Allowed), ssh_ok, Active(n), disk_ok}

UpgradeChecks(n, v, ssh_ok, disk_ok) ==
  {(v \in Allowed), GeyserRepo => n \in GeyserNodes, ssh_ok, disk_ok}

Checks(kind, n, v, ssh_ok, disk_ok) ==
  IF kind = "restart" THEN RestartChecks(n, ssh_ok, disk_ok) ELSE UpgradeChecks(n, v, ssh_ok, disk_ok)

\* Operator o begins operation j.
Begin(o, j) ==
  LET others == {x \in Operators : job[x] # None /\ job[x].node = j.node} IN
  job' = [x \in Operators |->
            IF x = o THEN [j EXCEPT !.alone = others = {}]
            ELSE IF x \in others THEN [job[x] EXCEPT !.alone = FALSE] ELSE job[x]]

\* inspect_node, the gate and, if it lets the operation pass, its first step.
Request(o, kind, n, v, confirm) ==
  /\ job[o] = None /\ kind \in Kinds
  /\ kind = "restart" => v = OldVersion   \* a restart names no version
  /\ \E ssh_ok, df_ok, free \in BOOLEAN :
       /\ Outcome(ssh_ok /\ df_ok, TRUE)
       /\ IF Executes(Gate(confirm, Checks(kind, n, v, ssh_ok, DiskFreeOk(df_ok, free))))
          THEN /\ Begin(o, [kind |-> kind, node |-> n, version |-> v,
                             plan |-> PlanOf(kind, n), ok |-> TRUE, alone |-> TRUE])
               /\ report' = [report EXCEPT ![n] = None]
          ELSE UNCHANGED <<job, report>>
  /\ UNCHANGED <<hostVars, validators, leading>>
-----------------------------------------------------------------------------
(* Commands.  o is the operator, n its node, v its target version. *)

\* Slip: the node is filed as the version.
MutMisfiled(j, succeeded) ==
  [kind |-> j.kind, version |-> j.node, succeeded |-> succeeded, alone |-> j.alone]

Result(j, succeeded) ==
  [kind |-> j.kind, version |-> j.version, succeeded |-> succeeded, alone |-> j.alone]

Finished(o, succeeded) ==
  /\ report' = [report EXCEPT ![job[o].node] = Result(job[o], succeeded)]
  /\ job' = [job EXCEPT ![o] = None]

\* build_artifacts; a failed build ends the operation.
Build(o) ==
  /\ At(o, "build")
  /\ \E ok \in BOOLEAN :
       /\ Outcome(ok, TRUE)
       /\ IF ok THEN Proceed(o, TRUE) /\ UNCHANGED report ELSE Finished(o, FALSE)
  /\ UNCHANGED <<hostVars, validators, leading>>

\* scp to <dest>.solfleet-new; interrupted, it leaves part of the file.
Push(o) ==
  LET n == job[o].node
      part == Head(job[o].plan).part
  IN
  /\ At(o, "push")
  /\ \E ok \in BOOLEAN, content \in Content \cup {None} :
       /\ Outcome(ok, TRUE)
       /\ content \in IF ok THEN {job[o].version}
                      ELSE {job[o].version, Bad, staged[n][part]}
       /\ staged' = [staged EXCEPT ![n][part] = content]
       /\ Proceed(o, ok)
  /\ UNCHANGED <<file, marker, wanted, image, validators, leading, report>>

\* sha256sum of the staged file against the builder's.
Verify(o) ==
  /\ At(o, "verify")
  /\ \E ok \in BOOLEAN :
       /\ Outcome(ok, staged[job[o].node][Head(job[o].plan).part] = job[o].version)
       /\ Proceed(o, ok)
  /\ UNCHANGED <<hostVars, validators, leading, report>>

\* Slip: the result of the distribution is not looked at.
MutUnchecked(j) == TRUE

\* Nothing is swapped unless every file was pulled, pushed and verified.
Distributed(j) == j.ok

Check(o) ==
  /\ At(o, "check")
  /\ IF Distributed(job[o]) THEN Proceed(o, TRUE) /\ UNCHANGED report ELSE Finished(o, FALSE)
  /\ UNCHANGED <<hostVars, validators, leading, faults>>

Stop(o) ==
  LET n == job[o].node IN
  /\ At(o, "stop")
  /\ \E ok, done \in BOOLEAN :
       /\ Outcome(ok, TRUE) /\ Effect(ok, TRUE, done)
       /\ wanted' = IF done THEN wanted \ {n} ELSE wanted
       /\ image' = IF done THEN [image EXCEPT ![n] = None] ELSE image
       /\ Proceed(o, ok)
  /\ UNCHANGED <<file, staged, marker, validators, leading, report>>

\* One `mv -f` of atomic_swap's command line; && ends it at a failure.
SwapOne(o) ==
  LET n == job[o].node
      part == Head(job[o].plan).part
      possible == staged[n][part] # None
  IN
  /\ At(o, "swap")
  /\ \E ok, done \in BOOLEAN :
       /\ Outcome(ok, possible) /\ Effect(ok, possible, done)
       /\ file' = IF done THEN [file EXCEPT ![n][part] = staged[n][part]] ELSE file
       /\ staged' = IF done THEN [staged EXCEPT ![n][part] = None] ELSE staged
       /\ job' = [job EXCEPT ![o].plan = IF ok THEN Tail(@) ELSE SkipSwaps(@),
                             ![o].ok = @ /\ ok]
  /\ UNCHANGED <<marker, wanted, image, validators, leading, report>>

\* _update_marker, whatever became of the swap; its result is reported but
\* has no part in `succeeded`.
Mark(o) ==
  LET n == job[o].node IN
  /\ At(o, "mark")
  /\ \E ok, done \in BOOLEAN :
       /\ Outcome(ok, TRUE) /\ Effect(ok, TRUE, done)
       /\ marker' = IF done THEN [marker EXCEPT ![n] = job[o].version] ELSE marker
       /\ Proceed(o, TRUE)
  /\ UNCHANGED <<file, staged, wanted, image, validators, leading, report>>

Start(o) ==
  /\ At(o, "start")
  /\ \E ok, done \in BOOLEAN :
       /\ Outcome(ok, TRUE) /\ Effect(ok, TRUE, done)
       /\ wanted' = IF done THEN wanted \cup {job[o].node} ELSE wanted
       /\ Proceed(o, ok)
  /\ UNCHANGED <<file, staged, marker, image, validators, leading, report>>

\* agave-validator exit: it needs a running validator, waits for a gap
\* between leader slots and then ends the process.
SafeExit(o) ==
  LET n == job[o].node
      possible == image[n] # None
  IN
  /\ At(o, "exit") /\ (possible => n \notin leading)
  /\ \E ok, done \in BOOLEAN :
       /\ Outcome(ok, possible) /\ Effect(ok, possible, done)
       /\ image' = IF done THEN [image EXCEPT ![n] = None] ELSE image
       /\ Proceed(o, ok)
  /\ UNCHANGED <<file, staged, marker, wanted, validators, leading, report>>

\* A process whose plugin was built for another version does not catch up.
Matched(files) == \E v \in Versions : \A f \in DOMAIN files : files[f] = v
Healthy(n) == image[n] # None /\ Matched(image[n])

\* Slip: no timeout.
MutWaitsForever(n, caught_up) == caught_up /\ Healthy(n)

\* wait_for_catchup: a sample shows the node healthy, or the timeout passes.
WaitEnds(n, caught_up) == caught_up => Healthy(n)

CatchUp(o) ==
  /\ At(o, "catchup")
  /\ \E caught_up \in BOOLEAN : WaitEnds(job[o].node, caught_up) /\ Proceed(o, caught_up)
  /\ UNCHANGED <<hostVars, validators, leading, report, faults>>

\* The binary on disk reports its version; a target it starts with will do.
VersionMatches(reported, target) ==
  reported # Bad /\ (reported = target \/ target \in StartsWith[reported])

\* Slip: the results of the swap and of the restart have no part in it.
MutReportedOnly(j, version_ok) == j.kind = "upgrade" => version_ok

Succeeded(j, version_ok) == j.ok /\ (j.kind = "upgrade" => version_ok)

Finish(o) ==
  /\ At(o, "finish")
  /\ \E seen \in BOOLEAN :
       /\ Outcome(seen, TRUE)
       /\ Finished(o, Succeeded(job[o],
            seen /\ VersionMatches(file[job[o].node]["binary"], job[o].version)))
  /\ UNCHANGED <<hostVars, validators, leading>>
-----------------------------------------------------------------------------
(* The surroundings. *)

\* systemd launches a started unit whose process is not running
\* (Restart=always); a truncated file does not run.
Launch(n) ==
  /\ n \in wanted /\ image[n] = None
  /\ \A f \in Files(n) : file[n][f] # Bad
  /\ image' = [image EXCEPT ![n] = file[n]]
  /\ UNCHANGED <<file, staged, marker, wanted, validators, leading, report, job, faults>>

ProcessDies(n) ==
  /\ image[n] # None /\ faults < MaxFaults
  /\ image' = [image EXCEPT ![n] = None]
  /\ faults' = faults + 1
  /\ UNCHANGED <<file, staged, marker, wanted, validators, leading, report, job>>

\* The operator's process is killed; nothing it did is undone.
OperatorDies(o) ==
  /\ job[o] # None /\ faults < MaxFaults
  /\ job' = [job EXCEPT ![o] = None]
  /\ faults' = faults + 1
  /\ UNCHANGED <<hostVars, validators, leading, report>>

LeaderSlots ==
  /\ leading' \in SUBSET validators
  /\ UNCHANGED <<validators, hostVars, report, job, faults>>

LeaderSlotsEnd(n) ==
  /\ n \in leading /\ leading' = leading \ {n}
  /\ UNCHANGED <<validators, hostVars, report, job, faults>>
-----------------------------------------------------------------------------
Work(o) ==
  \/ Build(o) \/ Push(o) \/ Verify(o) \/ Check(o)
  \/ Stop(o) \/ SwapOne(o) \/ Mark(o) \/ Start(o) \/ SafeExit(o)
  \/ CatchUp(o) \/ Finish(o)

Next ==
  \/ \E o \in Operators :
       \/ \E kind \in Kinds, n \in Nodes, v \in Versions, confirm \in BOOLEAN :
            Request(o, kind, n, v, confirm)
       \/ Work(o)
       \/ OperatorDies(o)
  \/ \E n \in Nodes : Launch(n) \/ ProcessDies(n)
  \/ LeaderSlots

Spec == Init /\ [][Next]_vars

\* Every command returns (ssh has a connect timeout, systemctl a job timeout,
\* the catch-up wait a deadline), agave-validator exit watches for a leader
\* gap by itself and gaps recur, and systemd launches what is started well
\* before the ten minutes of a catch-up wait are over.
Fairness ==
  /\ \A o \in Operators : WF_vars(Work(o)) /\ SF_vars(SafeExit(o))
  /\ \A n \in Nodes : SF_vars(Launch(n)) /\ WF_vars(LeaderSlotsEnd(n))

FairSpec == Spec /\ Fairness

\* Somebody upgrades a node again until the gate lets it pass.
Retries(n, v) == SF_vars(\E o \in Operators : Request(o, "upgrade", n, v, TRUE))
RetrySpec == FairSpec /\ \A n \in Nodes, v \in Allowed : Retries(n, v)
-----------------------------------------------------------------------------
(* Properties. *)

Report == [kind : {"restart", "upgrade"}, version : Versions, succeeded : BOOLEAN,
           alone : BOOLEAN]

\* Every variable keeps its type.
TypeOK ==
  /\ validators \in SUBSET Nodes
  /\ DOMAIN file = Nodes /\ DOMAIN staged = Nodes /\ DOMAIN image = Nodes
  /\ \A n \in Nodes :
       /\ file[n] \in [Files(n) -> Content]
       /\ staged[n] \in [Files(n) -> Content \cup {None}]
       /\ image[n] = None \/ image[n] \in [Files(n) -> Content]
  /\ marker \in [Nodes -> Versions]
  /\ wanted \in SUBSET Nodes
  /\ leading \in SUBSET validators
  /\ report \in [Nodes -> Report \cup {None}]
  /\ job \in [Operators -> Job \cup {None}]
  /\ faults \in 0..MaxFaults

\* operations.py:421 `succeeded`: whatever fails, a node whose last
\* operation reported success, no other being on the node at the time, is
\* up, all its files are of the target version, and what it runs, if
\* anything, are those files.
SuccessMeansTarget ==
  \A n \in Nodes : (report[n] # None /\ report[n].succeeded /\ report[n].alone) =>
    /\ n \in wanted
    /\ report[n].kind = "upgrade" => \A f \in Files(n) : file[n][f] = report[n].version
    /\ image[n] \in {None, file[n]}

\* README "sha256-checked on the target against the builder before any
\* swap": a file is only ever replaced by an upgrade, and one that had the
\* node to itself replaces it by its own artifact, whatever other upgrades,
\* cut short or not, left staged beside it.
OnlyVerifiedInstalled ==
  [][\A n \in Nodes : \A f \in Files(n) : file'[n][f] # file[n][f] =>
       \E o \in Operators :
         /\ At(o, "swap") /\ job[o].node = n
         /\ job[o].alone => file'[n][f] = job[o].version]_vars

\* The version an operation, or its report, is about; a restart has none.
Target(j) == IF j.kind = "upgrade" THEN j.version ELSE None

On(n) == {o \in Operators : job[o] # None /\ job[o].node = n}

\* Who has a node, from the operations on it and the last report of it.
Status(n) ==
  LET owners == {o \in On(n) : job[o].alone}
      settled == report[n] # None /\ report[n].succeeded /\ report[n].alone
      Is(is, target) == [is |-> is, target |-> target]
  IN CASE owners # {}               -> Is("owned", Target(job[CHOOSE o \in owners : TRUE]))
       [] owners = {} /\ On(n) # {} -> Is("contended", None)
       [] On(n) = {} /\ settled     -> Is("settled", Target(report[n]))
       [] On(n) = {} /\ ~settled    -> Is("free", None)

Owned == INSTANCE OwnedNodes WITH status <- [n \in Nodes |-> Status(n)]

\* An operation that has a node to itself installs only files of its
\* target, settles the node only when all of them are installed and what
\* runs was launched from them, and nobody stops or changes a settled node
\* but a next operation (OwnedNodes), whatever fails and whoever dies.
ImplementsOwnedNodes == Owned!Spec

\* config.py:31 "ABI-locked to the agave version; swapped in lockstep": no
\* process is launched from a binary and a plugin of different versions.
NoMixedLaunch == \A n \in Nodes : image[n] # None => Matched(image[n])

\* policy.example.yaml:15 "never cycle more than one validator at once".
OneValidatorAtATime ==
  \A o1, o2 \in Operators :
    (At(o1, "catchup") /\ At(o2, "catchup") /\ job[o1].node # job[o2].node) =>
      ~({job[o1].node, job[o2].node} \subseteq validators)

\* Every operation ends, whatever fails (the timeout of wait_for_catchup,
\* the leader gaps safe-exit waits for).
OperationEnds == \A o \in Operators : job[o] # None ~> job[o] = None

\* A failed or interrupted upgrade is repaired by upgrading again, also when
\* several operators do at once and spoil each other's staged files: files
\* and marker become and remain the target's and the node runs them
\* (execute_upgrade gates on SSH, not on the service being active).
RetriesRecover ==
  \A n \in Nodes, v \in Allowed :
    /\ <>[](marker[n] = v /\ \A f \in Files(n) : file[n][f] = v)
    /\ []<>(image[n] = file[n])
=============================================================================
