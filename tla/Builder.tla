------------------------------- MODULE Builder -------------------------------
(***************************************************************************)
(* The build host of a cluster (builder.py): build_artifacts, which serves *)
(* a version's artifact set from the cache or builds it in the checkouts   *)
(* all builds share, and bootstrap_builder, which installs the toolchain.  *)
(*                                                                         *)
(* A build is the first part of an operation's plan, one step per command. *)
(* The content of a binary is the version its tree was at when it was      *)
(* compiled, that of the geyser plugin the ref.  "binary" stands for all   *)
(* AGAVE_BINS.  Operations that only build are upgrades of nodes this      *)
(* model leaves out.                                                       *)
(***************************************************************************)
EXTENDS Commands, Safety

CONSTANTS
  Versions,     \* the versions there are tags of
  Refs,         \* the refs of the geyser repository
  DefaultHead,  \* what a fresh clone has checked out
  GeyserRepo,   \* whether install.geyser_repo is set
  Upgraders,    \* the operators whose operations on this builder only build
  Bad           \* the content of a file that was copied in part

Content == Versions \cup Refs \cup {DefaultHead, Bad}
Parts == IF GeyserRepo THEN {"binary", "geyser"} ELSE {"binary"}

ASSUME BuilderAssumption ==
  /\ GeyserRepo \in BOOLEAN
  /\ {None, Bad, DefaultHead} \cap (Versions \cup Refs) = {}
  /\ None # Bad /\ None # DefaultHead /\ Bad # DefaultHead

VARIABLES
  toolchain,  \* whether cargo and the libraries a build needs are there
  pin,        \* install.geyser_ref in fleet.yaml, None when it is unset
  tree,       \* tree[p]: what the checkout <cache>/src/... is at, None before the clone
  install,    \* install[v]: the binary in <cache>/<v>/install/bin
  target,     \* the plugin in the geyser checkout's target/release
  out         \* out[v][p]: the artifact <cache>/<v>/..., None if there is no such file

builderVars == <<toolchain, pin, tree, install, target, out>>

BuilderInit ==
  /\ toolchain \in BOOLEAN
  /\ pin \in Refs \cup {None}
  /\ tree = [p \in Parts |-> None]
  /\ install = [v \in Versions |-> None]
  /\ target = None
  /\ out = [v \in Versions |-> [p \in Parts |-> None]]
-----------------------------------------------------------------------------
(* Plans. *)

Geyser(c) == [do |-> c, part |-> "geyser"]
Artifacts == IF GeyserRepo THEN <<"binary", "geyser">> ELSE <<"binary">>

\* Slip: the plugin is built from wherever its checkout is.
MutNoGeyserCheckout(ref) ==
  <<Do("fetch"), Do("checkout"), Do("compile"), Do("copy")>>
  \o (IF GeyserRepo THEN <<Geyser("fetch"), Geyser("compile"), Geyser("copy")>> ELSE <<>>)

\* build_commands; without a geyser_ref the checkout stays where it is.
BuildCommands(ref) ==
  <<Do("fetch"), Do("checkout"), Do("compile"), Do("copy")>>
  \o (IF GeyserRepo
      THEN <<Geyser("fetch")>>
           \o (IF ref # None THEN <<Geyser("checkout")>> ELSE <<>>)
           \o <<Geyser("compile"), Geyser("copy")>>
      ELSE <<>>)

BuildPlan(ref, force) ==
  (IF force THEN <<>> ELSE <<Do("cached")>>) \o BuildCommands(ref) \o ForEach("collect", Artifacts)

Compiling == {"fetch", "checkout", "compile", "copy"}

\* The operation still has something to do on the builder.
Building(o) ==
  /\ job[o] # None
  /\ \E i \in DOMAIN job[o].plan : job[o].plan[i].do \in Compiling \cup {"collect"}

NoSums == [p \in Parts |-> None]

\* ok     every result collected so far is good
\* sum    the sha256 of each artifact, None when it could not be read
\* cached BuildResult.cached
\* alone  (history) no other operation was on the builder in the meantime
BuildJob(kind, v, plan) ==
  [kind |-> kind, version |-> v, ref |-> pin, plan |-> plan, ok |-> TRUE,
   sum |-> NoSums, cached |-> FALSE, alone |-> TRUE]

\* Operator o begins operation j.
Begin(o, j) ==
  job' = [x \in DOMAIN job |->
            IF x = o THEN [j EXCEPT !.alone = \A y \in DOMAIN job : ~Building(y)]
            ELSE IF job[x] = None THEN None
            ELSE [job[x] EXCEPT !.alone = @ /\ ~Building(x)]]

\* A failed command ends the build, and with it the operation.
GiveUp(o) == job' = [job EXCEPT ![o].plan = <<Do("finish")>>, ![o].ok = FALSE]

Continue(o, ok) == IF ok THEN Proceed(o, TRUE) ELSE GiveUp(o)
-----------------------------------------------------------------------------
(* Commands. *)

\* An upgrade of some other node reaches its build.
RequestBuild(o, v, force) ==
  /\ job[o] = None
  /\ Begin(o, BuildJob("build", v, BuildPlan(pin, force) \o <<Do("finish")>>))
  /\ UNCHANGED <<builderVars, faults>>

\* bootstrap_builder, gated on the builder being reachable.
RequestBootstrap(o, v, confirm) ==
  /\ job[o] = None
  /\ \E reachable \in BOOLEAN :
       /\ Outcome(reachable, TRUE)
       /\ IF Executes(Gate(confirm, {reachable}))
          THEN Begin(o, BuildJob("bootstrap", v, <<Do("bootstrap"), Do("finish")>>))
          ELSE UNCHANGED job
  /\ UNCHANGED builderVars

\* One script under set -e.
Bootstrap(o) ==
  /\ At(o, "bootstrap")
  /\ \E ok, done \in BOOLEAN :
       /\ Outcome(ok, TRUE) /\ Effect(ok, TRUE, done)
       /\ toolchain' = (toolchain \/ done)
       /\ Proceed(o, ok)
  /\ UNCHANGED <<pin, tree, install, target, out>>

\* _is_cached: `test -f` of every artifact, whatever is in it.
Cached(o) ==
  LET there == \A p \in Parts : out[job[o].version][p] # None IN
  /\ At(o, "cached")
  /\ \E hit \in BOOLEAN :
       /\ Outcome(hit, there)
       /\ job' = [job EXCEPT ![o].cached = hit,
                             ![o].plan = IF hit
                                         THEN Skip(Tail(@), Compiling)
                                         ELSE Tail(@)]
  /\ UNCHANGED builderVars

\* git clone, if there is no checkout, and git fetch.
Fetch(o) ==
  LET p == Head(job[o].plan).part IN
  /\ At(o, "fetch")
  /\ \E ok, done \in BOOLEAN :
       /\ Outcome(ok, TRUE) /\ Effect(ok, TRUE, done)
       /\ tree' = IF done /\ tree[p] = None THEN [tree EXCEPT ![p] = DefaultHead] ELSE tree
       /\ Continue(o, ok)
  /\ UNCHANGED <<toolchain, pin, install, target, out>>

\* What the operator asked for.
Asked(j, p) == IF p = "binary" THEN j.version ELSE j.ref

Checkout(o) ==
  LET p == Head(job[o].plan).part IN
  /\ At(o, "checkout")
  /\ \E ok, done \in BOOLEAN :
       /\ Outcome(ok, TRUE) /\ Effect(ok, TRUE, done)
       /\ tree' = IF done THEN [tree EXCEPT ![p] = Asked(job[o], p)] ELSE tree
       /\ Continue(o, ok)
  /\ UNCHANGED <<toolchain, pin, install, target, out>>

\* cargo compiles the tree as it is then.
Compile(o) ==
  LET p == Head(job[o].plan).part IN
  /\ At(o, "compile")
  /\ \E ok, done \in BOOLEAN :
       /\ Outcome(ok, toolchain) /\ Effect(ok, toolchain, done)
       /\ install' = IF done /\ p = "binary"
                     THEN [install EXCEPT ![job[o].version] = tree[p]] ELSE install
       /\ target' = IF done /\ p = "geyser" THEN tree[p] ELSE target
       /\ Continue(o, ok)
  /\ UNCHANGED <<toolchain, pin, tree, out>>

Compiled(v, p) == IF p = "binary" THEN install[v] ELSE target

\* cp into the cache, under the final name; interrupted, it leaves part of
\* the file there.
Copy(o) ==
  LET p == Head(job[o].plan).part
      v == job[o].version
  IN
  /\ At(o, "copy")
  /\ \E ok \in BOOLEAN, content \in Content \cup {None} :
       /\ Outcome(ok, TRUE)
       /\ content \in IF ok THEN {Compiled(v, p)} ELSE {Compiled(v, p), Bad, out[v][p]}
       /\ out' = [out EXCEPT ![v][p] = content]
       /\ Continue(o, ok)
  /\ UNCHANGED <<toolchain, pin, tree, install, target>>

\* _collect: sha256sum of an artifact; failing, it leaves no checksum, and
\* the build still counts as good.
Collect(o) ==
  LET p == Head(job[o].plan).part IN
  /\ At(o, "collect")
  /\ \E ok \in BOOLEAN :
       /\ Outcome(ok, TRUE)
       /\ job' = [job EXCEPT ![o].plan = Tail(@),
                             ![o].sum[p] = IF ok THEN out[job[o].version][p] ELSE None]
  /\ UNCHANGED builderVars

\* The operation that only builds is over, for this model.
Built(o) ==
  /\ o \in Upgraders /\ At(o, "finish")
  /\ job' = [job EXCEPT ![o] = None]
  /\ UNCHANGED <<builderVars, faults>>

\* The operator picks another geyser_ref, or none.
EditPin ==
  /\ pin' \in Refs \cup {None}
  /\ UNCHANGED <<toolchain, tree, install, target, out, job, faults>>
-----------------------------------------------------------------------------
BuilderWork(o) ==
  \/ Bootstrap(o) \/ Cached(o) \/ Fetch(o) \/ Checkout(o)
  \/ Compile(o) \/ Copy(o) \/ Collect(o)

BuilderNext ==
  \/ \E o \in Upgraders :
       \/ \E v \in Versions, force \in BOOLEAN : RequestBuild(o, v, force)
       \/ \E v \in Versions, confirm \in BOOLEAN : RequestBootstrap(o, v, confirm)
       \/ Built(o)
  \/ \E o \in DOMAIN job : BuilderWork(o)
  \/ EditPin
-----------------------------------------------------------------------------
(* Properties. *)

\* Every variable of the builder keeps its type.
BuilderTypeOK ==
  /\ toolchain \in BOOLEAN
  /\ pin \in Refs \cup {None}
  /\ tree \in [Parts -> Content \cup {None}]
  /\ install \in [Versions -> Content \cup {None}]
  /\ target \in Content \cup {None}
  /\ out \in [Versions -> [Parts -> Content \cup {None}]]

\* Without a geyser_ref any ref will do, but not part of a file.
AsAsked(j, p) ==
  IF Asked(j, p) = None THEN Refs \cup {DefaultHead} ELSE {Asked(j, p)}

\* builder.py:10 "we build it from the exact ref the operator pins": the
\* checksums of a set that was built, not served from the cache, are those
\* of the version and the ref asked for, whichever command fails, whatever
\* earlier builds left behind and whenever the pin is edited, unless another
\* operation was on the builder at the same time.
FreshBuildIsAsPinned ==
  \A o \in DOMAIN job : (job[o] # None /\ ~job[o].cached /\ job[o].alone) =>
    \A p \in Parts : job[o].sum[p] \in {None} \cup AsAsked(job[o], p)
=============================================================================
