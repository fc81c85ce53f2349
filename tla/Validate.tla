------------------------------ MODULE Validate ------------------------------
(***************************************************************************)
(* What `solfleet validate` says of a node (validate.py), beside what the  *)
(* operations of NodeOps would say of the same answers.                    *)
(***************************************************************************)
EXTENDS NodeOps

\* What one round of questions to node n may return, of inspect_node and of
\* the probe.  Only a validator may have no rpc_url (None).
Answers(n) ==
  {a \in [ssh_ok : BOOLEAN, version : BOOLEAN, df_ok : BOOLEAN, free : BOOLEAN,
          rpc : {"healthy", "unhealthy", "silent", None}] :
     /\ a.version => a.ssh_ok /\ file[n]["binary"] # Bad
     /\ a.df_ok => a.ssh_ok
     /\ a.rpc = "healthy" => Healthy(n)
     /\ a.rpc = None => n \in validators}

Level(passed, otherwise) == IF passed THEN "pass" ELSE otherwise

\* Slip: a df that printed no percentages is not missed.
MutOnlyFloor(n, a) ==
  {Level(a.ssh_ok, "fail"), Level(a.ssh_ok => Active(n), "warn"),
   Level(a.ssh_ok => a.version, "warn"), Level(DiskFreeOk(a.df_ok, a.free), "warn"),
   Level(a.rpc \in {"healthy", None}, "fail")}

\* _node_checks: the levels, without their names.  That a validator has an
\* identity is enforced when fleet.yaml is loaded.
NodeChecks(n, a) ==
  {Level(a.ssh_ok, "fail")}
  \cup (IF a.ssh_ok
        THEN {Level(Active(n), "warn"), Level(a.version, "warn"), Level(a.df_ok, "fail"),
              Level(DiskFreeOk(a.df_ok, a.free), "warn")}
        ELSE {})
  \cup {Level(a.rpc \in {"healthy", None}, IF a.rpc = "unhealthy" THEN "warn" ELSE "fail")}

Worst(checks) ==
  CASE "fail" \in checks -> "fail"
    [] "fail" \notin checks /\ "warn" \in checks -> "warn"
    [] OTHER -> "pass"
-----------------------------------------------------------------------------
(* Properties. *)

\* validate.py:3 "is the fleet ready": whatever state failed operations left
\* a node in, a node that validates as "pass" is up with its disks measured,
\* and the same answers let a restart through the gate, although
\* disk_free_ok passes a df that says nothing.
PassIsReady ==
  \A n \in Nodes : \A a \in Answers(n) : Worst(NodeChecks(n, a)) = "pass" =>
    /\ Active(n) /\ a.df_ok
    /\ Executes(Gate(TRUE, RestartChecks(n, a.ssh_ok, DiskFreeOk(a.df_ok, a.free))))
=============================================================================
