----------------------------- MODULE MCProvision -----------------------------
(***************************************************************************)
(* A host with one block device and a tmpfs, for TLC.                      *)
(***************************************************************************)
EXTENDS Provision

CONSTANTS v1, v2, r1, r2, nvme, ram

DisksUsed == <<ram, nvme>>
NoDisks == <<>>
BigEnough == [x86 |-> TRUE, cores |-> 8, ram |-> 8]
=============================================================================
