-------------------------------- MODULE Probe --------------------------------
(***************************************************************************)
(* The health probe of probe.py and the ejection rule of watch.py.         *)
(*                                                                         *)
(* A node's true condition is a record                                     *)
(*   rpc    what getHealth answers: "ok", "behind" (a JSON-RPC error) or   *)
(*          "silent" (a transport error)                                   *)
(*   slots  whether getVersion and getSlot answer                          *)
(*   lag    reference slot minus node slot, floored at zero                *)
(*   vote   its entry in the reference's getVoteAccounts                   *)
(* What solfleet learns of it is a NodeStatus, in which None is unknown.   *)
(***************************************************************************)
EXTENDS Naturals

CONSTANTS
  None,        \* Python's None
  HasRpc,      \* the nodes with an rpc_url
  Identified   \* the nodes with an identity

\* The reference RPC: all its calls answer, only getSlot does, or none.
ReferenceStates == {"up", "slot_only", "down"}

Condition == [rpc : {"ok", "behind", "silent"}, slots : BOOLEAN,
              lag : Nat, vote : {"current", "delinquent", "absent"}]

NodeStatus == [reachable : BOOLEAN, healthy : BOOLEAN \cup {None},
               slot_lag : Nat \cup {None}, delinquent : BOOLEAN \cup {None}]

\* NodeStatus(...) with the defaults of the dataclass.
NoStatus == [reachable |-> FALSE, healthy |-> None,
             slot_lag |-> None, delinquent |-> None]

\* What getVoteAccounts, read once per cluster before any node is asked,
\* says of node n.
ReferenceSide(n, c, ref) ==
  [NoStatus EXCEPT !.delinquent =
     IF n \in Identified /\ ref = "up" /\ c.vote # "absent"
     THEN c.vote = "delinquent"
     ELSE None]

\* probe_node() over the reference-side status s.  A failing getVersion or
\* getSlot leaves reachable and healthy set and the lag unknown.
ProbeNode(s, n, c, reference_slot) ==
  IF n \notin HasRpc \/ c.rpc = "silent"
  THEN s
  ELSE [s EXCEPT !.reachable = TRUE,
                 !.healthy   = (c.rpc = "ok"),
                 !.slot_lag  = IF c.slots /\ reference_slot THEN c.lag ELSE None]

\* should_eject(): an enabled condition is met.  None compares as "not met".
ShouldEject(s, ew) ==
  \/ ew.unhealthy /\ (~s.reachable \/ s.healthy = FALSE)
  \/ ew.slot_lag # None /\ s.slot_lag # None /\ s.slot_lag > ew.slot_lag
  \/ ew.delinquent /\ s.delinquent = TRUE
=============================================================================
