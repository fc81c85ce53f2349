---------------------------- MODULE OwnedRecords ----------------------------
(***************************************************************************)
(* What solfleet promises about a DNS zone, whoever runs it and whatever   *)
(* fails: it changes only pools that carry its ownership marker, only the  *)
(* addresses of configured members, and one A record at a time.  Records   *)
(* of other people change only by their own hand.                          *)
(***************************************************************************)

CONSTANTS
  Pools,      \* the DNS names solfleet is configured for
  Owned,      \* Owned[p]: the addresses of the members of pool p
  Foreign,    \* addresses that belong to no node of the fleet
  Addresses   \* the addresses a record may hold

VARIABLES
  zone,       \* zone[p]: the A records under the name p
  markers     \* the pools with a TXT marker _solfleet.<p>

vars == <<zone, markers>>

Init ==
  /\ zone \in [Pools -> SUBSET Addresses]
  /\ markers \in SUBSET Pools

Claim(p) ==
  /\ markers' = markers \cup {p}
  /\ UNCHANGED zone

Toggle(p, ip) ==
  /\ zone' = [zone EXCEPT ![p] = IF ip \in @ THEN @ \ {ip} ELSE @ \cup {ip}]
  /\ UNCHANGED markers

Rotate(p) == p \in markers /\ \E ip \in Owned[p] : Toggle(p, ip)

OutsideEdit(p) == \E ip \in Foreign : Toggle(p, ip)

Next == \E p \in Pools : Claim(p) \/ Rotate(p) \/ OutsideEdit(p)

Spec == Init /\ [][Next]_vars
=============================================================================
