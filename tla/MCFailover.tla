----------------------------- MODULE MCFailover -----------------------------
(***************************************************************************)
(* Small fleets for TLC.  Two RPC nodes in one pool, or three nodes in two *)
(* pools of which the second has a validator without an RPC port.          *)
(***************************************************************************)
EXTENDS Failover, TLC

CONSTANTS a, b, v, ipA, ipB, ipV, ipX, main, aux

Fine    == [rpc |-> "ok", slots |-> TRUE, lag |-> 0, vote |-> "current"]
Behind  == [rpc |-> "behind", slots |-> TRUE, lag |-> 9, vote |-> "current"]
Lagging == [rpc |-> "ok", slots |-> TRUE, lag |-> 9, vote |-> "delinquent"]
Silent  == [rpc |-> "silent", slots |-> FALSE, lag |-> 9, vote |-> "delinquent"]

HostOf == a :> ipA @@ b :> ipB @@ v :> ipV

OnePool   == [p \in {main} |-> {a, b}]
TwoPools  == main :> {a, b} @@ aux :> {b, v}

ByLag == [slot_lag |-> 5, unhealthy |-> TRUE, delinquent |-> FALSE]
ByVote == [slot_lag |-> None, unhealthy |-> FALSE, delinquent |-> TRUE]
LagRule == [p \in {main} |-> ByLag]
TwoRules == main :> ByLag @@ aux :> ByVote

OkOrSilent == {Fine, Silent}
OkOrLagging == {Fine, Lagging}
OkOrBehind == {Fine, Behind}
=============================================================================
