----------------------------- MODULE MCNodeOps -----------------------------
(***************************************************************************)
(* One or two nodes, an old version and the one they are upgraded to, for  *)
(* TLC.  Neither version is a proper prefix of the other.                  *)
(***************************************************************************)
EXTENDS Validate

CONSTANTS rpc, val, old, new

NoPrefix == [r \in Versions |-> {r}]
=============================================================================
