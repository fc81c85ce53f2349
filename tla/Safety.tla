------------------------------- MODULE Safety -------------------------------
(***************************************************************************)
(* The gate of safety.py: the one decision every gated mutation passes     *)
(* through.  A check is the Boolean its (passed, message) pair carries;    *)
(* the messages and the plan's wording are left out.                       *)
(***************************************************************************)

\* gate(): every check is evaluated in both modes, the mode alone comes
\* from confirm.
Gate(confirm, checks) ==
  [mode    |-> IF confirm THEN "execute" ELSE "dry-run",
   allowed |-> FALSE \notin checks]

\* "a caller executes only when mode == execute and allowed is True"
Executes(decision) == decision.mode = "execute" /\ decision.allowed
=============================================================================
