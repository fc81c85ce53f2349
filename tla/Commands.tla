------------------------------ MODULE Commands ------------------------------
(***************************************************************************)
(* What every operation over SSH is made of (executor.py): a plan, the     *)
(* remote commands it sends one after the other.  Each command is a step   *)
(* of its own and may fail, with or without having had its effect.         *)
(***************************************************************************)
EXTENDS Naturals, Sequences

CONSTANTS
  MaxFaults,   \* how many commands may fail and processes may die
  None

VARIABLES
  job,      \* job[o]: the operation of operator o, or None
  faults    \* failures so far

Do(c) == [do |-> c, part |-> "binary"]
ForEach(c, parts) == [i \in 1..Len(parts) |-> [do |-> c, part |-> parts[i]]]

\* A command that can succeed may also fail, as long as there are faults
\* left; one that cannot, fails.
Outcome(ok, possible) ==
  \/ ok /\ possible /\ UNCHANGED faults
  \/ ~ok /\ ~possible /\ UNCHANGED faults
  \/ ~ok /\ faults < MaxFaults /\ faults' = faults + 1

\* Whether the command had its effect, given the result that was seen.
Effect(ok, possible, effect) == (ok => effect) /\ (effect => possible)

At(o, do) == job[o] # None /\ Head(job[o].plan).do = do

\* The operation goes on with the next command of its plan.
Proceed(o, ok) ==
  job' = [job EXCEPT ![o].plan = Tail(@), ![o].ok = @ /\ ok]

\* The plan from its first command that is none of cmds.
Skip(plan, cmds) ==
  LET next == CHOOSE i \in DOMAIN plan :
                plan[i].do \notin cmds /\ \A k \in 1..i-1 : plan[k].do \in cmds
  IN SubSeq(plan, next, Len(plan))

\* The plan without the rest of the `mv && mv` command line.
SkipSwaps(plan) == Skip(plan, {"swap"})
=============================================================================
