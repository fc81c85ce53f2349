----------------------------- MODULE OwnedNodes -----------------------------
(***************************************************************************)
(* What solfleet promises about the nodes of a fleet, whoever runs it and  *)
(* whatever fails.  An operation that is on a node by itself owns it: it   *)
(* puts nothing there but files of its target version, and settles the     *)
(* node only when it is that version that is installed and launched.  A    *)
(* settled node is left as it is until an operation takes it on again.     *)
(* Of a node that several operations are on at once nothing is promised.   *)
(***************************************************************************)

CONSTANTS
  Nodes,
  Versions,
  Content,   \* what a file may hold
  None

VARIABLES
  file,      \* file[n][f]: the installed file
  image,     \* image[n]: the files the running process was launched from, or None
  wanted,    \* the nodes that are to run
  status     \* status[n]: who has the node, and for what target

vars == <<file, image, wanted, status>>

\* A restart has no target version.
Free == [is |-> "free", target |-> None]
Owned(target) == [is |-> "owned", target |-> target]
Contended == [is |-> "contended", target |-> None]
Settled(target) == [is |-> "settled", target |-> target]

InHand(n) == status[n].is \in {"owned", "contended"}

\* Up on what is installed, which is the target's if there is one.
AsSettled(n, target) ==
  /\ n \in wanted /\ image[n] \in {None, file[n]}
  /\ target # None => \A f \in DOMAIN file[n] : file[n][f] = target

Init ==
  /\ image = file /\ wanted = Nodes
  /\ status = [n \in Nodes |-> Free]

Become(n, s) ==
  /\ status' = [status EXCEPT ![n] = s]
  /\ UNCHANGED <<file, image, wanted>>

Take(n) == ~InHand(n) /\ \E target \in Versions \cup {None} : Become(n, Owned(target))
Clash(n) == status[n].is = "owned" /\ Become(n, Contended)
Release(n) == InHand(n) /\ Become(n, Free)

Settle(n) ==
  /\ status[n].is = "owned" /\ AsSettled(n, status[n].target)
  /\ Become(n, Settled(status[n].target))

Put(n, f, content) ==
  /\ file' = [file EXCEPT ![n][f] = content]
  /\ UNCHANGED <<image, wanted, status>>

Install(n) ==
  /\ status[n].is = "owned" /\ status[n].target # None
  /\ \E f \in DOMAIN file[n] : Put(n, f, status[n].target)

Spoil(n) ==
  /\ status[n].is = "contended"
  /\ \E f \in DOMAIN file[n], content \in Content : Put(n, f, content)

Start(n) ==
  /\ InHand(n) /\ wanted' = wanted \cup {n}
  /\ UNCHANGED <<file, image, status>>

Stop(n) ==
  /\ InHand(n) /\ wanted' = wanted \ {n} /\ image' = [image EXCEPT ![n] = None]
  /\ UNCHANGED <<file, status>>

Launch(n) ==
  /\ n \in wanted /\ image[n] = None /\ image' = [image EXCEPT ![n] = file[n]]
  /\ UNCHANGED <<file, wanted, status>>

Dies(n) ==
  /\ image[n] # None /\ image' = [image EXCEPT ![n] = None]
  /\ UNCHANGED <<file, wanted, status>>

Next ==
  \E n \in Nodes :
    \/ Take(n) \/ Clash(n) \/ Release(n) \/ Settle(n)
    \/ Install(n) \/ Spoil(n)
    \/ Start(n) \/ Stop(n) \/ Launch(n) \/ Dies(n)

Spec == Init /\ [][Next]_vars
=============================================================================
