------------------------------ MODULE Schedule ------------------------------
(***************************************************************************)
(* leader_windows (schedule.py): when a validator may be restarted without *)
(* missing a slot it leads.  Two RPC questions, between which slots and an *)
(* epoch may pass, and pure arithmetic.  The answers may lag behind.       *)
(*                                                                         *)
(* Slots are counted from 0.  The float comparisons of the code, SLOT_TIME *)
(* times a number of slots against minutes, are those of whole slots: 150  *)
(* slots are one minute, exactly.                                          *)
(***************************************************************************)
EXTENDS Integers, FiniteSets, Sequences

CONSTANTS
  EpochLen,   \* slotsInEpoch
  Epochs,     \* how many epochs are looked at
  MinWindow,  \* min_window_minutes, in slots
  MaxLag,     \* how far the slot the RPC names may be behind
  None

ASSUME ScheduleAssumption ==
  /\ EpochLen \in Nat \ {0} /\ Epochs \in Nat \ {0}
  /\ MinWindow \in Nat /\ MaxLag \in Nat
  /\ None \notin Nat

Slots == 0 .. EpochLen * Epochs - 1
EpochStart(s) == s - (s % EpochLen)

\* Slip: counted from the slot instead of the start of its epoch.
MutEpochEnd(s) == s + EpochLen

EpochEnd(s) == EpochStart(s) + EpochLen
SlotsOfEpoch(s) == EpochStart(s) .. EpochEnd(s) - 1

VARIABLES
  leads,   \* the slots the validator leads
  slot,    \* the slot the cluster is in
  asked,   \* the answer to getEpochInfo of a call in progress, or None
  view,    \* what the last call returned, or None
  restart  \* the restart in progress and the report it relies on, or None

vars == <<leads, slot, asked, view, restart>>

Init ==
  /\ leads \in SUBSET Slots
  /\ slot = 0
  /\ asked = None /\ view = None
  /\ restart = None
-----------------------------------------------------------------------------
(* The arithmetic. *)

\* The slots of a set in order.
Sorted(S) ==
  CHOOSE q \in [1..Cardinality(S) -> S] :
    \A i, j \in 1..Cardinality(S) : i < j => q[i] < q[j]

\* The run at the end goes on, or the next one begins.
AddSlot(runs, s) ==
  LET n == Len(runs) IN
  IF n > 0 /\ s = runs[n].last + 1
  THEN [runs EXCEPT ![n] = [first |-> @.first, last |-> s]]
  ELSE Append(runs, [first |-> s, last |-> s])

\* The loop of _runs over a sorted sequence: the maximal runs of consecutive
\* slots, by their first and their last slot, after i slots.
RunsUpTo(slots) ==
  LET runs[i \in 0..Len(slots)] ==
        IF i = 0 THEN <<>> ELSE AddSlot(runs[i-1], slots[i])
  IN runs

Runs(slots) == RunsUpTo(slots)[Len(slots)]

\* Slip: the next window begins with the last slot of the run.
MutAfter(run) == run.last

\* Where the cursor goes past a run.
After(run) == run.last + 1

\* The window between two slots, if there is one and it is long enough.
Window(from, to) ==
  IF to - from > 0 /\ to - from >= MinWindow THEN <<[start |-> from, end |-> to]>> ELSE <<>>

AddWindow(acc, run) ==
  [cursor |-> After(run), windows |-> acc.windows \o Window(acc.cursor, run.first)]

\* The loop of _free_windows: the cursor and the windows after k runs.
WindowsUpTo(current, runs) ==
  LET acc[k \in 0..Len(runs)] ==
        IF k = 0 THEN [cursor |-> current, windows |-> <<>>] ELSE AddWindow(acc[k-1], runs[k])
  IN acc

FreeWindows(current, upcoming, epoch_end) ==
  LET runs == Runs(upcoming)
      all == WindowsUpTo(current, runs)[Len(runs)]
  IN all.windows \o Window(all.cursor, epoch_end)

SafeNow(absolute, next) == next = None \/ next - absolute >= MinWindow

\* leader_windows, given both answers; known (history) tells whether the
\* second was a schedule.
LeaderWindows(absolute, indices, known) ==
  LET upcoming == Sorted({s \in {EpochStart(absolute) + i : i \in indices} : s > absolute})
      next == IF upcoming # <<>> THEN Head(upcoming) ELSE None
  IN [current |-> absolute, next |-> next, safe_now |-> SafeNow(absolute, next),
      windows |-> FreeWindows(absolute, upcoming, EpochEnd(absolute)), known |-> known]
-----------------------------------------------------------------------------
AskEpochInfo ==
  /\ asked = None
  /\ asked' \in {s \in Slots : s <= slot /\ slot - s <= MaxLag}
  /\ view' = None
  /\ UNCHANGED <<leads, slot, restart>>

\* Slip: the schedule of the epoch that is current by now.
MutAskedOf(absolute) == slot

\* The slot getLeaderSchedule is asked about.
AskedOf(absolute) == absolute

\* getLeaderSchedule; an answer of null counts as a schedule without this
\* validator.
AskLeaderSchedule ==
  /\ asked # None
  /\ \E known \in BOOLEAN :
       LET start == EpochStart(AskedOf(asked))
           indices == {s - start : s \in leads \cap SlotsOfEpoch(start)}
       IN view' = LeaderWindows(asked, IF known THEN indices ELSE {}, known)
  /\ asked' = None
  /\ UNCHANGED <<leads, slot, restart>>

\* Either question raises.
AskFails ==
  /\ asked # None /\ asked' = None
  /\ UNCHANGED <<leads, slot, view, restart>>

\* The operator restarts the validator inside a window of the report; it is
\* down for min_window_minutes, if that is any time at all.
Restart ==
  /\ view # None /\ restart = None /\ MinWindow > 0
  /\ \E i \in DOMAIN view.windows :
       view.windows[i].start <= slot /\ slot + MinWindow <= view.windows[i].end
  /\ restart' = [until |-> slot + MinWindow, asked |-> view.current, known |-> view.known]
  /\ UNCHANGED <<leads, slot, asked, view>>

SlotPasses ==
  /\ slot + 1 \in Slots
  /\ slot' = slot + 1
  /\ restart' = IF restart # None /\ restart.until = slot' THEN None ELSE restart
  /\ UNCHANGED <<leads, asked, view>>

Next == AskEpochInfo \/ AskLeaderSchedule \/ AskFails \/ Restart \/ SlotPasses

Spec == Init /\ [][Next]_vars
-----------------------------------------------------------------------------
(* Properties. *)

Windows == [start : Slots, end : Slots \cup {EpochLen * Epochs}]

\* Every variable keeps its type.
TypeOK ==
  /\ leads \in SUBSET Slots
  /\ slot \in Slots
  /\ asked \in Slots \cup {None}
  /\ restart # None => restart.until \in Slots \cup {EpochLen * Epochs} /\ slot < restart.until
  /\ view # None =>
       /\ view.current \in Slots /\ view.next \in Slots \cup {None}
       /\ view.safe_now \in BOOLEAN /\ view.known \in BOOLEAN
       /\ view.windows \in Seq(Windows)

\* A gap of the epoch between the slots led after absolute.
IsFree(absolute, w) ==
  LET later == {s \in leads \cap SlotsOfEpoch(absolute) : s > absolute} IN
  /\ w.start < w.end /\ w.end - w.start >= MinWindow
  /\ w.start = absolute \/ w.start - 1 \in later
  /\ w.end = EpochEnd(absolute) \/ w.end \in later
  /\ w.start .. w.end - 1 \cap later = {}

\* schedule.py:4 "reports when the validator next leads and whether a
\* restart can finish before then": whatever slots and epochs pass between
\* the two questions, the windows are all the gaps that are long enough, in
\* order, and safe_now tells whether the first of them begins at once or
\* nothing is led any more in this epoch.
WindowsExact ==
  (view # None /\ view.known) =>
    /\ {view.windows[i] : i \in DOMAIN view.windows} =
         {w \in [start : view.current .. EpochEnd(view.current),
                 end : view.current .. EpochEnd(view.current)] : IsFree(view.current, w)}
    /\ \A i, j \in DOMAIN view.windows : i < j => view.windows[i].end < view.windows[j].start
    /\ view.safe_now <=>
         {s \in leads \cap SlotsOfEpoch(view.current) :
            view.current < s /\ s < view.current + MinWindow} = {}

\* schedule.py:3 "A validator that restarts during its own leader slots
\* skips blocks": restarts inside reported windows, at any time after the
\* report, miss no slot led but the one in which the RPC was asked, unless
\* the schedule was answered with null.
RestartsMissNothing ==
  [][(slot' # slot /\ restart # None /\ restart.known) =>
       slot \notin leads \/ slot = restart.asked]_vars
=============================================================================
