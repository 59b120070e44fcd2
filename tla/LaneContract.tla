---------------------------- MODULE LaneContract ----------------------------
(***************************************************************************)
(* What the command queue promises to the caller that puts a task in a     *)
(* lane, whatever else happens (limits that change, lanes cleared, a drain *)
(* for restart, a reset): the task is refused at once, or it waits and is  *)
(* either cleared or started once and settled once; and no task of a lane  *)
(* is started while an older one of the same lane still waits.             *)
(***************************************************************************)
EXTENDS Integers

CONSTANTS Lanes, NoLane, MaxEntries

Entries == 1..MaxEntries    \* in order of arrival

VARIABLES
  status,   \* [Entries -> Statuses]
  lane      \* [Entries -> Lanes \cup {NoLane}]

vars == <<status, lane>>

Statuses == {"new", "refused", "waiting", "cleared", "running", "resolved", "rejected"}

Init ==
  /\ status = [e \in Entries |-> "new"]
  /\ lane = [e \in Entries |-> NoLane]

\* What may become of an entry in one step; an entry accepted by an idle lane
\* starts in the step that accepts it.
Moves == { <<"new", "refused">>, <<"new", "waiting">>, <<"new", "running">>,
           <<"waiting", "cleared">>, <<"waiting", "running">>,
           <<"running", "resolved">>, <<"running", "rejected">> }

Accepts(e) == status[e] = "new" /\ status'[e] \in {"waiting", "running"}

\* No entry is started past an older one of its lane that goes on waiting.
InOrder ==
  \A e, f \in Entries :
    (/\ e < f
     /\ lane'[e] = lane'[f]
     /\ status'[e] = "waiting"
     /\ status'[f] = "running") => status[f] = "running"

Step ==
  /\ \A e \in Entries :
       status'[e] = status[e] \/ <<status[e], status'[e]>> \in Moves
  /\ \A e \in Entries :
       IF Accepts(e) THEN lane'[e] \in Lanes ELSE lane'[e] = lane[e]
  /\ InOrder

Spec == Init /\ [][Step]_vars

=============================================================================
