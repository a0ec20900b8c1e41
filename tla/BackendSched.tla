---------------------------- MODULE BackendSched ----------------------------
(***************************************************************************)
(* The backend's FR-FCFS scheduler observed from outside: histories count  *)
(* what happens to an entry while it is a candidate and others are picked. *)
(***************************************************************************)
EXTENDS Backend

VARIABLES
  overtaken,    (* history: picks of a younger entry past this candidate *)
  turned_away   (* history: picks against this candidate's bus direction since
                   its direction last had the bus, forced picks left out *)

schedVars == <<vars, overtaken, turned_away>>

SchedInit ==
  /\ Init
  /\ overtaken = [c \in Cmd |-> 0]
  /\ turned_away = [c \in Cmd |-> 0]

(* The entry that a step takes from the class lists for the device.        *)
Picked == IF turn = "wait" THEN {} ELSE queued \ queued'

Overtake ==
  LET passed == {d \in Candidates :
                   \E c \in Picked : admit_order[d] < admit_order[c]}
  IN overtaken' =
       [d \in Cmd |-> IF d \in passed THEN overtaken[d] + 1 ELSE overtaken[d]]

TurnAway ==
  LET issued == {c \in Picked : ~c.pre}
      away == IF issued # {} /\ Starved = {} THEN Candidates ELSE {}
  IN turned_away' =
       [d \in Cmd |-> IF \E c \in issued : c.op = d.op THEN 0
                      ELSE IF d \in away THEN turned_away[d] + 1
                      ELSE turned_away[d]]

SchedNext == Next /\ Overtake /\ TurnAway

SchedSpec == SchedInit /\ [][SchedNext]_schedVars

(* A bounded run of one bus direction: an entry is turned away in favour   *)
(* of the other direction at most rd_wr_grouping_max times before its own  *)
(* direction gets the bus, whatever else becomes ready, is forced or is    *)
(* answered without the bus meanwhile.                                     *)
DirectionTurns ==
  FrFcfsEnable /\ RdWrGroupingEnable /\ RdWrGroupingMax > 0 =>
    \A c \in queued : turned_away[c] <= RdWrGroupingMax

(* What FR-FCFS may do to a waiting command is bounded in both respects:   *)
(* by the starvation cap and by the length of a direction run.             *)
SchedulerBounded == BypassBounded /\ DirectionTurns

(* docs/IMPLEMENTATION_PLAN.md, section 11.1: the starvation cap bounds    *)
(* "each request's reordering to at most `cap` bypasses".                  *)
ReorderingCapped ==
  FrFcfsEnable /\ FrFcfsStarvationCap > 0 =>
    \A c \in queued : overtaken[c] <= FrFcfsStarvationCap
=============================================================================
