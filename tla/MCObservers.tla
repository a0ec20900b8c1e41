---------------------------- MODULE MCObservers -----------------------------
(* Small workloads for the observers of the testbench.                     *)
EXTENDS Observers, TLC

E(n, port, id, op) ==
  [n |-> n, port |-> port, id |-> id, op |-> op, qos |-> 0, word |-> n,
   strb |-> {}, excl |-> FALSE, pre |-> FALSE]
L(n, port, id, op, resp) ==
  [n |-> n, port |-> port, id |-> id, op |-> op, resp |-> resp]

(* Port 0: two writes and a read of one ID.  Port 1: a write of that ID.   *)
SbCmd == {E(1, 0, 1, "WR"), E(2, 0, 1, "WR"), E(3, 0, 1, "RD"),
          E(4, 1, 1, "WR")}

(* An address outside every region in the stream of the two writes, and    *)
(* an unsupported shape under an ID of its own.                            *)
SbLocal == {L(11, 0, 1, "WR", "DECERR"), L(12, 0, 2, "WR", "SLVERR")}

(* Two writes of one word that may merge, and a read.                      *)
CovCmd == {E(1, 0, 1, "WR"), E(3, 0, 1, "RD"),
           [E(5, 0, 1, "WR") EXCEPT !.word = 1]}

AllCmd == SbCmd \cup CovCmd

(* The coverage collector is there in every test, the scoreboard in some.  *)
MCObsNext ==
  /\ TestNext
  /\ \A c \in Cmd \ (IF enabled THEN SbCmd ELSE CovCmd) : submit_rank'[c] = 0
  /\ ~enabled => rejected' = rejected

MCObsSpec == ObsInit /\ [][MCObsNext]_allVars

(* Commands that differ in number and word only (a workload has its words  *)
(* all apart or all alike) are submitted in order: any other run is one of *)
(* these with the names exchanged.                                         *)
Twins(c, d) == [c EXCEPT !.n = 0, !.word = 0] = [d EXCEPT !.n = 0, !.word = 0]
TwinsInOrder ==
  \A c, d \in IF enabled THEN SbCmd ELSE CovCmd :
    Twins(c, d) /\ c.n < d.n /\ submit_rank[d] # 0 =>
      submit_rank[c] \in 1 .. submit_rank[d]

Weights == 0 :> 1 @@ 1 :> 1
=============================================================================
