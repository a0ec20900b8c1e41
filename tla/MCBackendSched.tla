--------------------------- MODULE MCBackendSched ---------------------------
(* Workloads for the backend's scheduler.                                  *)
EXTENDS BackendSched, TLC

E(n, port, id, op, qos, word, pre) ==
  [n |-> n, port |-> port, id |-> id, op |-> op, qos |-> qos, word |-> word,
   strb |-> {}, excl |-> FALSE, pre |-> pre]

(* One port: three reads of their own IDs, two writes of one ID, and a     *)
(* write of another ID that is pre-resolved.                               *)
SchedCmd == {
  E(1, 0, 1, "RD", 0, 1, FALSE),
  E(2, 0, 2, "RD", 0, 1, FALSE),
  E(3, 0, 3, "RD", 0, 1, FALSE),
  E(4, 0, 1, "WR", 0, 1, FALSE),
  E(5, 0, 1, "WR", 0, 1, FALSE),
  E(6, 0, 2, "WR", 0, 1, TRUE)}

(* Port 0: three writes of one stream, of which two may meet in the queue, *)
(* and a pre-resolved one that must wait for them.  Port 1: a read.        *)
OrderCmd == {
  E(4, 0, 1, "WR", 0, 1, FALSE),
  E(5, 0, 1, "WR", 0, 1, FALSE),
  E(7, 0, 1, "WR", 0, 1, FALSE),
  E(8, 0, 1, "WR", 0, 1, TRUE),
  E(9, 1, 1, "RD", 0, 1, FALSE)}

AllCmd == SchedCmd \cup OrderCmd

(* Two reads of one ID and four others.                                    *)
CapCmd == {
  E(1, 0, 1, "RD", 0, 1, FALSE),
  E(2, 0, 1, "RD", 0, 1, FALSE),
  E(3, 0, 2, "RD", 0, 1, FALSE),
  E(4, 0, 3, "RD", 0, 1, FALSE),
  E(5, 0, 4, "RD", 0, 1, FALSE),
  E(6, 0, 5, "RD", 0, 1, FALSE)}

Weights == 0 :> 2 @@ 1 :> 1

CONSTANT Load   (* the workloads *)
Both == {SchedCmd, OrderCmd}
Cap == {CapCmd}
VARIABLE offered   (* the workload of this behaviour *)

(* Commands that differ in their number only, or in their number and an ID *)
(* that nobody shares, are submitted in the order of their numbers: any    *)
(* other run is one of these with the names exchanged.                     *)
Alone(c, w) == \A d \in w : stream_key(d) = stream_key(c) => d = c
Alike(c, d, w) ==
  \/ [c EXCEPT !.n = 0] = [d EXCEPT !.n = 0]
  \/ /\ Alone(c, w) /\ Alone(d, w)
     /\ [c EXCEPT !.n = 0, !.id = 0] = [d EXCEPT !.n = 0, !.id = 0]
Twins ==
  [w \in Load |-> {t \in w \X w : t[1].n < t[2].n /\ Alike(t[1], t[2], w)}]
AlikeInOrder ==
  \A t \in Twins[offered] :
    submit_rank[t[2]] # 0 => submit_rank[t[1]] \in 1 .. submit_rank[t[2]]

LoadInit == SchedInit /\ offered \in Load

(* The scheduler's workloads run without refreshes and resets, the other   *)
(* without the scheduler's histories.                                      *)
LoadNext ==
  /\ IF offered = OrderCmd THEN Next /\ UNCHANGED <<overtaken, turned_away>>
     ELSE SchedNext /\ UNCHANGED <<ref_ctr, epoch>>
  /\ UNCHANGED offered
  /\ submits' # submits =>
       (\A c \in Cmd \ offered : submit_rank'[c] = 0) /\ AlikeInOrder'

LoadSpec == LoadInit /\ [][LoadNext]_<<schedVars, offered>>
=============================================================================
