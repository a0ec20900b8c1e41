----------------------------- MODULE MCCmdQueue -----------------------------
(***************************************************************************)
(* The two queueing components of the backend in one run: a behaviour      *)
(* offers one workload to the command queue or drives the frontend         *)
(* arbiter; the other component rests in its initial state.                *)
(***************************************************************************)
EXTENDS CmdQueue, FeArbiterFair, TLC

E(n, id, op, qos, word, strb, excl, pre) ==
  [n |-> n, port |-> 0, id |-> id, op |-> op, qos |-> qos, word |-> word,
   strb |-> strb, excl |-> excl, pre |-> pre]

(* One ID's writes in two QoS classes and on two words, overlapping lanes, *)
(* one exclusive.                                                          *)
MergeCmd == {
  E(1, 1, "WR", 0, 1, {1},    FALSE, FALSE),
  E(2, 1, "WR", 1, 1, {1, 2}, FALSE, FALSE),
  E(3, 1, "WR", 0, 1, {2},    FALSE, FALSE),
  E(4, 1, "WR", 0, 2, {1},    FALSE, FALSE),
  E(5, 1, "WR", 1, 1, {2},    TRUE,  FALSE)}

(* One ID waits behind a pre-resolved entry and across all three classes,  *)
(* another asks for a class above the range.                               *)
AgeCmd == {
  E(6, 1, "RD", 0, 1, {}, FALSE, FALSE),
  E(7, 1, "RD", 2, 1, {}, FALSE, FALSE),
  E(8, 1, "RD", 1, 1, {}, FALSE, TRUE),
  E(9, 2, "RD", 7, 1, {}, FALSE, FALSE)}

AllCmd == MergeCmd \cup AgeCmd

(* Three ports: one of three grants a turn, one whose weight is clamped.   *)
Weights == 0 :> 3 @@ 1 :> 0 @@ 2 :> 2

VARIABLE offered   (* the workload of this behaviour, {} for the arbiter's *)

AnyInit ==
  /\ QueueInit /\ ArbiterInit
  /\ offered \in {MergeCmd, AgeCmd, {}}

(* No time passes in the merging workload.                                 *)
OfferedNext ==
  /\ QueueNext
  /\ \A c \in Cmd \ offered : arrival'[c] = 0
  /\ offered = MergeCmd => UNCHANGED waited

AnyNext ==
  \/ offered # {} /\ OfferedNext /\ UNCHANGED <<offered, arbiterVars>>
  \/ offered = {} /\ ArbiterNext /\ UNCHANGED <<offered, queueState>>

AnySpec == AnyInit /\ [][AnyNext]_<<queueState, offered, arbiterVars>>
=============================================================================
