----------------------------- MODULE MCBackend ------------------------------
(* A small workload for the backend.                                       *)
EXTENDS Backend, TLC

E(n, port, id, op, qos, word, pre) ==
  [n |-> n, port |-> port, id |-> id, op |-> op, qos |-> qos, word |-> word,
   strb |-> {}, excl |-> FALSE, pre |-> pre]

(* Port 0: two writes that may merge.  Port 1: a pre-resolved read of the  *)
(* higher class.                                                           *)
LiveCmd == {
  E(1, 0, 1, "WR", 0, 1, FALSE),
  E(2, 0, 1, "WR", 0, 1, FALSE),
  E(3, 1, 1, "RD", 1, 1, TRUE)}

Weights == 0 :> 2 @@ 1 :> 1
=============================================================================
