--------------------------- MODULE FeArbiterFair ---------------------------
(***************************************************************************)
(* The frontend arbiter by itself: ports submit and run empty in any       *)
(* order, and a history counts who overtook whom.                          *)
(***************************************************************************)
EXTENDS FeArbiter

CONSTANTS
  Item,         (* what the ports submit *)
  MaxFifo       (* bound of the model: entries a port keeps submitted *)

ASSUME MaxFifoAssumption == MaxFifo \in Nat

(* grants_seen[p][q] is how often q was granted since p began to wait.       *)
VARIABLE grants_seen

arbiterVars == <<arbVars, grants_seen>>

NoneOvertaken == [q \in Port |-> 0]

ArbiterInit ==
  /\ ArbInit
  /\ grants_seen = [p \in Port |-> NoneOvertaken]

PortSubmit(p) ==
  /\ Len(fe_fifo[p]) < MaxFifo
  /\ \E x \in Item : submit(p, x)
  /\ UNCHANGED grants_seen

Grant(p) ==
  /\ grant(p)
  /\ grants_seen' = [r \in Port |->
       IF r # p /\ r \in Waiting THEN [grants_seen[r] EXCEPT ![p] = @ + 1]
                                 ELSE NoneOvertaken]

Flush == flush_fe /\ grants_seen' = [p \in Port |-> NoneOvertaken]

ArbiterNext ==
  \/ \E p \in Port : PortSubmit(p)
  \/ \E p \in Port : Grant(p)
  \/ Flush

ArbiterSpec == ArbiterInit /\ [][ArbiterNext]_arbiterVars

(* While a port waits, no other port is granted more often than its weight *)
(* allows, whichever ports run empty or fill up meanwhile.                 *)
WeightedTurns ==
  \A p, q \in Port : grants_seen[p][q] <= get_port_weight(q)
=============================================================================
