----------------------------- MODULE FeArbiter ------------------------------
(***************************************************************************)
(* The backend's frontend arbiter: one FIFO of submitted entries per port  *)
(* and a weighted round-robin pointer that decides which port's oldest     *)
(* entry is admitted next.  The pointer skips empty ports, and a port that *)
(* is granted out of turn takes the pointer with it.                       *)
(***************************************************************************)
EXTENDS Integers, Sequences

CONSTANTS
  NPorts,       (* number of frontends *)
  ArbWeight     (* ports[p].arb_weight *)

Port == 0 .. NPorts - 1

ASSUME ArbAssumption ==
  NPorts \in Nat \ {0} /\ ArbWeight \in [Port -> Int]

VARIABLES
  fe_fifo,                       (* fe_fifo[p]: submitted, not yet admitted *)
  next_fe_port_rr,
  current_fe_port_grants_left

arbVars == <<fe_fifo, next_fe_port_rr, current_fe_port_grants_left>>

get_port_weight(p) == IF ArbWeight[p] < 1 THEN 1 ELSE ArbWeight[p]

Waiting == {p \in Port : fe_fifo[p] # <<>>}

(* Ports are scanned upwards from the pointer.                             *)
Offset(p) == (p - next_fe_port_rr) % NPorts

FirstWaiting(p) ==
  p \in Waiting /\ \A q \in Waiting : Offset(p) <= Offset(q)

(* Mutant: the pointer stays on a port whose grants are used up.           *)
update_fe_rr_no_advance(p) ==
  LET weight == get_port_weight(p)
      left == IF p # next_fe_port_rr \/ current_fe_port_grants_left <= 0
              THEN weight ELSE current_fe_port_grants_left
  IN /\ current_fe_port_grants_left' = left - 1
     /\ next_fe_port_rr' = p

update_fe_rr_after_grant(p) ==
  LET weight == get_port_weight(p)
      left == IF p # next_fe_port_rr \/ current_fe_port_grants_left <= 0
              THEN weight ELSE current_fe_port_grants_left
  IN /\ current_fe_port_grants_left' = left - 1
     /\ next_fe_port_rr' = IF left - 1 <= 0 THEN (p + 1) % NPorts ELSE p

(* The oldest entry of the first waiting port leaves its FIFO.             *)
grant(p) ==
  /\ FirstWaiting(p)
  /\ fe_fifo' = [fe_fifo EXCEPT ![p] = Tail(@)]
  /\ update_fe_rr_after_grant(p)

submit(p, x) ==
  /\ fe_fifo' = [fe_fifo EXCEPT ![p] = Append(@, x)]
  /\ UNCHANGED <<next_fe_port_rr, current_fe_port_grants_left>>

(* Mutant: what the ports submitted survives the reset.                    *)
flush_fe_keep_fifo ==
  /\ UNCHANGED fe_fifo
  /\ next_fe_port_rr' = 0
  /\ current_fe_port_grants_left' = 0

flush_fe ==
  /\ fe_fifo' = [p \in Port |-> <<>>]
  /\ next_fe_port_rr' = 0
  /\ current_fe_port_grants_left' = 0

ArbInit ==
  /\ fe_fifo = [p \in Port |-> <<>>]
  /\ next_fe_port_rr = 0
  /\ current_fe_port_grants_left = 0
=============================================================================
