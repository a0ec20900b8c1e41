--------------------------- MODULE Axi4Exclusive ---------------------------
(***************************************************************************)
(* The exclusive monitor of Axi4Driver against the writes it watches: a    *)
(* history follows which reservations have since been overwritten by a     *)
(* write that the driver sent to the backend.                              *)
(***************************************************************************)
EXTENDS Axi4Driver

VARIABLE sent_over  (* reservations some write sent since then overlaps *)

exclVars == <<vars, sent_over>>

ExclInit == Init /\ sent_over = {}

Sent == {e \in drv'.req_port \ drv.req_port : e.op = "WR"}
Completed == drv.req_port \ drv'.req_port

(* Reservations of before the step that it did not make anew.              *)
Kept ==
  {r \in drv.exclusive_reservations \cap drv'.exclusive_reservations :
     \A e \in Completed : e.op = "RD" /\ e.excl => ~SameKey(r, e)}

ExclNext ==
  /\ Next
  /\ sent_over' =
       {r \in Kept : r \in sent_over \/ \E e \in Sent : ranges_overlap(r, e)}

ExclSpec == ExclInit /\ [][ExclNext]_exclVars /\ Fairness

(* A reservation never outlives a write to its bytes, of whatever ID, that *)
(* was sent after the reservation was made: the exclusive write that would *)
(* succeed on it is not preceded by such a write in the request stream.    *)
NoneSentOver == sent_over = {}

(* An exclusive write reaches the backend only on a reservation that no    *)
(* other exclusive write used: of the exclusive writes on one pair of ID   *)
(* and address between two exclusive reads, at most one succeeds.          *)
ReservationUsedOnce ==
  \A e \in Sent : e.excl =>
    /\ Reservation(e) \in drv.exclusive_reservations
    /\ Reservation(e) \notin drv'.exclusive_reservations

(* An exclusive write succeeds on a reservation of its own that nothing    *)
(* sent since has touched.                                                 *)
ExclusiveSound == [][NoneSentOver' /\ ReservationUsedOnce]_exclVars
=============================================================================
