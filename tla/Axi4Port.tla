------------------------------ MODULE Axi4Port ------------------------------
(***************************************************************************)
(* What an AXI4 port promises of the commands it sends to the backend:     *)
(* for each stream a FIFO, out of which the oldest leaves when its answer  *)
(* is taken.  All streams move at the same clock edge, each of them by at  *)
(* most one command in and one out; a reset empties them.                  *)
(***************************************************************************)
EXTENDS Naturals, Sequences

CONSTANTS
  Stream,
  Num      (* what tells the commands of one stream apart *)

VARIABLE fifo

Init == fifo = [s \in Stream |-> <<>>]

Move(old, new) ==
  \E out \in 0 .. 1 :
    /\ out <= Len(old)
    /\ LET rest == SubSeq(old, out + 1, Len(old))
       IN new = rest \/ \E n \in Num : new = Append(rest, n)

Clock == \A s \in Stream : Move(fifo[s], fifo'[s])

Reset == fifo' = [s \in Stream |-> <<>>]

Spec == Init /\ [][Clock \/ Reset]_fifo
=============================================================================
