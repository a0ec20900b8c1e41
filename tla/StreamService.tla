--------------------------- MODULE StreamService ---------------------------
(***************************************************************************)
(* What the controller promises a port: the entries of one stream (same    *)
(* port, same ID, same direction) are served in the order in which they    *)
(* were accepted, each at most once.  Streams are independent of one       *)
(* another.  A reset drops whatever is pending.                            *)
(***************************************************************************)
EXTENDS Naturals

CONSTANTS Cmd, stream_key(_)

VARIABLES
  pending,    (* accepted and not yet served *)
  arrival,    (* the rank of an entry's acceptance, 0 = not yet accepted *)
  arrivals    (* how many entries were accepted *)

vars == <<pending, arrival, arrivals>>

Init ==
  /\ pending = {}
  /\ arrival = [c \in Cmd |-> 0]
  /\ arrivals = 0

Accept(c) ==
  /\ arrival[c] = 0
  /\ arrivals' = arrivals + 1
  /\ arrival' = [arrival EXCEPT ![c] = arrivals + 1]
  /\ pending' = pending \cup {c}

(* The oldest entries of one stream are served together: a write and the   *)
(* writes that were merged into it.                                        *)
Serve(S) ==
  /\ S # {} /\ S \subseteq pending
  /\ \A c, d \in S : stream_key(c) = stream_key(d)
  /\ \A c \in S : \A d \in pending \ S :
       stream_key(c) = stream_key(d) => arrival[c] < arrival[d]
  /\ pending' = pending \ S
  /\ UNCHANGED <<arrival, arrivals>>

Drop ==
  /\ pending' = {}
  /\ UNCHANGED <<arrival, arrivals>>

Next ==
  \/ \E c \in Cmd : Accept(c)
  \/ \E S \in SUBSET pending : Serve(S)
  \/ Drop

Spec == Init /\ [][Next]_vars
=============================================================================
