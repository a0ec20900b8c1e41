------------------------------ MODULE ChiDriver ------------------------------
(***************************************************************************)
(* The CHI frontend driver (vip_mc_chi_driver), a subordinate node.  What  *)
(* it does at one rising edge is one action, Edge: link sideband and       *)
(* credits first, then the REQ, DAT and RSP flits that arrived, then the   *)
(* credits and flits it sends.  RSP and DAT flits are announced at one     *)
(* edge and sent at the next, each channel with credits of its own.        *)
(*                                                                         *)
(* The peer on the link is external and keeps the protocol: it spends a    *)
(* credit per flit and sends write data for a grant it received.  The      *)
(* backend answers in any order: the outstanding transaction IDs, which    *)
(* are its streams, differ.  Which rows of memory a beat carries is module *)
(* ChiData.                                                                *)
(***************************************************************************)
EXTENDS Integers, Sequences, FiniteSets

CONSTANTS
  Cfg,     (* the configurations of a run, with the requests a peer may send
              in each: [kind, initial_credits, split_write_rsp, ...] *)
  MaxReq   (* bound of the model: requests between two resets *)

Channel == {"req", "rsp", "dat"}

(* What may come on REQ and DAT besides a request.                         *)
None == [op |-> "none"]
Return == [op |-> "return"]
Data == [op |-> "data"]

(* A request: what is asked, whether a read wants a receipt, whether it is *)
(* outside the port's memory, and its beats on DAT.                        *)
Request ==
  [op : {"READ", "READ_SEP", "WRITE", "WRITE_ZERO", "PERSIST", "PERSIST_SEP",
         "ATOMIC", "OTHER"},
   order : BOOLEAN, err : BOOLEAN, beats : Nat \ {0}]

(* peer_credits is how many RSP and DAT flits the peer has room for; with  *)
(* link_drops it may take its link request back and return its credits;    *)
(* max_req may be below MaxReq.                                            *)
ASSUME ChiAssumption ==
  /\ MaxReq \in Nat
  /\ \A c \in Cfg :
       /\ {c.initial_credits, c.peer_credits} \subseteq Nat \ {0}
       /\ c.max_req \in 0 .. MaxReq
       /\ {c.split_write_rsp, c.honor_beat_timing, c.link_drops}
            \subseteq BOOLEAN
       /\ c.kind \subseteq Request

VARIABLES
  drv,    (* the driver's fields and outputs, and what the backend holds *)
  peer    (* the other end: its link request, credits, those it returned, and
             per request what came back and the data it still owes *)

vars == <<drv, peer>>

(* The driver after a reset, under configuration c (chi_cfg and mc_cfg).   *)
Idle(config) ==
  [cfg |-> config,
   txlinkactivereq |-> FALSE, txlinkactiveack |-> FALSE, link_active |-> FALSE,
   grant_pending |-> [c \in Channel |-> 0],
   send_credits |-> [c \in {"rsp", "dat"} |-> 0],
   wr_await_q |-> <<>>, rsp_send_q |-> <<>>, dat_send_q |-> <<>>,
   rsp_announce |-> <<>>, dat_announce |-> <<>>,
   tx_activity_count |-> 0, txsactive |-> FALSE, req_port |-> {}]

PeerIdle ==
  [rxlinkactivereq |-> FALSE, credits |-> [c \in Channel |-> 0],
   returned |-> 0, txn |-> <<>>]

Init == drv \in {Idle(c) : c \in Cfg} /\ peer = PeerIdle

-----------------------------------------------------------------------------
(* Link and credits.                                                       *)
link_drained(d) ==
  /\ \A c \in Channel : d.grant_pending[c] = 0
  /\ \A c \in {"rsp", "dat"} : d.send_credits[c] = 0
  /\ d.rsp_send_q = <<>> /\ d.dat_send_q = <<>>
  /\ d.rsp_announce = <<>> /\ d.dat_announce = <<>>
  /\ d.tx_activity_count = 0

drive_link_sideband(d, in) ==
  LET up == d.txlinkactivereq \/ d.txlinkactiveack
      want == \/ in.link
              \/ up /\ ~link_drained(d)
              \/ d.txlinkactivereq /\ ~d.txlinkactiveack
  IN IF in.hold THEN d
     ELSE [d EXCEPT !.txlinkactivereq = want,
                    !.txlinkactiveack = d.txlinkactivereq]

schedule_initial_credit_grants(d, in) ==
  IF d.link_active \/ ~in.link THEN d
  ELSE [d EXCEPT !.link_active = TRUE,
                 !.grant_pending =
                    [c \in Channel |-> @[c] + drv.cfg.initial_credits]]

receive_credits(d, in) ==
  [d EXCEPT !.send_credits = [c \in {"rsp", "dat"} |->
                                @[c] + IF c \in in.lcrdv THEN 1 ELSE 0]]

(* One credit per channel and clock.                                       *)
Granted(d) == {c \in Channel : d.grant_pending[c] > 0}

drive_credit_grants(d) ==
  [d EXCEPT !.grant_pending = [c \in Channel |->
                                 @[c] - IF c \in Granted(d) THEN 1 ELSE 0]]

-----------------------------------------------------------------------------
(* Requests and their answers.  A flit is timed if it waits for the time   *)
(* the device gave; `err` is its resperr.                                  *)
IsRead(e) == e.op \in {"READ", "READ_SEP", "ATOMIC"}

new_entry_from_req(k, n) ==
  [op |-> k.op, num |-> n, beats |-> k.beats, seen |-> 0, pre |-> FALSE,
   split |-> drv.cfg.split_write_rsp \/ k.op # "WRITE", err |-> "OKAY"]

push_rsp(d, e, op, timed) ==
  [d EXCEPT !.rsp_send_q =
     Append(@, [op |-> op, num |-> e.num, timed |-> timed,
                err |-> IF op = "DBID_RESP" THEN "OKAY" ELSE e.err])]

Beats(e) ==
  [i \in 1 .. e.beats |->
     [op |-> IF e.op = "READ_SEP" THEN "DATA_SEP_RESP" ELSE "COMP_DATA",
      num |-> e.num, timed |-> ~e.pre, err |-> e.err, last |-> i = e.beats]]

(* Mutant: the response leg of a separated read is forgotten.              *)
enqueue_read_completion_no_leg(d, e) ==
  [d EXCEPT !.dat_send_q = @ \o Beats(e)]

enqueue_read_completion(d, e) ==
  LET d1 == IF e.op = "READ_SEP"
            THEN push_rsp(d, e, "RESP_SEP_DATA", ~e.pre) ELSE d
  IN [d1 EXCEPT !.dat_send_q = @ \o Beats(e)]

(* A combined write was answered with its grant.                           *)
enqueue_write_completion(d, e) ==
  IF e.split THEN push_rsp(d, e, "COMP", ~e.pre) ELSE d

issue_request(d, e) == [d EXCEPT !.req_port = @ \cup {e}]

make_pre_resolved(e) == [e EXCEPT !.pre = TRUE, !.err = "NDERR"]

handle_read_req(d, k, e) ==
  LET d1 == IF k.order THEN push_rsp(d, e, "READ_RECEIPT", FALSE) ELSE d
  IN IF k.err THEN enqueue_read_completion(d1, make_pre_resolved(e))
     ELSE issue_request(d1, e)

queue_write_grant(d, e) ==
  push_rsp(d, e, IF e.split THEN "DBID_RESP" ELSE "COMP_DBID_RESP", FALSE)

handle_write_req(d, k, e) ==
  LET e1 == [e EXCEPT !.err = IF k.err THEN "NDERR" ELSE @]
  IN [queue_write_grant(d, e1) EXCEPT !.wr_await_q = Append(@, e1)]

handle_write_zero_req(d, k, e) ==
  LET d1 == queue_write_grant(d, e)
  IN IF k.err THEN enqueue_write_completion(d1, make_pre_resolved(e))
     ELSE issue_request(d1, e)

handle_persist_req(d, e) ==
  IF e.op = "PERSIST_SEP"
  THEN push_rsp(push_rsp(d, e, "PERSIST", FALSE), e, "COMP_PERSIST", FALSE)
  ELSE push_rsp(d, e, "COMP", FALSE)

handle_unsupported_req(d, e) ==
  IF e.op = "ATOMIC" THEN enqueue_read_completion(d, make_pre_resolved(e))
  ELSE enqueue_write_completion(d, make_pre_resolved(e))

handle_req(d, k, n) ==
  LET e == new_entry_from_req(k, n)
      d1 == [d EXCEPT !.tx_activity_count = @ + 1]
  IN CASE k.op \in {"READ", "READ_SEP"} -> handle_read_req(d1, k, e)
       [] k.op = "WRITE" -> handle_write_req(d1, k, e)
       [] k.op = "WRITE_ZERO" -> handle_write_zero_req(d1, k, e)
       [] k.op \in {"PERSIST", "PERSIST_SEP"} -> handle_persist_req(d1, e)
       [] OTHER -> handle_unsupported_req(d1, e)

Regrant(d, c) == [d EXCEPT !.grant_pending[c] = @ + 1]

(* Mutant: the flit that returns a credit is answered with another one.    *)
receive_req_regrant(d, in) ==
  CASE in.req = None -> d
    [] in.req = Return -> Regrant(d, "req")
    [] OTHER -> Regrant(handle_req(d, in.req, in.num), "req")

receive_req(d, in) ==
  IF in.req \in {None, Return} THEN d
  ELSE Regrant(handle_req(d, in.req, in.num), "req")

(* Data is matched by DBID with the oldest write that waits under it.      *)
Awaiting(d, n) == {i \in DOMAIN d.wr_await_q : d.wr_await_q[i].num = n}

Drop(q, i) == SubSeq(q, 1, i - 1) \o SubSeq(q, i + 1, Len(q))

(* Mutant: one more beat is waited for.                                    *)
WithBeat_late(d, i) ==
  LET e == [d.wr_await_q[i] EXCEPT !.seen = @ + 1]
  IN IF e.seen <= e.beats THEN [d EXCEPT !.wr_await_q[i] = e]
     ELSE issue_request([d EXCEPT !.wr_await_q = Drop(@, i)], e)

WithBeat(d, i) ==
  LET e == [d.wr_await_q[i] EXCEPT !.seen = @ + 1]
      d1 == [d EXCEPT !.wr_await_q = Drop(@, i)]
  IN IF e.seen < e.beats THEN [d EXCEPT !.wr_await_q[i] = e]
     ELSE IF e.err = "NDERR"
     THEN enqueue_write_completion(d1, make_pre_resolved(e))
     ELSE issue_request(d1, e)

(* Mutant: data goes to the oldest waiting write.                          *)
handle_write_data_oldest(d, n) ==
  IF d.wr_await_q = <<>> THEN d ELSE WithBeat(d, 1)

handle_write_data(d, n) ==
  IF Awaiting(d, n) = {} THEN d
  ELSE WithBeat(d, CHOOSE i \in Awaiting(d, n) :
                     \A j \in Awaiting(d, n) : i <= j)

(* A DAT flit that returns a credit carries the DBID of nobody and, like   *)
(* every RSP flit, is answered with a credit.                              *)
receive_dat(d, in) ==
  IF in.dat = None THEN d
  ELSE Regrant(IF in.dat = Return THEN d ELSE handle_write_data(d, in.datnum),
               "dat")

receive_rsp(d, in) == IF in.ack THEN Regrant(d, "rsp") ELSE d

(* complete(): the backend's answer.                                       *)
complete(d, e, err) ==
  LET e1 == [e EXCEPT !.err = err]
  IN IF IsRead(e) THEN enqueue_read_completion(d, e1)
     ELSE enqueue_write_completion(d, e1)

-----------------------------------------------------------------------------
(* Sending.                                                                *)
send_time_reached(f, due) == ~drv.cfg.honor_beat_timing \/ ~f.timed \/ due

announce_rsp_flit(d, due) ==
  IF \/ d.rsp_send_q = <<>> \/ d.send_credits["rsp"] <= 0
     \/ ~send_time_reached(Head(d.rsp_send_q), due)
  THEN d
  ELSE [d EXCEPT !.rsp_announce = <<Head(d.rsp_send_q)>>,
                 !.rsp_send_q = Tail(@)]

announce_dat_flit(d, due) ==
  IF \/ d.dat_send_q = <<>> \/ d.send_credits["dat"] <= 0
     \/ ~send_time_reached(Head(d.dat_send_q), due)
  THEN d
  ELSE [d EXCEPT !.dat_announce = <<Head(d.dat_send_q)>>,
                 !.dat_send_q = Tail(@)]

(* Mutant: the persist completion is not counted as a final flit.         *)
rsp_flit_closes_activity_comp(f) == f.op \in {"COMP", "COMP_DBID_RESP"}

rsp_flit_closes_activity(f) ==
  f.op \in {"COMP", "COMP_DBID_RESP", "COMP_PERSIST"}

Close(d, closes) ==
  [d EXCEPT !.tx_activity_count = IF closes /\ @ > 0 THEN @ - 1 ELSE @]

send_rsp(d, due) ==
  IF d.rsp_announce = <<>> THEN announce_rsp_flit(d, due)
  ELSE Close([d EXCEPT !.rsp_announce = <<>>, !.send_credits["rsp"] = @ - 1],
             rsp_flit_closes_activity(Head(d.rsp_announce)))

(* The data leg of a separated read does not move at the edge at which a   *)
(* response leg is sent.                                                   *)
Held(q, sending_resp_sep) ==
  sending_resp_sep /\ q # <<>> /\ Head(q).op = "DATA_SEP_RESP"

send_dat(d, due, sep) ==
  IF d.dat_announce # <<>> /\ ~Held(d.dat_announce, sep)
  THEN Close([d EXCEPT !.dat_announce = <<>>, !.send_credits["dat"] = @ - 1],
             Head(d.dat_announce).last)
  ELSE IF d.dat_announce = <<>> /\ ~Held(d.dat_send_q, sep)
  THEN announce_dat_flit(d, due) ELSE d

RespSepGoes(d) ==
  d.rsp_announce # <<>> /\ Head(d.rsp_announce).op = "RESP_SEP_DATA"

SentRsp(d) == d.rsp_announce
SentDat(d) ==
  IF Held(d.dat_announce, RespSepGoes(d)) THEN <<>> ELSE d.dat_announce

drive_sends(d, in) ==
  LET d1 == send_dat(send_rsp(d, in.rspdue), in.datdue, RespSepGoes(d))
  IN [d1 EXCEPT !.txsactive =
        d1.tx_activity_count > 0 \/ SentRsp(d) # <<>> \/ SentDat(d) # <<>>]

-----------------------------------------------------------------------------
(* What the peer does at an edge, with the credits it holds: at most one   *)
(* flit per channel, a link request that it may take back.                 *)
Flit(what) ==
  what \cup {None} \cup (IF peer.rxlinkactivereq THEN {} ELSE {Return})

Spendable(c, what) == IF peer.credits[c] = 0 THEN {None} ELSE Flit(what)

(* The replies a request calls for, in the order of their channel.         *)
RspOps(k) ==
  CASE k.op = "READ" -> IF k.order THEN <<"READ_RECEIPT">> ELSE <<>>
    [] k.op = "READ_SEP" -> IF k.order
                            THEN <<"READ_RECEIPT", "RESP_SEP_DATA">>
                            ELSE <<"RESP_SEP_DATA">>
    [] k.op = "ATOMIC" -> <<>>
    [] k.op = "WRITE" -> IF drv.cfg.split_write_rsp
                         THEN <<"DBID_RESP", "COMP">>
                         ELSE <<"COMP_DBID_RESP">>
    [] k.op = "WRITE_ZERO" -> <<"DBID_RESP", "COMP">>
    [] k.op = "PERSIST_SEP" -> <<"PERSIST", "COMP_PERSIST">>
    [] OTHER -> <<"COMP">>

DatBeats(k) == IF IsRead(k) THEN k.beats ELSE 0

Answered(t) ==
  t.rsp = RspOps(t.kind) /\ t.dat = DatBeats(t.kind) /\ t.owed = 0

Owes == {n \in DOMAIN peer.txn : peer.txn[n].owed > 0}

Requests ==
  IF peer.rxlinkactivereq /\ Len(peer.txn) < drv.cfg.max_req
  THEN drv.cfg.kind ELSE {}

(* Time matters to the flit that goes next, if it is timed.                *)
Due(q) ==
  IF drv.cfg.honor_beat_timing /\ q # <<>> /\ Head(q).timed
  THEN BOOLEAN ELSE {TRUE}

Room == {c \in {"rsp", "dat"} : drv.send_credits[c] < drv.cfg.peer_credits
                                /\ peer.rxlinkactivereq}

LinkRequest ==
  IF peer.rxlinkactivereq
     /\ ~(/\ drv.cfg.link_drops
          /\ \A i \in DOMAIN peer.txn : Answered(peer.txn[i]))
  THEN {TRUE} ELSE BOOLEAN

(* The sideband race (input_race_hold) shows only while the link changes.  *)
Hold ==
  IF drv.txlinkactivereq /\ drv.txlinkactiveack /\ LinkRequest = {TRUE}
  THEN {FALSE} ELSE BOOLEAN

Input(room, requests) ==
  [link : LinkRequest, hold : Hold, lcrdv : room,
   req : requests, num : {Len(peer.txn) + 1},
   dat : Spendable("dat", IF Owes = {} THEN {} ELSE {Data}),
   datnum : IF Owes = {} THEN {0} ELSE Owes,
   ack : IF peer.credits["rsp"] > 0 THEN BOOLEAN ELSE {FALSE},
   rspdue : Due(drv.rsp_send_q), datdue : Due(drv.dat_send_q)]

(* What the peer sees of it: credits and flits.                            *)
Spent(in) ==
  {c \in Channel : CASE c = "req" -> in.req # None
                     [] c = "dat" -> in.dat # None [] OTHER -> in.ack}

NewTxn(k) == [kind |-> k, rsp |-> <<>>, dat |-> 0, owed |-> 0,
              nderr |-> FALSE]

Grants(f) == f.op = "COMP_DBID_RESP" \/ f.op = "DBID_RESP"

(* At most one flit goes on a channel at an edge.                          *)
For(q, n) == IF q # <<>> /\ Head(q).num = n THEN q ELSE <<>>

Seen(t, n, rsp, dat, sent) ==
  LET r == For(rsp, n)
      b == For(dat, n)
      w == r # <<>> /\ Grants(r[1]) /\ t.kind.op = "WRITE"
  IN [t EXCEPT !.rsp = @ \o [i \in DOMAIN r |-> r[i].op],
               !.dat = @ + Len(b),
               !.nderr = @ \/ \E i \in DOMAIN (r \o b) :
                                (r \o b)[i].err = "NDERR",
               !.owed = IF w THEN t.kind.beats ELSE @ - IF sent THEN 1 ELSE 0]

Observe(in, granted, rsp, dat) ==
  LET txn == IF in.req \in drv.cfg.kind THEN Append(peer.txn, NewTxn(in.req))
             ELSE peer.txn
  IN [rxlinkactivereq |-> in.link,
      credits |-> [c \in Channel |->
                     peer.credits[c] + (IF c \in granted THEN 1 ELSE 0)
                                     - (IF c \in Spent(in) THEN 1 ELSE 0)],
      returned |-> peer.returned + IF in.req = Return THEN 1 ELSE 0,
      txn |-> [n \in DOMAIN txn |->
                 Seen(txn[n], n, rsp, dat, in.dat = Data /\ in.datnum = n)]]

(* The body of run_phase at a rising edge out of reset.                    *)
link(d, in) ==
  receive_credits(
    schedule_initial_credit_grants(drive_link_sideband(d, in), in), in)

receive(d, in) == receive_rsp(receive_dat(receive_req(d, in), in), in)

Edge(in) ==
  \E d1 \in {receive(link(drv, in), in)} :
    /\ drv' = drive_sends(drive_credit_grants(d1), in)
    /\ peer' = Observe(in, Granted(d1), SentRsp(d1), SentDat(d1))

Answer(e, err) ==
  /\ drv' = complete([drv EXCEPT !.req_port = @ \ {e}], e, err)
  /\ UNCHANGED peer

(* handle_reset, with the backend's flush and the peer's own reset.        *)
Reset == drv' = Idle(drv.cfg) /\ peer' = PeerIdle

Next ==
  \/ \E in \in Input(SUBSET Room, Spendable("req", Requests)) : Edge(in)
  \/ \E e \in drv.req_port, err \in {"OKAY", "DERR"} : Answer(e, err)
  \/ Reset

Spec == Init /\ [][Next]_vars

(* The clock runs, the peer grants credits and sends what it owes and the  *)
(* time of every answer comes, the backend answers every command           *)
(* (EverySubmitAnswered of Backend).  At some edge the peer starts nothing *)
(* new: its transaction IDs are finitely many.                             *)
WillingEdge ==
  \E in \in Input({Room}, {None}) :
    /\ ~in.hold /\ ~in.ack /\ in.link = peer.rxlinkactivereq
    /\ in.rspdue /\ in.datdue
    /\ Owes # {} /\ peer.credits["dat"] > 0 => in.dat = Data
    /\ Edge(in)

Fairness ==
  /\ WF_vars(WillingEdge)
  /\ WF_vars(\E e \in drv.req_port : Answer(e, "OKAY"))

FairSpec == Spec /\ Fairness

-----------------------------------------------------------------------------
SeqSet(q) == {q[i] : i \in DOMAIN q}

RspOut == drv.rsp_announce \o drv.rsp_send_q
DatOut == drv.dat_announce \o drv.dat_send_q

(* Entries whose completion is still to come.                              *)
Unfinished == SeqSet(drv.wr_await_q) \cup drv.req_port

Count(q, P(_)) == Cardinality({i \in DOMAIN q : P(q[i])})

(* Credits are neither made nor lost: what the peer holds and what is      *)
(* still to be granted is the initial number less what the peer gave back  *)
(* on REQ, across any number of link activations; and every flit that is   *)
(* announced has a credit to be sent with.                                 *)
CreditsConserved ==
  /\ drv.link_active =>
       \A c \in Channel :
         peer.credits[c] + drv.grant_pending[c]
           = drv.cfg.initial_credits - (IF c = "req" THEN peer.returned ELSE 0)
  /\ drv.send_credits["rsp"]
       \in Len(drv.rsp_announce) .. drv.cfg.peer_credits
  /\ drv.send_credits["dat"]
       \in Len(drv.dat_announce) .. drv.cfg.peer_credits

(* The replies lo + 1 .. hi of the list ops, in that order, are those of   *)
(* request n in q.                                                         *)
InLine(q, n, ops, lo, hi) ==
  LET at == {i \in DOMAIN q : q[i].num = n}
  IN /\ {q[i].op : i \in at} = {ops[k] : k \in lo + 1 .. hi}
     /\ \A i, j \in at, k, l \in lo + 1 .. hi :
          q[i].op = ops[k] /\ q[j].op = ops[l] => (i < j <=> k < l)

(* The reply that waits for the entry of a request to be finished.         *)
HeldBack(ops, waiting) ==
  IF waiting /\ ops # <<>> /\ ops[Len(ops)] \in {"RESP_SEP_DATA", "COMP"}
  THEN 1 ELSE 0

(* Every request gets exactly its replies, each channel's in order:        *)
(* what arrived, what is announced or queued and what the entry that is    *)
(* waiting for data or for the backend still brings make up the list.      *)
RepliesExact ==
  \A n \in DOMAIN peer.txn :
    LET t == peer.txn[n]
        ops == RspOps(t.kind)
        e == {x \in Unfinished : x.num = n}
        hi == Len(ops) - HeldBack(ops, e # {})
    IN /\ Cardinality(e) <= 1
       /\ Len(t.rsp) <= hi /\ t.rsp = SubSeq(ops, 1, Len(t.rsp))
       /\ InLine(RspOut, n, ops, Len(t.rsp), hi)
       /\ t.dat + Count(DatOut, LAMBDA f : f.num = n)
            + (IF e = {} THEN 0 ELSE DatBeats(t.kind)) = DatBeats(t.kind)

(* Interleaved write data of several grants ends up with its own write,    *)
(* and the backend sees a write once all of its data is there.             *)
WriteDataWhole ==
  /\ \A e \in SeqSet(drv.wr_await_q) :
       LET t == peer.txn[e.num]
       IN t.rsp # <<>> => e.seen + t.owed = e.beats
  /\ \A e \in drv.req_port : e.op = "WRITE" => e.seen = e.beats

(* The counter behind TXSACTIVE counts the final flits still to be sent:   *)
(* it neither sticks nor runs out early.                                   *)
ActivityExact ==
  drv.tx_activity_count =
    Count(RspOut, LAMBDA f : rsp_flit_closes_activity(f))
    + Count(DatOut, LAMBDA f : f.last)
    + Cardinality({e \in Unfinished : IsRead(e) \/ e.split})

(* A request outside the port's memory, or of an unsupported kind, is told *)
(* so in one of its replies, and no other is; the backend never sees it.   *)
(* A persist reaches no memory, its address is not looked at.              *)
Refused(k) ==
  \/ k.op \in {"ATOMIC", "OTHER"}
  \/ k.err /\ k.op \notin {"PERSIST", "PERSIST_SEP"}

VerdictDelivered ==
  /\ \A n \in DOMAIN peer.txn :
       LET t == peer.txn[n] IN Answered(t) => (t.nderr <=> Refused(t.kind))
  /\ \A e \in drv.req_port : ~Refused(peer.txn[e.num].kind)

(* A requester that polls DAT only after the response leg of its separated *)
(* read never has both legs go by at one edge.                             *)
SepLegsApart ==
  ~(/\ RespSepGoes(drv)
    /\ drv.dat_announce # <<>> /\ Head(drv.dat_announce).op = "DATA_SEP_RESP"
    /\ drv'.rsp_announce = <<>> /\ drv'.dat_announce = <<>>
    /\ drv' # Idle(drv.cfg))

(* Every request gets the replies that are its due, in order on each       *)
(* channel, with the right verdict, the legs of a split one apart.         *)
AnswersExact ==
  [][RepliesExact' /\ VerdictDelivered' /\ SepLegsApart]_vars

(* Every request is answered, or forgotten by a reset, as long as the link *)
(* stays up.                                                               *)
EveryRequestAnswered ==
  \A n \in 1 .. MaxReq :
    (n \in DOMAIN peer.txn /\ ~drv.cfg.link_drops)
      ~> (n \notin DOMAIN peer.txn \/ Answered(peer.txn[n]))
=============================================================================
