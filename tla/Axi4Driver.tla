----------------------------- MODULE Axi4Driver -----------------------------
(***************************************************************************)
(* The AXI4 frontend driver (vip_mc_axi4_driver).  Everything it does at   *)
(* one rising clock edge is one action, Edge: responses advance, then the  *)
(* address and data channels are captured, then the ready outputs for the  *)
(* NEXT edge are computed.  Between edges the backend hands completed      *)
(* commands back through complete().                                       *)
(*                                                                         *)
(* The manager on the bus is external: it may present anything the ready   *)
(* outputs let through, and WLAST where it likes if cfg.free_last.  The    *)
(* backend answers the commands of one stream in order (CmdQueue), any     *)
(* stream first.  The shape of a command is abstract here: `lo .. hi` are  *)
(* the bytes it touches, `resp` what classify_request, supports_axi_burst  *)
(* and supports_exclusive_request make of it (module Axi4Burst).           *)
(***************************************************************************)
EXTENDS Integers, Sequences, FiniteSets

CONSTANTS
  Cfg,           (* the configurations of a run, with the commands the manager
                    may send in each: [kind, aw_outstanding_limit, ...] *)
  MaxWr, MaxRd   (* bounds of the model: commands between two resets; a
                    configuration may have lower ones, max_wr and max_rd *)

(* The commands of all configurations: [op, id, beats, excl, lo, hi, resp]. *)
Kind == UNION {c.kind : c \in Cfg}

None == [op |-> "none"]

(* A limit or depth of 0 or less means unlimited; free_last lets the       *)
(* manager put WLAST on a wrong beat.                                      *)
ASSUME Axi4Assumption ==
  /\ {MaxWr, MaxRd} \subseteq Nat
  /\ \A c \in Cfg :
       /\ {c.aw_outstanding_limit, c.ar_outstanding_limit, c.aw_pending_depth,
           c.w_data_buf_depth, c.rsp_buf_depth} \subseteq Int
       /\ c.max_wr \in 0 .. MaxWr /\ c.max_rd \in 0 .. MaxRd
       /\ {c.honor_beat_timing, c.free_last} \subseteq BOOLEAN
  /\ \A k \in Kind :
       /\ k.op \in {"RD", "WR"} /\ k.beats \in Nat \ {0}
       /\ k.resp \in {"OKAY", "SLVERR", "DECERR"}

VARIABLES
  drv,    (* the driver's fields, the outputs it drives, and what it wrote to
             req_port that the backend has not completed yet *)
  done    (* history: commands answered on the bus since the last reset *)

vars == <<drv, done>>

limit_allows(current, limit) == limit <= 0 \/ current < limit

(* An entry of the driver.  `pre` is pre_resolved: answered by the driver, *)
(* never sent to the backend.                                              *)
build_addr_entry(k, n) ==
  [op |-> k.op, id |-> k.id, num |-> n, beats |-> k.beats, captured |-> 0,
   excl |-> k.excl, lo |-> k.lo, hi |-> k.hi,
   pre |-> k.resp # "OKAY", resp |-> k.resp]

(* The driver after a reset, under configuration c (cfg and mc_cfg).       *)
Idle(c) ==
  [cfg |-> c,
   pending_aw_q |-> <<>>, pending_b_q |-> <<>>, pending_r_q |-> <<>>,
   active_b |-> <<>>, active_r_q |-> <<>>, active_r_beat_idx |-> 0,
   rvalid |-> FALSE, w_data_buf_occupancy |-> 0,
   inflight_rd_count |-> 0, inflight_wr_count |-> 0,
   observed_aw_count |-> 0, observed_ar_count |-> 0,
   exclusive_reservations |-> {}, req_port |-> {},
   awready |-> FALSE, wready |-> FALSE, arready |-> FALSE]

Init == drv \in {Idle(c) : c \in Cfg} /\ done = {}

-----------------------------------------------------------------------------
(* Flow control.                                                           *)
get_rsp_slots_used(d) ==
  Len(d.pending_b_q) + Len(d.pending_r_q) + Len(d.active_b) + Len(d.active_r_q)

rsp_buffer_has_credit(d) ==
  limit_allows(get_rsp_slots_used(d), d.cfg.rsp_buf_depth)

get_aw_block_reason(d) ==
  IF ~rsp_buffer_has_credit(d) THEN "RSP_BUF_FULL"
  ELSE IF ~limit_allows(Len(d.pending_aw_q) + d.inflight_wr_count,
                        d.cfg.aw_outstanding_limit)
  THEN "AW_OUTSTANDING_FULL"
  ELSE IF ~limit_allows(Len(d.pending_aw_q), d.cfg.aw_pending_depth)
  THEN "AW_PENDING_FULL"
  ELSE "NONE"

get_ar_block_reason(d) ==
  IF ~rsp_buffer_has_credit(d) THEN "RSP_BUF_FULL"
  ELSE IF ~limit_allows(d.inflight_rd_count, d.cfg.ar_outstanding_limit)
  THEN "AR_OUTSTANDING_FULL"
  ELSE "NONE"

get_w_block_reason(d) ==
  IF d.pending_aw_q = <<>> THEN "NO_WRITE_IN_FLIGHT"
  ELSE IF ~limit_allows(d.w_data_buf_occupancy, d.cfg.w_data_buf_depth)
  THEN "WBUF_FULL"
  ELSE "NONE"

(* Mutant: the pending FIFO is not counted against the outstanding limit.  *)
can_accept_aw_no_pending(d) ==
  /\ rsp_buffer_has_credit(d)
  /\ limit_allows(d.inflight_wr_count, d.cfg.aw_outstanding_limit)
  /\ limit_allows(Len(d.pending_aw_q), d.cfg.aw_pending_depth)

can_accept_aw(d) ==
  /\ rsp_buffer_has_credit(d)
  /\ limit_allows(Len(d.pending_aw_q) + d.inflight_wr_count,
                  d.cfg.aw_outstanding_limit)
  /\ limit_allows(Len(d.pending_aw_q), d.cfg.aw_pending_depth)

can_accept_ar(d) ==
  /\ rsp_buffer_has_credit(d)
  /\ limit_allows(d.inflight_rd_count, d.cfg.ar_outstanding_limit)

can_accept_w(d) ==
  /\ d.pending_aw_q # <<>>
  /\ limit_allows(d.w_data_buf_occupancy, d.cfg.w_data_buf_depth)

drive_accept_outputs(d) ==
  [d EXCEPT !.awready = can_accept_aw(d), !.wready = can_accept_w(d),
            !.arready = can_accept_ar(d)]

-----------------------------------------------------------------------------
(* The exclusive monitor: reservations by address and ID.                  *)
Reservation(e) == [id |-> e.id, lo |-> e.lo, hi |-> e.hi]

SameKey(r, e) == r.id = e.id /\ r.lo = e.lo

register_exclusive_reservation(d, e) ==
  [d EXCEPT !.exclusive_reservations =
     {r \in @ : ~SameKey(r, e)} \cup {Reservation(e)}]

check_and_clear_exclusive_reservation(d, e) ==
  [d EXCEPT !.exclusive_reservations = {r \in @ : ~SameKey(r, e)}]

ranges_overlap(a, b) == a.lo <= b.hi /\ b.lo <= a.hi

(* Mutant: only the writer's own reservation is cleared.                   *)
invalidate_exclusive_reservations_own(d, e) ==
  [d EXCEPT !.exclusive_reservations =
     {r \in @ : ~(ranges_overlap(r, e) /\ r.id = e.id)}]

invalidate_exclusive_reservations(d, e) ==
  [d EXCEPT !.exclusive_reservations = {r \in @ : ~ranges_overlap(r, e)}]

-----------------------------------------------------------------------------
(* Mutant: a late answer overtakes the ones already waiting for the bus.   *)
complete_first(d, e) ==
  LET q == IF e.op = "RD" THEN "pending_r_q" ELSE "pending_b_q"
  IN [d EXCEPT ![q] = <<e>> \o @]

(* complete(): the backend's answer, or at once for a local completion.    *)
complete(d, e) ==
  LET q == IF e.op = "RD" THEN "pending_r_q" ELSE "pending_b_q"
      d1 == IF e.op = "RD" /\ e.excl /\ ~e.pre
            THEN register_exclusive_reservation(d, e) ELSE d
  IN [d1 EXCEPT ![q] = Append(@, e)]

issue_request(d, e) ==
  LET count == IF e.op = "RD" THEN "inflight_rd_count" ELSE "inflight_wr_count"
  IN [d EXCEPT ![count] = @ + 1, !.req_port = @ \cup {e}]

capture_aw(d, k) ==
  IF k = None THEN d
  ELSE [d EXCEPT !.observed_aw_count = @ + 1,
                 !.pending_aw_q =
                    Append(@, build_addr_entry(k, d.observed_aw_count + 1))]

(* Mutant: a burst cut short by WLAST is sent with the beats it has.       *)
WithBeat_short(e, last) ==
  [e EXCEPT !.captured = @ + 1,
            !.pre = @ \/ (~last /\ e.captured + 1 = e.beats)]

(* A beat lands in the oldest address entry; WLAST on the wrong beat turns *)
(* the burst into a local SLVERR.                                          *)
WithBeat(e, last) ==
  LET n == e.captured + 1
      short == last /\ n < e.beats
      wrong == short \/ (~last /\ n = e.beats)
  IN [e EXCEPT !.captured = n, !.beats = IF short THEN n ELSE @,
               !.pre = @ \/ wrong, !.resp = IF wrong THEN "SLVERR" ELSE @]

(* The last beat decides what becomes of the burst: an exclusive write     *)
(* without its reservation fails locally with OKAY, any write that goes on *)
(* clears the reservations it touches.                                     *)
ExclusiveFails(d, e) ==
  e.excl /\ Reservation(e) \notin d.exclusive_reservations

Resolved(d, e) ==
  IF ~e.pre /\ ExclusiveFails(d, e)
  THEN [e EXCEPT !.pre = TRUE, !.resp = "OKAY"] ELSE e

finish_write(d, e) ==
  LET d1 == IF e.excl /\ ~e.pre
            THEN check_and_clear_exclusive_reservation(d, e) ELSE d
      e1 == Resolved(d, e)
  IN IF e1.pre THEN complete(d1, e1)
     ELSE issue_request(invalidate_exclusive_reservations(d1, e), e1)

capture_w(d, w) ==
  IF w = "none" THEN d
  ELSE LET e == WithBeat(Head(d.pending_aw_q), w = "last")
       IN IF w = "last"
          THEN finish_write([d EXCEPT !.pending_aw_q = Tail(@)], e)
          ELSE [d EXCEPT !.pending_aw_q[1] = e]

(* Mutant: a rejected read is answered and sent to the backend as well.    *)
capture_ar_both(d, k) ==
  IF k = None THEN d
  ELSE LET e == build_addr_entry(k, d.observed_ar_count + 1)
           d1 == [d EXCEPT !.observed_ar_count = @ + 1]
       IN issue_request(IF e.pre THEN complete(d1, e) ELSE d1, e)

capture_ar(d, k) ==
  IF k = None THEN d
  ELSE LET e == build_addr_entry(k, d.observed_ar_count + 1)
           d1 == [d EXCEPT !.observed_ar_count = @ + 1]
       IN IF e.pre THEN complete(d1, e) ELSE issue_request(d1, e)

(* Mutant: the buffer only empties when a burst completes.                 *)
advance_w_data_buffer_model_full(d, w) ==
  [d EXCEPT !.w_data_buf_occupancy =
     CASE w = "last" -> 0 [] w = "data" -> @ + 1 [] OTHER -> @]

advance_w_data_buffer_model(d, w) ==
  [d EXCEPT !.w_data_buf_occupancy =
     CASE w = "last" -> 0
       [] w = "data" -> @ + 1
       [] OTHER -> IF @ > 0 THEN @ - 1 ELSE 0]

-----------------------------------------------------------------------------
(* The response channels.  `due` is whether the response's time has come;  *)
(* only paced answers of the backend wait for it.                          *)
BeatDue(e, due) == ~drv.cfg.honor_beat_timing \/ e.pre \/ due

SatDec(n) == IF n > 0 THEN n - 1 ELSE 0

BTaken(d, in) == in.bready /\ d.active_b # <<>>

retire_b(d) ==
  [d EXCEPT !.active_b = <<>>,
            !.inflight_wr_count = IF d.active_b[1].pre THEN @ ELSE SatDec(@)]

advance_write_rsp_channel(d, in) ==
  LET d1 == IF BTaken(d, in) THEN retire_b(d) ELSE d
      next == d1.pending_b_q
  IN IF d1.active_b = <<>> /\ next # <<>> /\ BeatDue(Head(next), in.bdue)
     THEN [d1 EXCEPT !.active_b = <<Head(next)>>, !.pending_b_q = Tail(@)]
     ELSE d1

RLast(d) == d.active_r_beat_idx + 1 >= d.active_r_q[1].beats

RTaken(d, in) == in.rready /\ d.rvalid

RBurstTaken(d, in) == RTaken(d, in) /\ RLast(d)

retire_r(d) ==
  IF RLast(d)
  THEN [d EXCEPT !.active_r_q = <<>>, !.active_r_beat_idx = 0,
                 !.inflight_rd_count =
                    IF d.active_r_q[1].pre THEN @ ELSE SatDec(@)]
  ELSE [d EXCEPT !.active_r_beat_idx = @ + 1]

fill_active_r_streams(d) ==
  IF d.active_r_q # <<>> \/ d.pending_r_q = <<>> THEN d
  ELSE [d EXCEPT !.active_r_q = <<Head(d.pending_r_q)>>,
                 !.pending_r_q = Tail(@)]

(* A beat on the bus stays until it is taken; one burst at a time.         *)
advance_read_rsp_channel(d, in) ==
  LET d1 == fill_active_r_streams(IF RTaken(d, in) THEN retire_r(d) ELSE d)
  IN IF d.rvalid /\ ~in.rready THEN d
     ELSE [d1 EXCEPT !.rvalid =
             d1.active_r_q # <<>> /\ BeatDue(d1.active_r_q[1], in.rdue)]

-----------------------------------------------------------------------------
(* What the manager may do at an edge.                                     *)
Address(op, ready) ==
  {None} \cup {k \in drv.cfg.kind : k.op = op /\ ready}

(* One beat past the burst's length is as far as a wrong WLAST goes here.  *)
Beat ==
  IF ~drv.wready THEN {"none"}
  ELSE LET e == Head(drv.pending_aw_q)
       IN {"none"}
          \cup {w \in {"data"} : e.captured + 1 < e.beats
                                 \/ (drv.cfg.free_last
                                       /\ e.captured < e.beats)}
          \cup {w \in {"last"} : drv.cfg.free_last \/ e.captured + 1 = e.beats}

Due == IF drv.cfg.honor_beat_timing THEN BOOLEAN ELSE {TRUE}

Input(ready, due) ==
  [aw : Address("WR", drv.awready /\ drv.observed_aw_count < drv.cfg.max_wr),
   w : Beat,
   ar : Address("RD", drv.arready /\ drv.observed_ar_count < drv.cfg.max_rd),
   bready : ready, rready : ready, bdue : due, rdue : due]

Cmd(e) == [op |-> e.op, id |-> e.id, num |-> e.num]

responses(d, in) ==
  advance_read_rsp_channel(advance_write_rsp_channel(d, in), in)

captures(d, in) ==
  advance_w_data_buffer_model(
    capture_ar(capture_w(capture_aw(d, in.aw), in.w), in.ar), in.w)

(* _sample_and_advance at a rising edge out of reset.                      *)
Edge(in) ==
  /\ \E d1 \in {responses(drv, in)} : \E d2 \in {captures(d1, in)} :
       drv' = drive_accept_outputs(d2)
  /\ done' = done \cup (IF BTaken(drv, in) THEN {Cmd(drv.active_b[1])} ELSE {})
                  \cup (IF RBurstTaken(drv, in)
                        THEN {Cmd(drv.active_r_q[1])} ELSE {})

(* The backend completes a command: the oldest of its stream, one edge or  *)
(* many later.                                                             *)
SameStream(a, b) == a.op = b.op /\ a.id = b.id

Answer(e) ==
  /\ \A o \in drv.req_port : SameStream(o, e) => e.num <= o.num
  /\ drv' = complete([drv EXCEPT !.req_port = @ \ {e}],
                     [e EXCEPT !.resp = IF e.excl THEN "EXOKAY" ELSE "OKAY"])
  /\ UNCHANGED done

(* handle_reset, with the backend's flush at the same edge.                *)
Reset == drv' = Idle(drv.cfg) /\ done' = {}

Next ==
  \/ \E in \in Input(BOOLEAN, Due) : Edge(in)
  \/ \E e \in drv.req_port : Answer(e)
  \/ Reset

Spec == Init /\ [][Next]_vars

(* A manager that takes what is offered and sends the data it announced,   *)
(* at an edge at which the response's time has come.                       *)
WillingEdge ==
  \E in \in Input({TRUE}, {TRUE}) :
    /\ drv.wready => in.w # "none"
    /\ Edge(in)

(* The clock keeps running, the manager is not forever unwilling, the      *)
(* backend answers every command (EverySubmitAnswered of Backend).         *)
Fairness ==
  /\ WF_vars(WillingEdge)
  /\ WF_vars(\E e \in drv.req_port : Answer(e))

FairSpec == Spec /\ Fairness

-----------------------------------------------------------------------------
SeqSet(q) == {q[i] : i \in DOMAIN q}

(* Where a command accepted on the bus and not yet answered there can be.  *)
Places ==
  <<SeqSet(drv.pending_aw_q), drv.req_port, SeqSet(drv.pending_b_q),
    SeqSet(drv.active_b), SeqSet(drv.pending_r_q), SeqSet(drv.active_r_q)>>

Waiting == UNION SeqSet(Places)

(* Sent to the backend, its answer not yet taken on the bus.               *)
Backed == {e \in Waiting \ SeqSet(drv.pending_aw_q) : ~e.pre}

(* The two in-flight counters, which decide readiness, count exactly the   *)
(* commands the backend was given and the bus has not seen answered, and   *)
(* the limits hold although a ready output is only tested one edge before  *)
(* the address it lets in.                                                 *)
OutstandingExact ==
  LET of(op) == {e \in Backed : e.op = op}
      writes == Len(drv.pending_aw_q) + drv.inflight_wr_count
  IN /\ drv.inflight_rd_count = Cardinality(of("RD"))
     /\ drv.inflight_wr_count = Cardinality(of("WR"))
     /\ drv.cfg.ar_outstanding_limit > 0 =>
          drv.inflight_rd_count <= drv.cfg.ar_outstanding_limit
     /\ drv.cfg.aw_outstanding_limit > 0 =>
          writes <= drv.cfg.aw_outstanding_limit
     /\ drv.cfg.aw_pending_depth > 0 =>
          Len(drv.pending_aw_q) <= drv.cfg.aw_pending_depth

(* A command accepted on the bus is in exactly one place until it is       *)
(* answered there, and is answered once; only a reset forgets it.          *)
AnsweredOnce ==
  /\ {Cmd(e) : e \in Waiting} \cap done = {}
  /\ \A e \in Waiting :
       Cardinality({i \in DOMAIN Places : e \in Places[i]}) = 1
  /\ {c.num : c \in {x \in {Cmd(e) : e \in Waiting} \cup done : x.op = "WR"}}
       = 1 .. drv.observed_aw_count
  /\ {c.num : c \in {x \in {Cmd(e) : e \in Waiting} \cup done : x.op = "RD"}}
       = 1 .. drv.observed_ar_count

(* Write data belongs to the oldest address without all of its data: the   *)
(* backend never sees a burst with too few or too many beats, however the  *)
(* manager places WLAST, and no W beat is invited without an address.      *)
WriteDataWhole ==
  /\ \A e \in drv.req_port : e.op = "WR" => e.captured = e.beats
  /\ \A i \in 2 .. Len(drv.pending_aw_q) : drv.pending_aw_q[i].captured = 0
  /\ drv.wready => drv.pending_aw_q # <<>>

(* The block reasons, which repeat the ready tests in another order of     *)
(* their own, name a reason exactly when a test fails.                     *)
ReadyExplained ==
  /\ can_accept_aw(drv) <=> get_aw_block_reason(drv) = "NONE"
  /\ can_accept_ar(drv) <=> get_ar_block_reason(drv) = "NONE"
  /\ can_accept_w(drv) <=> get_w_block_reason(drv) = "NONE"

(* The limits hold from one edge to the next, and what the driver reports  *)
(* of them is true.                                                        *)
LimitsExact == OutstandingExact /\ ReadyExplained

(* What the manager sees on R: a beat offered stays as it is until taken,  *)
(* the next one of the same burst follows, and another burst only after    *)
(* the last beat, with which the command is answered.                      *)
RBurstWhole ==
  drv.rvalid /\ drv' # Idle(drv.cfg) =>
     LET e == drv.active_r_q[1]
         idx == drv.active_r_beat_idx
     IN \/ /\ drv'.rvalid /\ drv'.active_r_beat_idx = idx
           /\ drv'.active_r_q = drv.active_r_q
        \/ /\ idx + 1 < e.beats /\ drv'.active_r_beat_idx = idx + 1
           /\ drv'.active_r_q = drv.active_r_q
        \/ idx + 1 = e.beats /\ Cmd(e) \in done' /\ Cmd(e) \notin done

(* Bursts are whole in both directions.                                    *)
BurstsWhole == [][WriteDataWhole' /\ RBurstWhole]_vars

(* A command that is accepted is answered, or forgotten by a reset.        *)
EveryBurstAnswered ==
  \A c \in {"WR"} \X (1 .. MaxWr) \cup {"RD"} \X (1 .. MaxRd) :
    (\E e \in Waiting : <<e.op, e.num>> = c)
      ~> (\A e \in Waiting : <<e.op, e.num>> # c)

(* The port promises each stream, edge by edge, a FIFO of the commands     *)
(* that went to the backend.                                               *)
Stream == {[op |-> k.op, id |-> k.id] : k \in Kind}

InOrder(s) ==
  LET nums == {e.num : e \in {b \in Backed : SameStream(b, s)}}
      nth(i) == CHOOSE n \in nums : Cardinality({m \in nums : m <= n}) = i
  IN [i \in 1 .. Cardinality(nums) |-> nth(i)]

Port == INSTANCE Axi4Port WITH
          Num <- 1 .. MaxWr + MaxRd, fifo <- [s \in Stream |-> InOrder(s)]
PortSpec == Port!Spec
=============================================================================
