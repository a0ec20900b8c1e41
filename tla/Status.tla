------------------------------- MODULE Status --------------------------------
(***************************************************************************)
(* The status probe: backend, refresh engine and AXI4 drivers only count   *)
(* their events and remember the last one; once a clock the top level      *)
(* (vip_mc) compares the counts with those of its previous look and drives *)
(* one-cycle pulses with a summary.  Any number of events may fall between *)
(* two looks.                                                              *)
(*                                                                         *)
(* The producers are kept as counts and last events; how commands are      *)
(* chosen is Backend's subject, what makes a driver reject is Axi4Driver's.*)
(* perf_counters_enabled is TRUE (FALSE hides the refresh count).          *)
(***************************************************************************)
EXTENDS Integers, FiniteSetsExt

CONSTANTS
  NPorts,
  NRanks,        (* geom.N_RANKS_P *)
  RspBufDepth,   (* cfg.rsp_buf_depth, <= 0 means unlimited *)
  MaxEvent,      (* bound of the model: events of an epoch, unless these are *)
                 (* rejects without end; response slots of a driver then *)
  MaxCount,      (* bound of the model: a reject count starts again after *)
                 (* it, 0 never; looks only compare counts for equality *)
  MaxReset       (* bound of the model: resets *)

StatusAssumption ==
  /\ NPorts \in Nat \ {0} /\ NRanks \in Nat \ {0} /\ RspBufDepth \in Int
  /\ MaxEvent \in Nat /\ MaxCount \in Nat /\ MaxReset \in Nat

VARIABLES
  be,        (* the backend's counts and last events *)
  inflight,  (* commands and refreshes the backend has at the device *)
  stale,     (* answers a reset left at the device *)
  fe,        (* the drivers: rejects counted, response slots in use *)
  refresh_count,
  last,      (* last_status_*_count *)
  vif,       (* what drive_status_vif last showed *)
  top,       (* run_phase: [last_rst, waiting], waiting in dram.reset() *)
  since,     (* history: the last event of each kind since the last look, *)
             (* and the ports with a reject that no look has shown *)
  shown,     (* history: since, as it was at the last look *)
  bound      (* events of this epoch, resets, next tag, and whether all *)
             (* events are rejects, without end *)

env  == <<be, inflight, stale, fe, refresh_count>>
vars == <<env, last, vif, top, since, shown, bound>>

Port == 0 .. NPorts - 1

NoCmd == [tag |-> 0, port |-> -1, op |-> "NONE"]
NoReject == [port |-> -1, n |-> 0]
NoEvents == [issue |-> NoCmd, complete |-> NoCmd, refresh |-> -1,
             reject |-> NoReject, owed |-> {}]

Cleared ==
  [rst_active |-> FALSE, rsp_buf_full |-> FALSE,
   issue_pulse |-> FALSE, issue |-> NoCmd,
   complete_pulse |-> FALSE, complete |-> NoCmd, page |-> "UNKNOWN",
   refresh_pulse |-> FALSE, refresh_rank |-> 0,
   reject_pulse |-> FALSE, reject |-> NoReject]

NothingSeen ==
  [issued |-> 0, completed |-> 0, refresh |-> 0, reject |-> [p \in Port |-> 0]]

clear_perf_counters ==
  [be EXCEPT !.issued_req_count = 0, !.completed_cmd_count = 0]

Init ==
  /\ be = [issued_req_count |-> 0, completed_cmd_count |-> 0,
           last_issued_cmd |-> NoCmd, last_completed_cmd |-> NoCmd,
           last_rsp |-> "UNKNOWN"]
  /\ inflight = {} /\ stale = {}
  /\ fe = [p \in Port |-> [local_reject_count |-> 0, slots |-> 0]]
  /\ refresh_count = 0
  /\ last = NothingSeen
  /\ vif = [Cleared EXCEPT !.rst_active = TRUE]
  /\ top = [last_rst |-> 0, waiting |-> FALSE]
  /\ since = NoEvents /\ shown = NoEvents
  /\ \E endless \in BOOLEAN :
       bound = [events |-> 0, resets |-> 0, next_tag |-> 1,
                endless |-> endless]

-----------------------------------------------------------------------------
(* One look: the snapshot v against the counts l of the look before.       *)
update_status_issue_pulse(v, l) ==
  IF be.issued_req_count # l.issued /\ be.last_issued_cmd # NoCmd
  THEN [v EXCEPT !.issue_pulse = TRUE, !.issue = be.last_issued_cmd]
  ELSE [v EXCEPT !.issue_pulse = FALSE]

(* The page outcome is that of the last answer of any kind.                *)
update_status_complete_pulse(v, l) ==
  IF be.completed_cmd_count # l.completed /\ be.last_completed_cmd # NoCmd
  THEN [v EXCEPT !.complete_pulse = TRUE, !.complete = be.last_completed_cmd,
                 !.page = be.last_rsp]
  ELSE [v EXCEPT !.complete_pulse = FALSE]

Unseen(l) == {p \in Port : fe[p].local_reject_count # l.reject[p]}
FirstUnseen(l) == CHOOSE p \in Unseen(l) : \A q \in Unseen(l) : p <= q

(* One pulse a look: the lowest port with an unseen reject.                *)
update_status_reject_pulse(v, l) ==
  IF Unseen(l) = {}
  THEN [v EXCEPT !.reject_pulse = FALSE, !.reject = NoReject]
  ELSE LET p == FirstUnseen(l)
       IN [v EXCEPT !.reject_pulse = TRUE,
             !.reject = [port |-> p, n |-> fe[p].local_reject_count]]

update_status_refresh(v, l) ==
  IF refresh_count # l.refresh
  THEN [v EXCEPT !.refresh_pulse = TRUE,
                 !.refresh_rank = (refresh_count - 1) % NRanks]
  ELSE [v EXCEPT !.refresh_pulse = FALSE]

UsedSlots == MapThenSumSet(LAMBDA p : fe[p].slots, Port)

update_status_rsp_buf_summary(v) ==
  [v EXCEPT !.rsp_buf_full = RspBufDepth > 0 /\ UsedSlots >= RspBufDepth]

update_status_snapshot(v, l) ==
  update_status_rsp_buf_summary(
    update_status_refresh(
      update_status_reject_pulse(
        update_status_complete_pulse(
          update_status_issue_pulse(v, l), l), l), l))

(* Mutant: every port's rejects count as seen, shown or not.               *)
Seen_all_ports(l) ==
  [issued |-> be.issued_req_count, completed |-> be.completed_cmd_count,
   refresh |-> refresh_count,
   reject |-> [p \in Port |-> fe[p].local_reject_count]]

(* Mutant: the refresh count is not remembered.                            *)
Seen_not_refresh(l) ==
  [issued |-> be.issued_req_count, completed |-> be.completed_cmd_count,
   refresh |-> l.refresh,
   reject |-> [p \in Port |-> IF Unseen(l) # {} /\ p = FirstUnseen(l)
                              THEN fe[p].local_reject_count ELSE l.reject[p]]]

Seen(l) ==
  [issued |-> be.issued_req_count, completed |-> be.completed_cmd_count,
   refresh |-> refresh_count,
   reject |-> [p \in Port |-> IF Unseen(l) # {} /\ p = FirstUnseen(l)
                              THEN fe[p].local_reject_count ELSE l.reject[p]]]

(* update_status_snapshot and drive_status_vif.  Each look computes the    *)
(* pulses anew, so clear_pulses needs no step of its own.                  *)
Look(v, l) ==
  /\ vif' = update_status_snapshot(v, l)
  /\ last' = Seen(l)
  /\ shown' = since
  /\ since' = [NoEvents EXCEPT !.owed =
                 IF vif'.reject_pulse THEN since.owed \ {vif'.reject.port}
                                      ELSE since.owed]

-----------------------------------------------------------------------------
(* run_phase.                                                              *)
Clock ==
  /\ ~top.waiting
  /\ Look([vif EXCEPT !.rst_active = top.last_rst = 0], last)
  /\ UNCHANGED <<env, top, bound>>

arm_after_reset ==
  /\ ~top.waiting /\ top.last_rst = 0
  /\ Look([vif EXCEPT !.rst_active = FALSE], last)
  /\ top' = [top EXCEPT !.last_rst = 1]
  /\ UNCHANGED <<env, bound>>

(* handle_reset up to its await: drivers, backend and refresh engine are   *)
(* cleared; the backend still remembers its last events.                   *)
handle_reset ==
  /\ ~top.waiting /\ top.last_rst = 1 /\ bound.resets < MaxReset
  /\ be' = clear_perf_counters
  /\ stale' = stale \cup inflight /\ inflight' = {}
  /\ fe' = [p \in Port |-> [local_reject_count |-> 0, slots |-> 0]]
  /\ refresh_count' = 0
  /\ top' = [last_rst |-> 0, waiting |-> TRUE]
  /\ since' = NoEvents
  /\ bound' = [bound EXCEPT !.events = 0, !.resets = @ + 1]
  /\ UNCHANGED <<last, vif, shown>>

(* The rest of handle_reset and of that iteration of run_phase: a cleared  *)
(* snapshot, then a look at what happened during the await; reset may      *)
(* already be over.                                                        *)
handle_reset_done ==
  /\ top.waiting
  /\ top' = [top EXCEPT !.waiting = FALSE]
  /\ stale' = {}
  /\ \E rst \in {0, 1} :
       Look([Cleared EXCEPT !.rst_active = rst = 0], NothingSeen)
  /\ UNCHANGED <<be, inflight, fe, refresh_count, bound>>

-----------------------------------------------------------------------------
(* The producers.  The drivers leave reset on their own, so commands may   *)
(* come and be answered while the top level still waits for the device.    *)
Producing ==
  /\ top.last_rst = 1 \/ top.waiting
  /\ UNCHANGED <<last, vif, top, shown>>

Event == Producing /\ ~bound.endless /\ bound.events < MaxEvent

Count == bound' = [bound EXCEPT !.events = @ + 1]

(* issue_one, for a command or a refresh (which has no port).              *)
issue_one(p, op) ==
  LET c == [tag |-> bound.next_tag, port |-> p, op |-> op]
  IN /\ Event
     /\ be' = [be EXCEPT !.last_issued_cmd = c, !.issued_req_count = @ + 1]
     /\ inflight' = inflight \cup {c}
     /\ since' = [since EXCEPT !.issue = c]
     /\ bound' = [bound EXCEPT !.events = @ + 1, !.next_tag = @ + 1]
     /\ UNCHANGED <<stale, fe, refresh_count>>

(* An answer: a refresh only leaves its page behind, a command goes to its *)
(* driver, which holds a response slot until it has sent the response.     *)
complete_rsp(c, page) ==
  /\ Event /\ c \in inflight /\ Count
  /\ inflight' = inflight \ {c}
  /\ IF c.op = "REF"
     THEN /\ be' = [be EXCEPT !.last_rsp = page]
          /\ UNCHANGED <<fe, since>>
     ELSE /\ be' = [be EXCEPT !.last_rsp = page, !.last_completed_cmd = c,
                               !.completed_cmd_count = @ + 1]
          /\ fe' = [fe EXCEPT ![c.port].slots = @ + 1]
          /\ since' = [since EXCEPT !.complete = c]
  /\ UNCHANGED <<stale, refresh_count>>

(* An answer to a request of the epoch before.                             *)
complete_rsp_stale(c, page) ==
  /\ c \in stale
  /\ stale' = stale \ {c}
  /\ be' = [be EXCEPT !.last_rsp = page]
  /\ UNCHANGED <<inflight, fe, refresh_count, last, vif, top, since, shown,
                 bound>>

OneMore(n) == IF MaxCount = 0 THEN n + 1 ELSE (n % MaxCount) + 1

(* The count that the next look compares with.                             *)
SeenRejects(p) == IF top.waiting THEN 0 ELSE last.reject[p]

(* record_local_reject and complete_local.  A count that starts again      *)
(* never meets the one of the last look.                                   *)
record_local_reject(p) ==
  LET n == OneMore(fe[p].local_reject_count)
  IN /\ Producing
     /\ n # SeenRejects(p) /\ fe[p].slots < MaxEvent
     /\ fe' = [fe EXCEPT ![p] =
                 [local_reject_count |-> n, slots |-> @.slots + 1]]
     /\ since' = [since EXCEPT !.owed = @ \cup {p},
                               !.reject = [port |-> p, n |-> n]]
     /\ IF bound.endless THEN UNCHANGED bound
                         ELSE bound.events < MaxEvent /\ Count
     /\ UNCHANGED <<be, inflight, stale, refresh_count>>

(* A driver has sent a response.                                           *)
SendResponse(p) ==
  /\ fe[p].slots > 0
  /\ fe' = [fe EXCEPT ![p].slots = @ - 1]
  /\ UNCHANGED <<be, inflight, stale, refresh_count, last, vif, top, since,
                 shown, bound>>

emit_refresh_burst ==
  /\ Event /\ Count /\ top.last_rst = 1
  /\ refresh_count' = refresh_count + NRanks
  /\ since' = [since EXCEPT !.refresh = NRanks - 1]
  /\ UNCHANGED <<be, inflight, stale, fe>>

Produce ==
  \/ \E p \in Port : issue_one(p, "RD")
  \/ issue_one(-1, "REF")
  \/ \E c \in inflight :
       IF c.op = "REF" THEN complete_rsp(c, "UNKNOWN")
       ELSE \E page \in {"HIT", "MISS"} : complete_rsp(c, page)
  \/ \E c \in stale : complete_rsp_stale(c, "MISS")
  \/ \E p \in Port : record_local_reject(p) \/ SendResponse(p)
  \/ emit_refresh_burst

Next ==
  Clock \/ arm_after_reset \/ handle_reset \/ handle_reset_done \/ Produce

Spec == Init /\ [][Next]_vars

(* The clock never stops and the device's own reset ends.                  *)
FairSpec == Spec /\ WF_vars(Clock) /\ WF_vars(handle_reset_done)

-----------------------------------------------------------------------------
(* Every look shows what happened since the one before, and nothing else:  *)
(* a pulse for each kind of event, its summary the last of them - across   *)
(* resets at any point, answers to requests of an earlier epoch, and       *)
(* commands that come and go while the top level waits for the device.     *)
PulsesMatchEvents ==
  ~top.waiting =>
    /\ vif.issue_pulse = (shown.issue # NoCmd)
    /\ vif.issue_pulse => vif.issue = shown.issue
    /\ vif.complete_pulse = (shown.complete # NoCmd)
    /\ vif.complete_pulse => vif.complete = shown.complete
    /\ vif.refresh_pulse = (shown.refresh # -1)
    /\ vif.refresh_pulse => vif.refresh_rank = shown.refresh

(* A look that follows a reject shows one, and the ports whose counts are  *)
(* unseen are exactly those that rejected since they were last shown: a    *)
(* reject that waits behind a lower port's is not lost, and none is shown  *)
(* twice or after a reset.                                                 *)
RejectKept ==
  ~top.waiting =>
    /\ shown.reject # NoReject => vif.reject_pulse
    /\ Unseen(last) = since.owed

(* What a look shows is what happened, and what it cannot show yet is      *)
(* kept.                                                                   *)
ProbeExact == PulsesMatchEvents /\ RejectKept

(* One reject is shown a clock, the lowest port's, so a port that rejects  *)
(* without end may hide the rejects of all above it for ever.  Only that   *)
(* can: unless lower ports reject for ever, a port's reject is shown in    *)
(* the end, or a reset comes first; port 0's always is.                    *)
RejectShown ==
  \A p \in Port :
    \/ []<><<\E q \in Port : q < p /\ record_local_reject(q)>>_vars
    \/ p \in Unseen(last) ~>
         \/ vif.reject_pulse /\ vif.reject.port = p
         \/ top.waiting
=============================================================================
