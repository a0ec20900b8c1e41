------------------------------ MODULE Backend -------------------------------
(***************************************************************************)
(* The backend (vip_mc_backend): one coroutine drains the refresh FIFO,    *)
(* admits one frontend entry at a time into the command queue and issues   *)
(* to the device while it has credit.  Everything else - submissions, the  *)
(* device's answers, refresh ticks, the bring-up timer, reset - runs only  *)
(* while that coroutine is suspended in its 1 ns timer, because a drain    *)
(* never awaits.                                                           *)
(*                                                                         *)
(* The reset sequence is the part of vip_mc.run_phase that touches the     *)
(* backend.  The device is external: it accepts every request and answers  *)
(* in any order.                                                           *)
(***************************************************************************)
EXTENDS CmdQueue, FeArbiter

CONSTANTS
  MaxInflightToDevice,   (* cfg.max_inflight_to_device, <= 0 means unbounded *)
  FrFcfsEnable,          (* cfg.fr_fcfs_enable *)
  FrFcfsStarvationCap,   (* cfg.fr_fcfs_starvation_cap, 0 disables *)
  RdWrGroupingEnable,    (* cfg.rd_wr_grouping_enable *)
  RdWrGroupingMax,       (* cfg.rd_wr_grouping_max, 0 means no limit *)
  InitDelay,             (* cfg.init_delay_enabled with a positive delay *)
  MaxRefresh,            (* bound of the model: refreshes per reset epoch *)
  MaxReset               (* bound of the model: reset assertions *)

ASSUME BackendAssumption ==
  /\ MaxInflightToDevice \in Int /\ FrFcfsStarvationCap \in Nat
  /\ RdWrGroupingMax \in Nat /\ MaxRefresh \in Nat /\ MaxReset \in Nat
  /\ {FrFcfsEnable, RdWrGroupingEnable, InitDelay} \subseteq BOOLEAN
  /\ \A c \in Cmd : c.port \in Port

VARIABLES
  ref_fifo,              (* refresh entries, by tag *)
  inflight_ref_by_tag,   (* tags of the refreshes at the device *)
  inflight_to_device,
  init_gate_open,
  bypass_count,          (* entry.bypass_count *)
  last_issued_dir,       (* last_issued_is_read, "none" = not valid *)
  same_dir_run_len,
  turn,                  (* where run_phase is: "wait", "run" or "issue" *)
  (* reset, bring-up and refresh source *)
  rst,                   (* "high", or "low" with the device "draining" first *)
  epoch,                 (* history: number of resets so far *)
  gate_timers,           (* epochs whose _open_init_gate_after still sleeps *)
  ref_ctr,
  (* the device, the ports, and history *)
  dev,                   (* tags the device still has to answer *)
  served,                (* entries handed back through frontend.complete *)
  submit_rank, submits   (* history: order of submission *)

dirVars    == <<last_issued_dir, same_dir_run_len>>
refVars    == <<ref_fifo, inflight_ref_by_tag, ref_ctr>>
resetVars  == <<rst, epoch, init_gate_open, gate_timers>>
submitVars == <<submit_rank, submits>>
vars == <<queueState, arbVars, dirVars, refVars, resetVars, submitVars,
          inflight_to_device, bypass_count, turn, dev, served>>

(* A refresh tag has bit 63 set, so it never equals a command's tag.       *)
RefTag(k) == -(k + 1)

Init ==
  /\ QueueInit /\ ArbInit
  /\ ref_fifo = <<>> /\ inflight_ref_by_tag = {} /\ ref_ctr = 0
  /\ inflight_to_device = 0
  /\ init_gate_open = TRUE
  /\ bypass_count = [c \in Cmd |-> 0]
  /\ last_issued_dir = "none" /\ same_dir_run_len = 0
  /\ turn = "wait"
  /\ rst = "low" /\ epoch = 0 /\ gate_timers = {}
  /\ dev = {} /\ served = {}
  /\ submit_rank = [c \in Cmd |-> 0] /\ submits = 0

-----------------------------------------------------------------------------
(* Scheduling.                                                             *)
device_has_issue_credit ==
  MaxInflightToDevice <= 0 \/ inflight_to_device < MaxInflightToDevice

CanIssue == device_has_issue_credit /\ Candidates # {}

(* Mutant: a full run of one direction goes on.                            *)
PreferredDir_no_turn == last_issued_dir

(* The device's predict() may prefer any of the entries it is asked about. *)
(* Grouping asks only about the preferred direction, if it has an entry.   *)
PreferredDir ==
  IF RdWrGroupingMax > 0 /\ same_dir_run_len >= RdWrGroupingMax
  THEN IF last_issued_dir = "RD" THEN "WR" ELSE "RD"
  ELSE last_issued_dir

ReadyFirst ==
  LET grouped == {c \in Candidates : c.op = PreferredDir}
  IN IF RdWrGroupingEnable /\ last_issued_dir # "none" /\ grouped # {}
     THEN grouped ELSE Candidates

Starved ==
  {c \in Candidates : /\ FrFcfsStarvationCap > 0
                        /\ bypass_count[c] >= FrFcfsStarvationCap}

(* Every older candidate is bypassed by the pick of c.                     *)
Bypass(c) ==
  LET older == {d \in Candidates : admit_order[d] < admit_order[c]}
  IN bypass_count' =
       [d \in Cmd |-> IF FrFcfsStarvationCap > 0 /\ d \in older
                      THEN bypass_count[d] + 1 ELSE bypass_count[d]]

(* Mutant: a starved entry is not forced.                                  *)
pick_next_entry_fr_fcfs_unforced(c) ==
  /\ c \in ReadyFirst
  /\ Bypass(c)

pick_next_entry_fr_fcfs(c) ==
  \/ /\ c \in Starved
     /\ \A d \in Starved : admit_order[c] <= admit_order[d]
     /\ UNCHANGED bypass_count
  \/ /\ Starved = {}
     /\ c \in ReadyFirst
     /\ Bypass(c)

pick_next_entry(c) ==
  IF FrFcfsEnable THEN pick_next_entry_fr_fcfs(c)
                  ELSE pick(c) /\ UNCHANGED bypass_count

(* The direction bookkeeping of issue_one; a refresh leaves it alone.      *)
issue_one(c) ==
  /\ last_issued_dir' = c.op
  /\ same_dir_run_len' = IF last_issued_dir \notin {"none", c.op}
                         THEN 1 ELSE same_dir_run_len + 1

-----------------------------------------------------------------------------
(* The drain loop.                                                         *)
NothingToRefresh == ref_fifo = <<>>

(* Mutant: a refresh alone does not wake the loop.                         *)
Wake_no_refresh ==
  /\ turn = "wait" /\ init_gate_open
  /\ \/ Waiting # {}
     \/ CanIssue
  /\ turn' = "run"
  /\ UNCHANGED <<queueState, arbVars, dirVars, refVars, resetVars, submitVars,
                 inflight_to_device, bypass_count, dev, served>>

Wake ==
  /\ turn = "wait" /\ init_gate_open
  /\ \/ ref_fifo # <<>>
     \/ Waiting # {}
     \/ CanIssue
  /\ turn' = "run"
  /\ UNCHANGED <<queueState, arbVars, dirVars, refVars, resetVars, submitVars,
                 inflight_to_device, bypass_count, dev, served>>

RunRefresh ==
  /\ turn = "run" /\ ref_fifo # <<>>
  /\ ref_fifo' = Tail(ref_fifo)
  /\ inflight_ref_by_tag' = inflight_ref_by_tag \cup {Head(ref_fifo)}
  /\ dev' = dev \cup {Head(ref_fifo)}
  /\ UNCHANGED <<queueState, arbVars, dirVars, resetVars, submitVars, ref_ctr,
                 inflight_to_device, bypass_count, turn, served>>

(* admit_one_ready_fe_entry, the first half of _run_once.                  *)
RunAdmit(p) ==
  /\ turn = "run" /\ NothingToRefresh
  /\ grant(p)
  /\ Accept(Head(fe_fifo[p]))
  /\ turn' = "issue"
  /\ UNCHANGED <<dirVars, refVars, resetVars, submitVars, inflight_to_device,
                 bypass_count, dev, served>>

(* The second half of _run_once, reached with or without an admission: the *)
(* pick and _issue_or_complete.                                            *)
AtPick ==
  \/ turn = "issue"
  \/ turn = "run" /\ NothingToRefresh /\ Waiting = {}

(* Mutant: the picked entry stays in its class list.                       *)
RunIssue_peek(c) ==
  /\ AtPick
  /\ device_has_issue_credit
  /\ pick_next_entry(c)
  /\ enqueue(c)
  /\ issue_one(c)
  /\ inflight_to_device' = inflight_to_device + 1
  /\ dev' = dev \cup {next_tag}
  /\ turn' = "run"
  /\ UNCHANGED <<queued, oldest_queued, admit_order, next_admit_order, waited,
                 merged_writes, wdata, arrival, arrivals,
                 arbVars, refVars, resetVars, submitVars, served>>

RunIssue(c) ==
  /\ AtPick
  /\ device_has_issue_credit
  /\ pick_next_entry(c)
  /\ Issue(c)
  /\ IF c.pre
     THEN /\ served' = served \cup Group(c)
          /\ UNCHANGED <<dirVars, inflight_to_device, dev>>
     ELSE /\ issue_one(c)
          /\ inflight_to_device' = inflight_to_device + 1
          /\ dev' = dev \cup {next_tag}
          /\ UNCHANGED served
  /\ turn' = "run"
  /\ UNCHANGED <<arbVars, refVars, resetVars, submitVars>>

RunNoIssue ==
  /\ ~CanIssue
  /\ \/ turn = "issue" /\ turn' = "run"
     \/ /\ turn = "run" /\ NothingToRefresh /\ Waiting = {}
        /\ turn' = "wait"
  /\ UNCHANGED <<queueState, arbVars, dirVars, refVars, resetVars, submitVars,
                 inflight_to_device, bypass_count, dev, served>>

-----------------------------------------------------------------------------
(* The rest of the controller, between two drains.  A driver submits only  *)
(* while its reset is high.  The reset pin is assumed to be released after *)
(* the device's reset has returned, so no command comes in between.        *)
Submit(c) ==
  /\ turn = "wait" /\ rst = "high"
  /\ submit_rank[c] = 0
  /\ submit(c.port, c)
  /\ submits' = submits + 1
  /\ submit_rank' = [submit_rank EXCEPT ![c] = submits + 1]
  /\ UNCHANGED <<queueState, dirVars, refVars, resetVars, inflight_to_device,
                 bypass_count, turn, dev, served>>

(* Mutants of complete_rsp: the credit is never returned; the writes that  *)
(* were merged into the completed one are forgotten.                       *)
complete_rsp_keep_credit(t) ==
  IF t \in inflight_ref_by_tag
  THEN /\ inflight_ref_by_tag' = inflight_ref_by_tag \ {t}
       /\ UNCHANGED <<queueState, inflight_to_device, served>>
  ELSE /\ UNCHANGED <<inflight_ref_by_tag, inflight_to_device>>
       /\ \/ /\ complete_by_rsp(t)
             /\ served' = served \cup
                  UNION {Group(c) : c \in {d \in inflight : tag[d] = t}}
          \/ /\ \A c \in inflight : tag[c] # t
             /\ UNCHANGED <<queueState, served>>

complete_rsp_primary_only(t) ==
  IF t \in inflight_ref_by_tag
  THEN /\ inflight_ref_by_tag' = inflight_ref_by_tag \ {t}
       /\ UNCHANGED <<queueState, inflight_to_device, served>>
  ELSE /\ UNCHANGED inflight_ref_by_tag
       /\ \/ /\ complete_by_rsp(t)
             /\ inflight_to_device' = inflight_to_device - 1
             /\ served' = served \cup {c \in inflight : tag[c] = t}
          \/ /\ \A c \in inflight : tag[c] # t
             /\ UNCHANGED <<queueState, inflight_to_device, served>>

(* write -> complete_rsp -> _complete_frontend, for one device response.   *)
complete_rsp(t) ==
  IF t \in inflight_ref_by_tag
  THEN /\ inflight_ref_by_tag' = inflight_ref_by_tag \ {t}
       /\ UNCHANGED <<queueState, inflight_to_device, served>>
  ELSE /\ UNCHANGED inflight_ref_by_tag
       /\ \/ /\ complete_by_rsp(t)
             /\ inflight_to_device' = IF inflight_to_device > 0
                                      THEN inflight_to_device - 1 ELSE 0
             /\ served' = served \cup
                  UNION {Group(c) : c \in {d \in inflight : tag[d] = t}}
          \/ /\ \A c \in inflight : tag[c] # t
             /\ UNCHANGED <<queueState, inflight_to_device, served>>

Respond(t) ==
  /\ turn = "wait"
  /\ t \in dev
  /\ dev' = dev \ {t}
  /\ complete_rsp(t)
  /\ UNCHANGED <<arbVars, dirVars, resetVars, submitVars, ref_fifo, ref_ctr,
                 bypass_count, turn>>

(* One refresh.tick() of an armed source, for one rank.                    *)
EmitRefresh ==
  /\ turn = "wait" /\ rst = "high"
  /\ ref_ctr < MaxRefresh
  /\ ref_fifo' = Append(ref_fifo, RefTag(ref_ctr))
  /\ ref_ctr' = ref_ctr + 1
  /\ UNCHANGED <<queueState, arbVars, dirVars, resetVars, submitVars,
                 inflight_ref_by_tag, inflight_to_device, bypass_count, turn,
                 dev, served>>

Tick ==
  /\ turn = "wait"
  /\ Age
  /\ UNCHANGED <<arbVars, dirVars, refVars, resetVars, submitVars,
                 inflight_to_device, bypass_count, turn, dev, served>>

(* Mutants of flush: the device credit, or the table of refreshes in       *)
(* flight, survives the reset.                                             *)
flush_keep_credit ==
  /\ flush_queue
  /\ flush_fe
  /\ ref_fifo' = <<>> /\ inflight_ref_by_tag' = {}
  /\ last_issued_dir' = "none" /\ same_dir_run_len' = 0
  /\ UNCHANGED inflight_to_device

flush_keep_refresh ==
  /\ flush_queue
  /\ flush_fe
  /\ ref_fifo' = <<>>
  /\ inflight_to_device' = 0
  /\ last_issued_dir' = "none" /\ same_dir_run_len' = 0
  /\ UNCHANGED inflight_ref_by_tag

(* vip_mc.handle_reset up to its await: backend.flush, refresh.flush.      *)
flush ==
  /\ flush_queue
  /\ flush_fe
  /\ ref_fifo' = <<>> /\ inflight_ref_by_tag' = {}
  /\ inflight_to_device' = 0
  /\ last_issued_dir' = "none" /\ same_dir_run_len' = 0

AssertReset ==
  /\ turn = "wait" /\ rst = "high" /\ epoch < MaxReset
  /\ rst' = "draining" /\ epoch' = epoch + 1
  /\ flush
  /\ ref_ctr' = 0
  /\ UNCHANGED <<submitVars, init_gate_open, gate_timers, bypass_count, turn,
                 dev, served>>

(* dram.reset() returns, before the reset pin is released: the device has  *)
(* dropped what it held.                                                   *)
DramReset ==
  /\ turn = "wait" /\ rst = "draining"
  /\ rst' = "low"
  /\ dev' = {}
  /\ UNCHANGED <<queueState, arbVars, dirVars, refVars, submitVars, epoch,
                 init_gate_open, gate_timers, inflight_to_device, bypass_count,
                 turn, served>>

(* _arm_after_reset -> init_gate_arm; nothing cancels an older timer.      *)
init_gate_arm ==
  IF InitDelay
  THEN /\ init_gate_open' = FALSE
       /\ gate_timers' = gate_timers \cup {epoch}
  ELSE /\ init_gate_open' = TRUE
       /\ UNCHANGED gate_timers

DeassertReset ==
  /\ turn = "wait" /\ rst = "low"
  /\ rst' = "high"
  /\ init_gate_arm
  /\ UNCHANGED <<queueState, arbVars, dirVars, refVars, submitVars, epoch,
                 inflight_to_device, bypass_count, turn, dev, served>>

(* All delays are equal, so the timer armed first fires first.             *)
open_init_gate_after ==
  /\ turn = "wait"
  /\ \E e \in gate_timers :
       /\ \A f \in gate_timers : e <= f
       /\ gate_timers' = gate_timers \ {e}
  /\ init_gate_open' = TRUE
  /\ UNCHANGED <<queueState, arbVars, dirVars, refVars, submitVars, rst, epoch,
                 inflight_to_device, bypass_count, turn, dev, served>>

Drain ==
  \/ Wake
  \/ RunRefresh
  \/ \E p \in Port : RunAdmit(p)
  \/ \E c \in queued : RunIssue(c)
  \/ RunNoIssue

Next ==
  \/ Drain
  \/ \E c \in Cmd : Submit(c)
  \/ \E t \in dev : Respond(t)
  \/ EmitRefresh
  \/ Tick
  \/ AssertReset \/ DramReset \/ DeassertReset
  \/ open_init_gate_after

Spec == Init /\ [][Next]_vars

(* The simulator keeps scheduling the run loop and its timers; the device  *)
(* answers every request; a reset that began ends.                         *)
Fairness ==
  /\ WF_vars(Drain)
  /\ \A t \in -MaxRefresh .. Cardinality(Cmd) : WF_vars(Respond(t))
  /\ WF_vars(DramReset) /\ WF_vars(DeassertReset)
  /\ WF_vars(open_init_gate_after)

FairSpec == Spec /\ Fairness

-----------------------------------------------------------------------------
get_status_stall_reason ==
  IF ref_fifo # <<>> THEN "REF_STRICT_PRIORITY"
  ELSE IF ~device_has_issue_credit THEN "DEVICE_CREDIT_FULL"
  ELSE IF has_issuable_entry THEN "NONE"
  ELSE IF queued # {} THEN "SAME_STREAM_BLOCKED"
  ELSE IF Waiting # {} THEN "CMD_QUEUE_EMPTY"
  ELSE "NO_BUFFERED_INPUT"

Buffered == {c \in Cmd : \E p \in Port : \E i \in DOMAIN fe_fifo[p] :
                           fe_fifo[p][i] = c}

(* Submitted and still owed an answer: in a port FIFO, in the queue, at    *)
(* the device, or merged into a write that is.                             *)
Outstanding == Buffered \cup UNION {Group(c) : c \in Pending}

(* The credit counter, which every drain trusts, is the number of commands *)
(* in flight, across answers in any order, resets and late answers, and    *)
(* never exceeds the configured limit.                                     *)
CreditExact ==
  /\ inflight_to_device = Cardinality(inflight)
  /\ MaxInflightToDevice > 0 => inflight_to_device <= MaxInflightToDevice

(* Once the device has been reset too, controller and device agree on what *)
(* is in flight: no slot waits for an answer that cannot come, and no      *)
(* answer comes that nobody waits for.                                     *)
DeviceAgrees ==
  rst # "draining" =>
    dev = {tag[c] : c \in inflight} \cup inflight_ref_by_tag

(* A command stops being owed an answer exactly when its port is handed    *)
(* one, the writes merged into it with it; only a reset drops commands,    *)
(* and what it dropped is never answered.                                  *)
AnsweredOnce ==
  [][IF rst = "high" /\ rst' = "draining"
     THEN served' = served
     ELSE /\ served \subseteq served'
          /\ served' \ served = Outstanding \ Outstanding']_vars

(* From the port's submission to its answer the backend is the abstract    *)
(* service: streams in order through FIFO, arbiter, queue and device.      *)
PortService == INSTANCE StreamService WITH
                 pending <- Outstanding,
                 arrival <- submit_rank,
                 arrivals <- submits
PortServiceSpec == PortService!Spec

(* No entry is bypassed more often than the starvation cap.                *)
BypassBounded ==
  FrFcfsStarvationCap > 0 =>
    \A c \in Cmd : bypass_count[c] <= FrFcfsStarvationCap

(* What holds the loop when it goes to sleep is what the probe shows.      *)
SleepExplained ==
  turn # "wait" /\ turn' = "wait" =>
    CASE get_status_stall_reason' = "SAME_STREAM_BLOCKED" ->
           /\ queued' # {}
           /\ \A c \in queued' : \E d \in inflight' :
                stream_key(d) = stream_key(c) /\ admit_order'[d] < admit_order'[c]
      [] get_status_stall_reason' = "DEVICE_CREDIT_FULL" ->
           inflight_to_device' = MaxInflightToDevice
      [] get_status_stall_reason' = "NO_BUFFERED_INPUT" ->
           queued' \cup Buffered' = {}
      [] OTHER -> FALSE

(* When the run loop goes to sleep the status probe gives the reason that  *)
(* holds it: every waiting command is behind one of its stream at the      *)
(* device, or the device is full, or there is nothing to do - never "none" *)
(* and never a reason that the loop could have worked on.                  *)
StallExplained == [][SleepExplained]_vars

(* Nothing is handed to the device before the bring-up delay of the        *)
(* current reset has run out.                                              *)
BringUpRespected ==
  [][dev' \subseteq dev \/ epoch \notin gate_timers]_vars

(* Every submitted command is answered, or dropped by a reset.             *)
EverySubmitAnswered ==
  \A c \in Cmd : c \in Outstanding ~> c \notin Outstanding

(* Every refresh reaches the device, or is dropped by a reset, whether or  *)
(* not there is device credit or other traffic.                            *)
EveryRefreshIssued == ref_fifo # <<>> ~> ref_fifo = <<>>
=============================================================================
