------------------------------- MODULE Refresh -------------------------------
(***************************************************************************)
(* The refresh engine (vip_mc_refresh) and the part of the top level       *)
(* (vip_mc) that starts its timer loop after a reset and stops it at the   *)
(* next.  The loop sleeps tREFI and ticks; the top level looks at reset at *)
(* clock edges, and not at all while it waits for the device's own reset.  *)
(* Time is discrete; a clock edge may fall anywhere between two steps.     *)
(***************************************************************************)
EXTENDS Integers, Sequences, Bags

CONSTANTS
  Cfg,       (* configurations: refresh_policy, "PERIODIC" or "DEFERRED", *)
             (* refresh_max_deferred, and tREFI, ticking every time unit  *)
             (* when it is <= 0                                           *)
  NRanks,    (* geom.N_RANKS_P *)
  MaxTime,   (* bound of the model: time units after a reset *)
  MaxReset   (* bound of the model: resets *)

ASSUME RefreshAssumption ==
  /\ Cfg \subseteq [refresh_policy : {"PERIODIC", "DEFERRED"},
                    refresh_max_deferred : Int, tREFI : Int]
  /\ NRanks \in Nat \ {0} /\ MaxTime \in Nat /\ MaxReset \in Nat

VARIABLES
  cfg,      (* the configuration, which does not change *)
  eng,      (* the engine's fields *)
  loops,    (* bag: for each live _refresh_loop, the time it still sleeps *)
  task,     (* the loop _refresh_task holds: "none" or "set" *)
  top,      (* run_phase: [last_rst, waiting], waiting in dram.reset() *)
  elapsed,  (* history: time since the loop was started *)
  resets    (* history: resets seen *)

vars == <<cfg, eng, loops, task, top, elapsed, resets>>

Interval == IF cfg.tREFI <= 0 THEN 1 ELSE cfg.tREFI

limit ==
  IF cfg.refresh_max_deferred >= 1 THEN cfg.refresh_max_deferred ELSE 1

Cleared ==
  [armed |-> FALSE, ref_ctr |-> 0, refresh_count |-> 0, deferred_debt |-> 0,
   peak_deferred_debt |-> 0, deferred_catchup_count |-> 0]

-----------------------------------------------------------------------------
(* The engine.                                                             *)
emit_refresh_burst(e, n) ==
  [e EXCEPT !.ref_ctr = @ + n * NRanks, !.refresh_count = @ + n * NRanks]

tick_deferred(e) ==
  LET debt == e.deferred_debt + 1
      e1 == [e EXCEPT !.peak_deferred_debt = IF debt > @ THEN debt ELSE @]
  IN IF debt < limit THEN [e1 EXCEPT !.deferred_debt = debt]
     ELSE [emit_refresh_burst(e1, debt) EXCEPT
             !.deferred_debt = 0, !.deferred_catchup_count = @ + 1]

tick(e) ==
  IF cfg.refresh_policy = "DEFERRED" THEN tick_deferred(e)
  ELSE emit_refresh_burst(e, 1)

flush == Cleared

-----------------------------------------------------------------------------
(* The top level.                                                          *)
Start(e, l, t) ==
  IF t = "none"
  THEN [eng |-> [e EXCEPT !.armed = TRUE],
        loops |-> l (+) SetToBag({Interval}), task |-> "set"]
  ELSE [eng |-> e, loops |-> l, task |-> t]

Init ==
  /\ cfg \in Cfg
  /\ \E rst \in {0, 1} :
       LET s == IF rst = 1 THEN Start(Cleared, EmptyBag, "none")
                ELSE [eng |-> Cleared, loops |-> EmptyBag, task |-> "none"]
       IN /\ eng = s.eng /\ loops = s.loops /\ task = s.task
          /\ top = [last_rst |-> rst, waiting |-> FALSE]
          /\ elapsed = 0 /\ resets = 0

(* A live loop whose sleep is over ticks an armed engine and sleeps again. *)
refresh_loop ==
  /\ BagIn(0, loops)
  /\ eng' = IF eng.armed THEN tick(eng) ELSE eng
  /\ loops' = loops (-) SetToBag({0}) (+) SetToBag({Interval})
  /\ UNCHANGED <<task, top, elapsed, resets>>

arm_after_reset ==
  /\ ~top.waiting /\ top.last_rst = 0
  /\ LET s == Start(eng, loops, task)
     IN eng' = s.eng /\ loops' = s.loops /\ task' = s.task
  /\ top' = [top EXCEPT !.last_rst = 1]
  /\ elapsed' = 0
  /\ UNCHANGED resets

(* Mutant: the loop is killed but the engine keeps its counters.           *)
handle_reset_no_flush ==
  /\ ~top.waiting /\ top.last_rst = 1 /\ resets < MaxReset
  /\ eng' = [eng EXCEPT !.armed = FALSE]
  /\ loops' = EmptyBag /\ task' = "none"
  /\ top' = [last_rst |-> 0, waiting |-> TRUE] /\ resets' = resets + 1
  /\ UNCHANGED elapsed

(* Kill is immediate: the loop sleeps whenever the top level runs.  The    *)
(* loop killed is the one _refresh_task holds, the last one started.       *)
handle_reset ==
  /\ ~top.waiting /\ top.last_rst = 1 /\ resets < MaxReset
  /\ eng' = flush
  /\ IF task = "none" THEN UNCHANGED loops
     ELSE \E t \in DOMAIN loops : loops' = loops (-) SetToBag({t})
  /\ task' = "none"
  /\ top' = [last_rst |-> 0, waiting |-> TRUE] /\ resets' = resets + 1
  /\ UNCHANGED elapsed

(* dram.reset() is over.                                                   *)
ResetDone ==
  /\ top.waiting
  /\ top' = [top EXCEPT !.waiting = FALSE]
  /\ UNCHANGED <<eng, loops, task, elapsed, resets>>

(* Time passes, never past a loop that is due.                             *)
Time ==
  /\ ~BagIn(0, loops) /\ elapsed < MaxTime
  /\ loops' = [t \in {u - 1 : u \in DOMAIN loops} |-> loops[t + 1]]
  /\ elapsed' = elapsed + 1
  /\ UNCHANGED <<eng, task, top, resets>>

Next ==
  /\ \/ refresh_loop \/ arm_after_reset \/ handle_reset \/ ResetDone
     \/ Time
  /\ UNCHANGED cfg

Spec == Init /\ [][Next]_vars

-----------------------------------------------------------------------------
Ticks == elapsed \div Interval - (IF BagIn(0, loops) THEN 1 ELSE 0)

(* At any moment of an epoch the refreshes sent and the debt make up one   *)
(* burst over all ranks per tREFI since the engine was armed: no interval  *)
(* is lost or counted twice by deferring, by a catch-up, or by a reset     *)
(* that lands anywhere between two ticks.                                  *)
RateExact ==
  IF eng.armed
  THEN eng.refresh_count + eng.deferred_debt * NRanks = Ticks * NRanks
  ELSE eng = Cleared

(* A refresh is put off by fewer intervals than the limit, whatever the    *)
(* limit is configured to, and the peak that telemetry shows is what it    *)
(* was.                                                                    *)
PostponedBounded ==
  /\ eng.deferred_debt < limit
  /\ eng.peak_deferred_debt <= limit
  /\ eng.deferred_catchup_count > 0 =>
       /\ eng.peak_deferred_debt = limit
       /\ eng.refresh_count = eng.deferred_catchup_count * limit * NRanks

(* There is one timer loop while the engine is armed and none otherwise.   *)
OneLoop ==
  IF eng.armed THEN \E t \in DOMAIN loops : loops = SetToBag({t})
               ELSE loops = EmptyBag

(* Refreshes are issued at their rate, deferred within the limit, by one   *)
(* loop.                                                                   *)
RefreshExact == RateExact /\ PostponedBounded /\ OneLoop
=============================================================================
