----------------------------- MODULE MCTopLevel ------------------------------
(***************************************************************************)
(* The two jobs of the top level's run phase in one run: a behaviour       *)
(* either drives the refresh engine through resets or the status probe;    *)
(* the other job rests in an initial state.                                *)
(***************************************************************************)
EXTENDS Refresh

CONSTANTS NPorts, RspBufDepth, MaxEvent, MaxCount, MaxProbeReset

VARIABLES job, be, inflight, stale, fe, refresh_count, last, vif, run, since,
          shown, bound

(* The deferred policy, the plain one, and the least a deferral may be.    *)
AllCfg ==
  {[refresh_policy |-> "DEFERRED", refresh_max_deferred |-> 3, tREFI |-> 2],
   [refresh_policy |-> "PERIODIC", refresh_max_deferred |-> 3, tREFI |-> 2],
   [refresh_policy |-> "DEFERRED", refresh_max_deferred |-> 0, tREFI |-> 0]}

Probe == INSTANCE Status WITH top <- run, MaxReset <- MaxProbeReset

ASSUME ProbeAssumption == Probe!StatusAssumption

probeVars == <<be, inflight, stale, fe, refresh_count, last, vif, run, since,
               shown, bound>>
allVars == <<vars, job, probeVars>>

IsRefresh == job = "refresh"

TopInit ==
  /\ job \in {"refresh", "status"}
  /\ Init
  /\ Probe!Init
  /\ ~IsRefresh => top.last_rst = 0 /\ cfg.refresh_policy = "PERIODIC"
  /\ IsRefresh => ~bound.endless

TopNext ==
  \/ IsRefresh /\ Next /\ UNCHANGED <<job, probeVars>>
  \/ ~IsRefresh /\ Probe!Next /\ UNCHANGED <<job, vars>>

(* Status's fairness: the clock never stops, the device's reset ends.      *)
TopSpec ==
  /\ TopInit /\ [][TopNext]_allVars
  /\ WF_probeVars(~IsRefresh /\ Probe!Clock /\ UNCHANGED <<job, vars>>)
  /\ WF_probeVars(~IsRefresh /\ Probe!handle_reset_done
                   /\ UNCHANGED <<job, vars>>)

(* The probe's pulses and kept rejects, and that a reject is shown in the  *)
(* end unless lower ports reject without end; stated in Status.            *)
ProbeExact  == ~IsRefresh => Probe!ProbeExact
RejectShown == Probe!RejectShown
=============================================================================
