----------------------------- MODULE Observers ------------------------------
(***************************************************************************)
(* The two components of the testbench that watch the controller and join  *)
(* its event streams: the scoreboard (mc_scoreboard) files a prediction    *)
(* for every grant and takes it out again when the port's monitor sees a   *)
(* B or R response of the same port and ID; the coverage collector         *)
(* (mc_coverage) parks every granted entry under its tag until the device  *)
(* answers that tag.  Neither is told of a reset.                          *)
(*                                                                         *)
(* The module runs them on the steps of Backend.  Between the backend and  *)
(* the monitor stands the frontend: responses of one port, ID and          *)
(* direction leave in the order in which they completed, and the frontend  *)
(* itself completes the commands it rejects (Local).                       *)
(***************************************************************************)
EXTENDS Backend

CONSTANT LocalCmd   (* commands a frontend answers itself, with their resp *)

(* A rejected command and the response it gets.  A number tells which      *)
(* command it is, rejected or not.                                         *)
LocalEntry == [n : Nat, port : Nat, id : Nat, op : {"RD", "WR"},
               resp : {"OKAY", "SLVERR", "DECERR"}]

ASSUME ObserversAssumption ==
  /\ LocalCmd \subseteq LocalEntry
  /\ \A c, d \in Cmd \cup LocalCmd : c.n = d.n => c = d

VARIABLES
  bus,               (* per stream: responses the monitor has still to see *)
  rejected,          (* commands answered by the frontend itself *)
  enabled,           (* mc_scoreboard.enabled *)
  (* mc_scoreboard; n identifies the command a prediction was made for *)
  pending,           (* wr_pending and rd_pending *)
  predicted_entries, observed, decerr_responses, unpredicted_responses,
  matched,           (* history: <<answered command, popped prediction>> *)
  (* mc_coverage *)
  cov_inflight,      (* _inflight: tag to granted command, 0 for a refresh *)
  prev_op, issued_samples, rsp_samples, resp_samples, orphan_responses

sbVars  == <<pending, predicted_entries, observed, decerr_responses,
             unpredicted_responses, matched>>
covVars == <<cov_inflight, prev_op, issued_samples, rsp_samples,
             resp_samples, orphan_responses>>
obsVars == <<bus, rejected, enabled, sbVars, covVars>>
allVars == <<vars, obsVars>>

BusStream == Stream \cup {stream_key(l) : l \in LocalCmd}

ObsInit ==
  /\ Init
  /\ bus = [s \in BusStream |-> <<>>] /\ rejected = {}
  /\ enabled \in BOOLEAN
  /\ pending = [s \in BusStream |-> <<>>]
  /\ predicted_entries = 0 /\ observed = 0
  /\ decerr_responses = 0 /\ unpredicted_responses = 0 /\ matched = {}
  /\ cov_inflight = <<>> /\ prev_op = "none"
  /\ issued_samples = 0 /\ rsp_samples = 0 /\ resp_samples = 0
  /\ orphan_responses = 0

-----------------------------------------------------------------------------
(* The scoreboard.                                                         *)

(* write() of a granted command: one prediction at the end of its stream.  *)
write(c) ==
  IF enabled
  THEN /\ predicted_entries' = predicted_entries + 1
       /\ pending' = [pending EXCEPT ![stream_key(c)] = Append(@, c.n)]
  ELSE UNCHANGED <<predicted_entries, pending>>

(* Mutant of _check_completion: a DECERR takes a prediction too.           *)
check_completion_any_resp(s, r) ==
  /\ UNCHANGED decerr_responses
  /\ IF pending[s] = <<>>
     THEN /\ unpredicted_responses' = unpredicted_responses + 1
          /\ UNCHANGED <<pending, matched>>
     ELSE /\ pending' = [pending EXCEPT ![s] = Tail(@)]
          /\ matched' = matched \cup {<<r.n, Head(pending[s])>>}
          /\ UNCHANGED unpredicted_responses

(* _check_completion up to the comparison of times: a DECERR is counted    *)
(* and takes nothing; any other response takes the oldest prediction.      *)
check_completion(s, r) ==
  \/ /\ r.resp = "DECERR"
     /\ decerr_responses' = decerr_responses + 1
     /\ UNCHANGED <<pending, unpredicted_responses, matched>>
  \/ /\ r.resp # "DECERR" /\ pending[s] = <<>>
     /\ unpredicted_responses' = unpredicted_responses + 1
     /\ UNCHANGED <<pending, decerr_responses, matched>>
  \/ /\ r.resp # "DECERR" /\ pending[s] # <<>>
     /\ pending' = [pending EXCEPT ![s] = Tail(@)]
     /\ matched' = matched \cup {<<r.n, Head(pending[s])>>}
     /\ UNCHANGED <<decerr_responses, unpredicted_responses>>

(* observe_b and observe_r, for response r of stream s.                    *)
observe(s, r) ==
  IF enabled
  THEN observed' = observed + 1 /\ check_completion(s, r)
  ELSE UNCHANGED <<observed, decerr_responses, unpredicted_responses, pending,
                   matched>>

(* check_phase raises unless every prediction was taken.                   *)
check_phase ==
  enabled => \A s \in BusStream : pending[s] = <<>>

-----------------------------------------------------------------------------
(* The coverage collector.                                                 *)

write_issued(t, n, op) ==
  /\ issued_samples' = issued_samples + 1
  /\ prev_op' = op
  /\ cov_inflight' = [u \in DOMAIN cov_inflight \cup {t} |->
                        IF u = t THEN n ELSE cov_inflight[u]]

write_dram_rsp(t) ==
  /\ rsp_samples' = rsp_samples + 1
  /\ IF t \in DOMAIN cov_inflight
     THEN /\ cov_inflight' =
               [u \in DOMAIN cov_inflight \ {t} |-> cov_inflight[u]]
          /\ UNCHANGED orphan_responses
     ELSE /\ orphan_responses' = orphan_responses + 1
          /\ UNCHANGED cov_inflight

(* The collector's own observe_b and observe_r: one sample of cg_response. *)
sample_response == resp_samples' = resp_samples + 1

-----------------------------------------------------------------------------
(* Mutant: the grant is published before the queue gives it its tag.       *)
GrantCommand_before_enqueue(c) ==
  /\ RunIssue(c)
  /\ ~c.pre
  /\ write(c)
  /\ write_issued(tag[c], c.n, c.op)
  /\ UNCHANGED <<bus, rejected, enabled, observed, decerr_responses,
                 unpredicted_responses, matched, rsp_samples, resp_samples,
                 orphan_responses>>

(* issued_port: both components see a grant before the device does.  A     *)
(* pre-resolved entry would pass them by, but no frontend submits one.     *)
GrantCommand(c) ==
  /\ RunIssue(c)
  /\ ~c.pre
  /\ write(c)
  /\ write_issued(tag'[c], c.n, c.op)
  /\ UNCHANGED <<bus, rejected, enabled, observed, decerr_responses,
                 unpredicted_responses, matched, rsp_samples, resp_samples,
                 orphan_responses>>

GrantRefresh ==
  /\ RunRefresh
  /\ write_issued(Head(ref_fifo), 0, "REF")
  /\ UNCHANGED <<bus, rejected, enabled, sbVars, rsp_samples, resp_samples,
                 orphan_responses>>

(* The entries of S, as the queue accepted them.                           *)
Accepted(S) ==
  {q \in [1 .. Cardinality(S) -> S] :
     \A i, j \in DOMAIN q : i < j => arrival[q[i]] < arrival[q[j]]}

(* frontend.complete: the entries join the responses of their stream, the  *)
(* writes that were merged after the one they were merged into.            *)
Completed(q) ==
  [s \in BusStream |->
     IF \E i \in DOMAIN q : stream_key(q[i]) = s
     THEN bus[s] \o [i \in DOMAIN q |-> [n |-> q[i].n, resp |-> "OKAY"]]
     ELSE bus[s]]

(* rsp_port of the device.                                                 *)
DeviceAnswer(t) ==
  /\ Respond(t)
  /\ write_dram_rsp(t)
  /\ \E q \in Accepted(served' \ served) : bus' = Completed(q)
  /\ UNCHANGED <<rejected, enabled, sbVars, prev_op, issued_samples,
                 resp_samples>>

(* A frontend rejects a command and completes it on the spot.              *)
Local(l) ==
  /\ turn = "wait" /\ rst = "high"
  /\ l \notin rejected
  /\ rejected' = rejected \cup {l}
  /\ bus' = [bus EXCEPT ![stream_key(l)] =
                           Append(@, [n |-> l.n, resp |-> l.resp])]
  /\ UNCHANGED <<vars, enabled, sbVars, covVars>>

(* A port's monitor sees a response; its collectors tell both components.  *)
Observe(s) ==
  /\ turn = "wait"
  /\ bus[s] # <<>>
  /\ bus' = [bus EXCEPT ![s] = Tail(@)]
  /\ observe(s, Head(bus[s]))
  /\ sample_response
  /\ UNCHANGED <<vars, rejected, enabled, predicted_entries, cov_inflight,
                 prev_op, issued_samples, rsp_samples, orphan_responses>>

(* The frontends drop their responses; the observers are not told.         *)
Reset ==
  /\ AssertReset
  /\ bus' = [s \in BusStream |-> <<>>]
  /\ UNCHANGED <<rejected, enabled, sbVars, covVars>>

Unobserved ==
  /\ \/ Wake \/ RunNoIssue \/ \E p \in Port : RunAdmit(p)
     \/ \E c \in Cmd : Submit(c)
     \/ EmitRefresh \/ Tick
     \/ DramReset \/ DeassertReset \/ open_init_gate_after
  /\ UNCHANGED obsVars

ObsNext ==
  \/ \E c \in queued : GrantCommand(c)
  \/ GrantRefresh
  \/ \E t \in dev : DeviceAnswer(t)
  \/ \E l \in LocalCmd : Local(l)
  \/ \E s \in BusStream : Observe(s)
  \/ Reset
  \/ Unobserved

ObsSpec == ObsInit /\ [][ObsNext]_allVars

(* The tests that enable the scoreboard neither reset nor let writes       *)
(* merge, and what they have rejected, other than for its address, has an  *)
(* ID of its own.                                                          *)
TestNext ==
  /\ ObsNext
  /\ enabled => /\ epoch' = epoch /\ merged_writes' = merged_writes
                /\ \A l \in rejected' : \/ l.resp = "DECERR"
                                         \/ stream_key(l) \notin Stream

TestSpec == ObsInit /\ [][TestNext]_allVars

-----------------------------------------------------------------------------
(* Every port has been answered and its monitor has seen the answers.      *)
Quiet == /\ turn = "wait" /\ Outstanding = {}
         /\ \A s \in BusStream : bus[s] = <<>>

(* The scoreboard takes a prediction only for the response of the command  *)
(* it was made for, and nothing but a frontend's own answer finds none.    *)
MatchedOwn ==
  /\ \A m \in matched : m[1] = m[2]
  /\ unpredicted_responses + decerr_responses <= Cardinality(rejected)

(* A test that ends with every command answered never fails in             *)
(* check_phase: no prediction is left over, across commands of one ID in   *)
(* flight together, refreshes and DECERR answers among them.               *)
EndsClean == Quiet => check_phase

(* What is parked for a tag at the device is the command that the device   *)
(* holds under that tag, also after a reset, although refresh tags start   *)
(* again and the collector is never flushed; so no response is an orphan.  *)
CoverageJoins ==
  /\ dev \subseteq DOMAIN cov_inflight
  /\ \A c \in inflight : cov_inflight[tag[c]] = c.n
  /\ orphan_responses = 0

(* Until a reset drops something, what is parked is what the device holds, *)
(* each grant has been sampled once on either side, and at the end each    *)
(* submitted or rejected command has been sampled once as answered, merged *)
(* writes included.                                                        *)
CoverageDrains ==
  epoch = 0 => /\ DOMAIN cov_inflight = dev
               /\ issued_samples = rsp_samples + Cardinality(dev)
               /\ Quiet => resp_samples = submits + Cardinality(rejected)

(* The scoreboard's verdict on a test, and the collector's joins, are      *)
(* right at every moment and at the end.                                   *)
ScoreboardExact == MatchedOwn /\ EndsClean
CoverageExact   == CoverageJoins /\ CoverageDrains
=============================================================================
