----------------------------- MODULE Telemetry ------------------------------
(***************************************************************************)
(* The performance counters of the backend (vip_mc_backend) and of its     *)
(* command queue, over every run of that queue: what is noted when a       *)
(* command is admitted, merged, taken, issued and answered, out of order   *)
(* and across resets.  Time is discrete, every command is one row word     *)
(* long, and bytes are counted in row words.  Refresh commands, which the  *)
(* counts of requests and answers include, are not part of the model.      *)
(***************************************************************************)
EXTENDS CmdQueue, Sequences, FiniteSetsExt

CONSTANTS
  Cfg,       (* configurations: perf_counters_enabled, ecc_enable and      *)
             (* fr_fcfs_enable, with the commands offered under each       *)
  NPorts,
  TBL,       (* the device's burst time tBL *)
  MaxTime,   (* bound of the model: time of an epoch *)
  MaxReset   (* bound of the model: resets *)

ASSUME TelemetryAssumption ==
  /\ Cfg \subseteq [offered : SUBSET Cmd, perf_counters_enabled : BOOLEAN,
                    ecc_enable : BOOLEAN, fr_fcfs_enable : BOOLEAN]
  /\ TBL \in Nat /\ MaxTime \in Nat /\ MaxReset \in Nat
  /\ IsFiniteSet(Cmd) /\ \A c \in Cmd : c.port \in 0 .. NPorts - 1

VARIABLES
  cfg,         (* the configuration, which does not change *)
  now,
  admit_time,  (* entry.admit_time, 0 until admitted *)
  tele,        (* the counters *)
  predicted_last,  (* predicted_last_by_tag, as pairs of a tag and a time *)
  last_issued_dir, (* last_issued_is_read, "none" = not valid *)
  done,        (* history: the completions of this epoch, in order *)
  picks,       (* history: what was picked in this epoch, in order *)
  replies,     (* history: the device's answers of this epoch *)
  accepted,    (* history: when the controller accepted each command *)
  resets       (* history: resets so far *)

epochVars == <<last_issued_dir, picks, replies>>
teleVars == <<queueState, cfg, now, admit_time, tele, predicted_last, done,
              accepted, resets, epochVars>>

Port == 0 .. NPorts - 1
Depth == 0 .. Cardinality(Cmd)
LAT_HIST_MAX_BUCKET == 24

latency_bucket(lat) ==
  LET bucket[v \in 0 .. lat] ==
        IF v < 2 THEN 0 ELSE 1 + bucket[v \div 2]
  IN IF bucket[lat] > LAT_HIST_MAX_BUCKET THEN LAT_HIST_MAX_BUCKET
     ELSE bucket[lat]

NonNegative(x) == IF x > 0 THEN x ELSE 0
Distance(x, y) == IF x > y THEN x - y ELSE y - x

clear_perf_counters ==
  [issued_req_count |-> 0, observed_rsp_count |-> 0, completed_cmd_count |-> 0,
   data_bytes |-> 0, busy_time |-> 0,
   window_valid |-> FALSE, first_data |-> 0, last_burst_end |-> 0,
   predict_error |-> 0, predict_samples |-> 0,
   latency_sum |-> 0, latency_samples |-> 0,
   latency_min |-> 0, latency_max |-> 0,
   latency_hist |-> [b \in 0 .. LAT_HIST_MAX_BUCKET |-> 0],
   observed_reorder_count |-> 0, max_completed_admit_order |-> 0,
   port_completed_count |-> [p \in Port |-> 0],
   port_data_bytes |-> [p \in Port |-> 0],
   ecc_corrected_count |-> 0, ecc_uncorrectable_count |-> 0,
   fr_fcfs_forced_count |-> 0, bus_turnaround_count |-> 0,
   rd_wr_grouped_count |-> 0,
   peak_depth |-> 0, coalesced_write_count |-> 0,
   occupancy_hist |-> [d \in Depth |-> 0], occupancy_samples |-> 0]

-----------------------------------------------------------------------------
(* The notes taken, each as a function from counters to counters.          *)
record_occupancy(t, depth) ==
  IF ~cfg.perf_counters_enabled THEN t
  ELSE [t EXCEPT !.occupancy_hist[depth] = @ + 1, !.occupancy_samples = @ + 1]

note_admit(t) ==
  LET depth == Cardinality(queued) + 1
  IN record_occupancy(
       [t EXCEPT !.peak_depth = IF depth > @ THEN depth ELSE @], depth)

(* _note_prediction: payload, busy time, the data window, the error of     *)
(* the prediction made at issue.                                           *)
Predicted(tg) == {p \in predicted_last : p[1] = tg}

note_prediction(t, tg, first, last) ==
  LET end == last + TBL
      t1 == [t EXCEPT
              !.data_bytes = @ + 1,
              !.busy_time = @ + NonNegative(end - first),
              !.first_data = IF ~t.window_valid \/ first < @ THEN first ELSE @,
              !.last_burst_end = IF ~t.window_valid \/ end > @ THEN end ELSE @,
              !.window_valid = TRUE]
  IN IF ~cfg.perf_counters_enabled THEN t
     ELSE IF Predicted(tg) = {} THEN t1
     ELSE LET p == CHOOSE q \in Predicted(tg) : TRUE
          IN [t1 EXCEPT !.predict_error = @ + Distance(last, p[2]),
                        !.predict_samples = @ + 1]

note_completion_observability(t, c, last) ==
  LET lat == NonNegative(last - admit_time[c])
      first == t.latency_samples = 0
      older == admit_order[c] < t.max_completed_admit_order
  IN IF ~cfg.perf_counters_enabled THEN t
     ELSE [t EXCEPT
             !.latency_sum = @ + lat, !.latency_samples = @ + 1,
             !.latency_min = IF first \/ lat < @ THEN lat ELSE @,
             !.latency_max = IF first \/ lat > @ THEN lat ELSE @,
             !.latency_hist[latency_bucket(lat)] = @ + 1,
             !.observed_reorder_count = IF older THEN @ + 1 ELSE @,
             !.max_completed_admit_order = IF older THEN @ ELSE admit_order[c],
             !.port_completed_count[c.port] = @ + 1,
             !.port_data_bytes[c.port] = @ + 1]

(* Mutant: only the primary is noted.                                      *)
note_group_primary(t, c, last) == note_completion_observability(t, c, last)

(* A primary and the writes merged into it, which never were admitted.     *)
note_group(t, c, last) ==
  FoldSet(LAMBDA d, acc : note_completion_observability(acc, d, last),
          note_completion_observability(t, c, last), merged_writes[c])

note_ecc(t, c, fault) ==
  IF ~(cfg.ecc_enable /\ cfg.perf_counters_enabled /\ c.op = "RD") THEN t
  ELSE [t EXCEPT
    !.ecc_corrected_count = IF fault = "CORRECTABLE" THEN @ + 1 ELSE @,
    !.ecc_uncorrectable_count = IF fault = "UNCORRECTABLE" THEN @ + 1 ELSE @]

Fault == {"NONE", "CORRECTABLE", "UNCORRECTABLE"}

(* complete_rsp: what the answer of command c with tag tg leaves behind.   *)
note_rsp(t, c, tg, first, last, fault) ==
  LET t1 == [t EXCEPT !.observed_rsp_count = @ + 1,
              !.completed_cmd_count = @ + 1 + Cardinality(merged_writes[c])]
  IN note_group(note_prediction(note_ecc(t1, c, fault), tg, first, last), c, last)

(* A starvation-cap override and a direction-grouping override of a pick.  *)
note_pick(t, forced, grouped) ==
  [t EXCEPT !.fr_fcfs_forced_count = IF forced THEN @ + 1 ELSE @,
            !.rd_wr_grouped_count = IF grouped THEN @ + 1 ELSE @]

(* issue_one: a request, after one of the other direction or not.          *)
Turns(c) == last_issued_dir \notin {"none", c.op}

note_issue(t, c) ==
  [t EXCEPT !.issued_req_count = @ + 1,
            !.bus_turnaround_count = IF Turns(c) THEN @ + 1 ELSE @]

Response(c, fault) ==
  IF cfg.ecc_enable /\ c.op = "RD" /\ fault = "UNCORRECTABLE" THEN "SLVERR"
  ELSE IF c.excl THEN "EXOKAY" ELSE "OKAY"

-----------------------------------------------------------------------------
TeleInit ==
  /\ QueueInit
  /\ cfg \in Cfg
  /\ now = 1
  /\ admit_time = [c \in Cmd |-> 0]
  /\ tele = clear_perf_counters
  /\ predicted_last = {} /\ last_issued_dir = "none"
  /\ done = <<>> /\ picks = <<>> /\ replies = <<>>
  /\ accepted = [c \in Cmd |-> 0]
  /\ resets = 0

(* admit_one_ready_fe_entry.                                               *)
TeleAccept(c) ==
  /\ c \in cfg.offered
  /\ Accept(c)
  /\ accepted' = [accepted EXCEPT ![c] = now]
  /\ IF coalesce_target(c) # {}
     THEN /\ tele' = [tele EXCEPT !.coalesced_write_count = @ + 1]
          /\ UNCHANGED admit_time
     ELSE /\ tele' = note_admit(tele)
          /\ admit_time' = [admit_time EXCEPT ![c] = now]
  /\ UNCHANGED <<now, predicted_last, done, resets, epochVars>>

Completion(c, last, resp) ==
  [cmd |-> c, group |-> Group(c), last |-> last, resp |-> resp]

(* What the scheduler may count: the oldest candidate is picked, or one    *)
(* that FR-FCFS prefers, which the cap or the grouping may override;       *)
(* grouping takes a last direction, and candidates of both.                *)
Overrides(c, forced, grouped) ==
  /\ IF cfg.fr_fcfs_enable THEN c \in Candidates
     ELSE pick(c) /\ ~forced /\ ~grouped
  /\ grouped => /\ last_issued_dir # "none"
                /\ \E d, e \in Candidates : d.op # e.op

(* pick_next_entry with take_entry, then _issue_or_complete: a prediction  *)
(* for a command that goes to the device, a completion for a pre-resolved  *)
(* one.                                                                    *)
TeleIssue(c, forced, grouped) ==
  /\ Overrides(c, forced, grouped)
  /\ Issue(c)
  /\ LET taken == record_occupancy(note_pick(tele, forced, grouped),
                                   Cardinality(queued) - 1)
     IN IF c.pre
        THEN /\ tele' = note_completion_observability(
                          [taken EXCEPT !.completed_cmd_count = @ + 1],
                          c, accepted[c])
             /\ done' = Append(done, Completion(c, accepted[c], "local"))
             /\ UNCHANGED <<predicted_last, last_issued_dir>>
        ELSE /\ tele' = note_issue(taken, c)
             /\ predicted_last' = IF cfg.perf_counters_enabled
                                   THEN predicted_last \cup {<<next_tag, now + 1>>}
                                   ELSE predicted_last
             /\ last_issued_dir' = c.op
             /\ UNCHANGED done
  /\ picks' = Append(picks, [cmd |-> c, at |-> now, forced |-> forced,
                             grouped |-> grouped])
  /\ UNCHANGED <<now, admit_time, accepted, resets, replies>>

(* The device answers when the first beat is ready; the last may be later. *)
TeleRespond(c, span, fault) ==
  /\ fault # "NONE" => cfg.ecc_enable /\ c.op = "RD"
  /\ complete_by_rsp(tag[c])
  /\ tele' = note_rsp(tele, c, tag[c], now, now + span, fault)
  /\ predicted_last' = IF cfg.perf_counters_enabled
                        THEN predicted_last \ Predicted(tag[c])
                        ELSE predicted_last
  /\ done' = Append(done, Completion(c, now + span, Response(c, fault)))
  /\ replies' = Append(replies, [cmd |-> c, first |-> now, last |-> now + span,
                                 fault |-> fault])
  /\ UNCHANGED <<now, admit_time, accepted, resets, last_issued_dir, picks>>

(* Mutant: the counters are cleared but the predictions are not.           *)
handle_reset_predictions ==
  /\ resets < MaxReset /\ resets' = resets + 1
  /\ flush_queue
  /\ tele' = clear_perf_counters
  /\ last_issued_dir' = "none"
  /\ done' = <<>> /\ picks' = <<>> /\ replies' = <<>>
  /\ UNCHANGED <<now, admit_time, predicted_last, accepted>>


(* backend.flush and clear_perf_counters.                                  *)
handle_reset ==
  /\ resets < MaxReset /\ resets' = resets + 1
  /\ flush_queue
  /\ tele' = clear_perf_counters
  /\ predicted_last' = {} /\ last_issued_dir' = "none"
  /\ done' = <<>> /\ picks' = <<>> /\ replies' = <<>>
  /\ UNCHANGED <<now, admit_time, accepted>>

Time ==
  /\ now < MaxTime /\ now' = now + 1
  /\ UNCHANGED <<queueState, admit_time, tele, predicted_last, done, accepted,
                 resets, epochVars>>

TeleNext ==
  /\ \/ \E c \in Cmd : TeleAccept(c)
     \/ \E c \in Cmd, forced, grouped \in BOOLEAN :
          TeleIssue(c, forced, grouped)
     \/ \E c \in inflight, span \in {0, 2}, fault \in Fault :
          TeleRespond(c, span, fault)
     \/ handle_reset
     \/ Time
  /\ UNCHANGED cfg

TeleSpec == TeleInit /\ [][TeleNext]_teleVars

-----------------------------------------------------------------------------
(* What vip_mc's getters return: nothing unless the counters are enabled.  *)
Reported(x) == IF cfg.perf_counters_enabled THEN x ELSE 0

get_observed_reorder_count == Reported(tele.observed_reorder_count)
get_min_latency_ns == Reported(tele.latency_min)
get_max_latency_ns == Reported(tele.latency_max)
get_cmd_queue_peak_depth == Reported(tele.peak_depth)

-----------------------------------------------------------------------------
Completed == UNION {done[i].group : i \in DOMAIN done}
LatenciesOf(i) == {done[i].last - accepted[c] : c \in done[i].group}
Latencies == UNION {LatenciesOf(i) : i \in DOMAIN done}

(* Everything that counts completions agrees: the total, the latency       *)
(* samples, the histogram's buckets and the ports' counts all are the      *)
(* commands answered in this epoch, merged writes included; only device    *)
(* answers move data.                                                      *)
CountsAgree ==
  LET n == Cardinality(Completed)
      answers == {i \in DOMAIN done : done[i].resp # "local"}
  IN /\ tele.completed_cmd_count = n
     /\ tele.latency_samples = Reported(n)
     /\ MapThenSumSet(LAMBDA b : tele.latency_hist[b],
                      DOMAIN tele.latency_hist) = Reported(n)
     /\ \A p \in Port : tele.port_completed_count[p] =
          Reported(Cardinality({c \in Completed : c.port = p}))
     /\ tele.data_bytes = Reported(Cardinality(answers))
     /\ tele.ecc_uncorrectable_count =
          Reported(Cardinality({i \in answers : done[i].resp = "SLVERR"}))

(* A prediction is kept for exactly the commands at the device, so each    *)
(* answer is compared with its own and none is left over after a reset.    *)
PredictionsTracked ==
  {p[1] : p \in predicted_last} =
    IF cfg.perf_counters_enabled THEN {tag[c] : c \in inflight} ELSE {}

(* The deepest bucket of the occupancy histogram is the peak depth.        *)
PeakInHistogram ==
  cfg.perf_counters_enabled =>
    \A d \in Depth :
      tele.occupancy_hist[d] > 0 => d <= get_cmd_queue_peak_depth
        /\ (get_cmd_queue_peak_depth > 0 =>
              tele.occupancy_hist[get_cmd_queue_peak_depth] > 0)

NoneMerged == \A c \in Cmd : merged_writes[c] = {}

Late(i) == \E j \in 1 .. i - 1 :
             arrival[done[j].cmd] > arrival[done[i].cmd]

(* The reorder count is the number of commands answered after one that was *)
(* admitted later, as long as no write was merged.                         *)
ReorderExact ==
  NoneMerged =>
    get_observed_reorder_count =
      Reported(Cardinality({i \in DOMAIN done : Late(i)}))

(* Latency runs from a command's admission to its last beat, as long as no *)
(* write was merged: a merged one never was admitted, and its latency is   *)
(* then counted from time zero.                                            *)
LatencyExact ==
  NoneMerged /\ Latencies # {} =>
    /\ get_min_latency_ns = Reported(Min(Latencies))
    /\ get_max_latency_ns = Reported(Max(Latencies))

(* Totals, the histogram, port counts, data, errors, the peak depth, the   *)
(* reorder count and the extreme latencies that are reported are what the  *)
(* history of the epoch gives, whatever the order of the answers.          *)
CountersExact ==
  CountsAgree /\ PeakInHistogram /\ ReorderExact /\ LatencyExact

-----------------------------------------------------------------------------
(* The commands of this epoch that hold merged writes.                     *)
Absorbed == UNION {merged_writes[c] : c \in Pending \cup
                                            {done[i].cmd : i \in DOMAIN done}}
Requests == SelectSeq(picks, LAMBDA p : ~p.cmd.pre)
IssuedAt(c) == (CHOOSE i \in DOMAIN picks : picks[i].cmd = c)
Total(S, f(_)) == MapThenSumSet(f, S)

(* Requests, answers, overrides and turns of the bus are counted whether   *)
(* the counters are enabled or not.                                        *)
ScheduleCounted ==
  /\ tele.issued_req_count = Len(Requests)
  /\ tele.observed_rsp_count = Len(replies)
  /\ tele.issued_req_count - tele.observed_rsp_count = Cardinality(inflight)
  /\ tele.coalesced_write_count = Cardinality(Absorbed)
  /\ tele.bus_turnaround_count =
       Cardinality({i \in 2 .. Len(Requests) :
                      Requests[i].cmd.op # Requests[i - 1].cmd.op})
  /\ tele.fr_fcfs_forced_count =
       Cardinality({i \in DOMAIN picks : picks[i].forced})
  /\ tele.rd_wr_grouped_count =
       Cardinality({i \in DOMAIN picks : picks[i].grouped})

(* The sum behind the mean latency runs from admission to last beat for a  *)
(* command that was admitted, and from time zero for a merged write.       *)
LatencySummed ==
  LET FromAdmission(i) == done[i].last - accepted[done[i].cmd]
      FromZero(i) == Cardinality(done[i].group \ {done[i].cmd}) * done[i].last
  IN tele.latency_sum =
       Reported(Total(DOMAIN done, FromAdmission) + Total(DOMAIN done, FromZero))

(* Bus time and window of bandwidth and utilisation, and the distance of   *)
(* every answer from the prediction made when its own command was issued.  *)
DataTimed ==
  LET Busy(i) == replies[i].last + TBL - replies[i].first
      Missed(i) == Distance(replies[i].last,
                            picks[IssuedAt(replies[i].cmd)].at + 1)
      firsts == {replies[i].first : i \in DOMAIN replies}
      ends == {replies[i].last + TBL : i \in DOMAIN replies}
  IN /\ tele.busy_time = Reported(Total(DOMAIN replies, Busy))
     /\ tele.predict_error = Reported(Total(DOMAIN replies, Missed))
     /\ tele.predict_samples = Reported(Len(replies))
     /\ tele.window_valid <=> cfg.perf_counters_enabled /\ replies # <<>>
     /\ tele.window_valid => /\ tele.first_data = Min(firsts)
                             /\ tele.last_burst_end = Max(ends)

(* Each admission and each pick samples the depth; every command answered  *)
(* adds a row word to its port; and corrected reads are counted.           *)
SamplesCounted ==
  /\ tele.occupancy_samples =
       Reported(2 * Len(picks) + Cardinality(queued))
  /\ tele.port_data_bytes = tele.port_completed_count
  /\ tele.ecc_corrected_count =
       Reported(Cardinality({i \in DOMAIN replies :
                               replies[i].fault = "CORRECTABLE"}))

=============================================================================
