---------------------------- MODULE MCTelemetry -----------------------------
(* Small workloads for the performance counters.                           *)
EXTENDS Telemetry

E(n, port, op, qos, excl, pre) ==
  [n |-> n, port |-> port, id |-> 1, op |-> op, qos |-> qos, word |-> 1,
   strb |-> {}, excl |-> excl, pre |-> pre]

(* Two streams that the device may answer in any order: an exclusive       *)
(* write, a read that may fail, and a read pre-resolved behind it.         *)
PlainCmd == {
  E(1, 0, "WR", 0, TRUE, FALSE), E(2, 1, "RD", 0, FALSE, FALSE),
  E(3, 1, "RD", 0, FALSE, TRUE)}

(* Two writes that may merge, and another port's write.                    *)
MergeCmd == {
  E(4, 0, "WR", 0, FALSE, FALSE), E(5, 0, "WR", 0, FALSE, FALSE),
  E(6, 1, "WR", 0, FALSE, FALSE)}

AllCmd == PlainCmd \cup MergeCmd

On(offered, ecc, fr)  == [offered |-> offered, perf_counters_enabled |-> TRUE,
                          ecc_enable |-> ecc, fr_fcfs_enable |-> fr]
Off(offered, ecc, fr) ==
  [On(offered, ecc, fr) EXCEPT !.perf_counters_enabled = FALSE]

AllCfg == {On(PlainCmd, TRUE, TRUE), On(MergeCmd, FALSE, FALSE),
           Off(MergeCmd, TRUE, TRUE)}
=============================================================================
