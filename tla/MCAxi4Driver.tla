---------------------------- MODULE MCAxi4Driver ----------------------------
(* Configurations of the AXI4 driver and the commands sent in each.        *)
EXTENDS Axi4Exclusive

K(op, id, beats, excl, lo, hi, resp) ==
  [op |-> op, id |-> id, beats |-> beats, excl |-> excl, lo |-> lo, hi |-> hi,
   resp |-> resp]

Limits(aw, ar, pending, wbuf, rsp, timing, last, writes, reads, kind) ==
  [aw_outstanding_limit |-> aw, ar_outstanding_limit |-> ar,
   aw_pending_depth |-> pending, w_data_buf_depth |-> wbuf,
   rsp_buf_depth |-> rsp, honor_beat_timing |-> timing, free_last |-> last,
   max_wr |-> writes, max_rd |-> reads, kind |-> kind]

(* Bursts of one and two beats, two IDs.                                   *)
Plain == {
  K("WR", 1, 2, FALSE, 1, 1, "OKAY"), K("WR", 2, 1, FALSE, 1, 1, "OKAY"),
  K("RD", 1, 2, FALSE, 1, 1, "OKAY"), K("RD", 2, 1, FALSE, 1, 1, "OKAY")}

(* One ID, with commands that the driver rejects.                          *)
Reject == {
  K("WR", 1, 2, FALSE, 1, 1, "OKAY"), K("WR", 1, 1, FALSE, 1, 1, "DECERR"),
  K("RD", 1, 1, FALSE, 1, 1, "OKAY"), K("RD", 1, 2, FALSE, 1, 1, "DECERR")}

(* Two IDs with exclusive reads of bytes 1 and 2 and of byte 1 alone,      *)
(* exclusive writes of bytes 1 and 2, which match the first read only, a   *)
(* normal write that touches the second byte only.                         *)
Exclusive == {
  K("RD", 1, 1, TRUE, 1, 2, "OKAY"), K("RD", 2, 1, TRUE, 1, 1, "OKAY"),
  K("WR", 1, 1, TRUE, 1, 2, "OKAY"), K("WR", 2, 1, TRUE, 1, 2, "OKAY"),
  K("WR", 2, 1, FALSE, 2, 3, "OKAY")}

(* Single limits with paced beats; limits of two with any WLAST; all of    *)
(* them at one; none at all.                                               *)
AllCfg == {
  Limits(1, 1, 0, 1, 0, TRUE, FALSE, 2, 2, Plain),
  Limits(2, 1, 1, 1, 2, FALSE, TRUE, 3, 1, Reject),
  Limits(1, 1, 1, 1, 1, TRUE, TRUE, 2, 2, Reject),
  Limits(0, 0, 0, 0, 0, FALSE, FALSE, 2, 2, Exclusive)}
=============================================================================
