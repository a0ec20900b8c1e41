---------------------------- MODULE MCChiDriver ----------------------------
(* Configurations of the CHI driver and the requests sent in each.         *)
EXTENDS ChiDriver

K(op, order, err, beats) ==
  [op |-> op, order |-> order, err |-> err, beats |-> beats]

(* One of each kind of reply, with refused reads and zero writes.          *)
AnyKind == {
  K("READ", TRUE, FALSE, 1), K("READ", FALSE, TRUE, 1),
  K("READ_SEP", FALSE, FALSE, 2),
  K("WRITE", FALSE, FALSE, 2), K("WRITE", FALSE, TRUE, 1),
  K("WRITE_ZERO", FALSE, FALSE, 1), K("WRITE_ZERO", FALSE, TRUE, 1),
  K("PERSIST", FALSE, TRUE, 1), K("PERSIST_SEP", TRUE, FALSE, 1),
  K("ATOMIC", FALSE, FALSE, 1), K("OTHER", FALSE, FALSE, 1)}

(* Kinds that meet on one channel or hold it up: interleaved data, split   *)
(* legs, two replies.                                                      *)
PairKind == {
  K("READ_SEP", FALSE, FALSE, 2), K("WRITE", FALSE, FALSE, 2),
  K("WRITE", FALSE, TRUE, 1), K("PERSIST_SEP", FALSE, FALSE, 1),
  K("ATOMIC", FALSE, FALSE, 1)}

(* Separated reads that are ordered, refused writes.                       *)
RefusedKind == {
  K("READ_SEP", TRUE, TRUE, 1), K("READ_SEP", TRUE, FALSE, 1),
  K("WRITE", FALSE, TRUE, 2), K("WRITE", FALSE, FALSE, 1)}

(* Few requests, for the runs about the link and about progress.           *)
FewKind == {
  K("READ_SEP", TRUE, FALSE, 1), K("WRITE", FALSE, FALSE, 2)}

Settings(credits, split, timing, drops, most, kind) ==
  [initial_credits |-> credits, split_write_rsp |-> split,
   honor_beat_timing |-> timing, peer_credits |-> 1, link_drops |-> drops,
   max_req |-> most, kind |-> kind]

(* Every kind by itself; pairs with writes split; pairs with writes        *)
(* combined and answers paced; a link that comes and goes, on two credits. *)
AllCfg == {
  Settings(1, TRUE, FALSE, FALSE, 1, AnyKind),
  Settings(1, TRUE, FALSE, FALSE, 2, PairKind),
  Settings(1, FALSE, TRUE, FALSE, 2, RefusedKind),
  Settings(2, TRUE, FALSE, TRUE, 1, FewKind)}
=============================================================================
