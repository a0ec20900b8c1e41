------------------------------- MODULE ChiData -------------------------------
(***************************************************************************)
(* How vip_mc_chi_driver spreads the data of a request over DAT beats and  *)
(* device rows: each beat is a block of DataBytes in a row of RowBytes.    *)
(* A byte of data is known by where it came from, on a write by its beat   *)
(* and lane, on a read by its address in the device.                       *)
(***************************************************************************)
EXTENDS Integers, Sequences, FiniteSets, FiniteSetsExt

CONSTANTS
  RowBytes,    (* geom.ROW_BYTES_P *)
  DataBytes,   (* cfg_t.DATA_BYTES_P *)
  Region,      (* the port's regions, none = everything *)
  Window,      (* decerr_addr_lo .. decerr_addr_hi *)
  Request      (* [op, addr, size]; `size` is the exponent on the link *)

(* _validate_config, and validate of the configuration for the windows; a  *)
(* row and a transfer are powers of two.  Assumed where the module is      *)
(* instantiated.                                                           *)
ChiDataAssumption ==
  /\ RowBytes \in Nat \ {0} /\ DataBytes \in Nat \ {0}
  /\ DataBytes <= RowBytes /\ RowBytes % DataBytes = 0
  /\ \A g \in Region : g.lo \in Nat /\ g.hi \in Nat
  /\ \A w \in Window : w.lo \in Nat /\ w.hi \in Nat /\ w.lo <= w.hi
  /\ \A q \in Request :
       /\ q = [op |-> q.op, addr |-> q.addr, size |-> q.size]
       /\ q.op \in {"WR", "RD"} /\ q.addr \in Nat /\ q.size \in Nat
       /\ 2 ^ q.size \in Nat \ {0}
       /\ RowBytes % 2 ^ q.size = 0 \/ 2 ^ q.size % RowBytes = 0

VARIABLES
  r,       (* the request *)
  seen,    (* beats gone over the link *)
  be,      (* history: the byte enables of each write beat *)
  data     (* writes: the entry's wdata; reads: the last beat's lanes *)

vars == <<r, seen, be, data>>

-----------------------------------------------------------------------------
chi_size_bytes(q) == 2 ^ q.size

(* Blocks of `bytes` that a transfer of this size fills, at least one.     *)
chi_xfer_dat_beats(q, bytes) ==
  Max({1, (chi_size_bytes(q) + bytes - 1) \div bytes})

beats(q) == chi_xfer_dat_beats(q, RowBytes)
chi_dat_beats(q) == chi_xfer_dat_beats(q, DataBytes)

(* Mutant: beats start at the row, not at the block of the address.        *)
chi_beat_row_map_row(q, i) ==
  LET base == (q.addr \div RowBytes) * RowBytes + i * DataBytes
  IN [row |-> base \div RowBytes - q.addr \div RowBytes,
      lane |-> base % RowBytes]

chi_beat_row_map(q, i) ==
  LET base == q.addr - (q.addr % DataBytes) + i * DataBytes
  IN [row |-> base \div RowBytes - q.addr \div RowBytes,
      lane |-> base % RowBytes]

(* A beat beyond the rows of the entry is dropped.                         *)
Lanes(q, i) ==
  LET m == chi_beat_row_map(q, i)
  IN IF m.row >= beats(q) THEN {}
     ELSE {[at |-> <<m.row, m.lane + k>>, bus |-> k] : k \in 0 .. DataBytes - 1}

pack_chi_write_beat(q, p, i, en) ==
  LET hit == {l \in Lanes(q, i) : l.bus \in en}
  IN [x \in DOMAIN p |->
        IF \E l \in hit : l.at = x
        THEN <<i, (CHOOSE l \in hit : l.at = x).bus>> ELSE p[x]]

RowAddr(q, at) == (q.addr \div RowBytes + at[1]) * RowBytes + at[2]

(* The lanes that carry memory; a beat beyond the rows carries zeros.      *)
build_dat_flit(q, i) == {<<l.bus, RowAddr(q, l.at)>> : l \in Lanes(q, i)}

port_owns_range(lo, hi) ==
  Region = {} \/ \E g \in Region : lo >= g.lo /\ hi <= g.hi

range_hits_decerr(lo, hi) == \E w \in Window : lo <= w.hi /\ hi >= w.lo

classify_decerr(q) ==
  LET hi == q.addr + chi_size_bytes(q) - 1
  IN ~port_owns_range(q.addr, hi) \/ range_hits_decerr(q.addr, hi)

Payload(q) == (0 .. beats(q) - 1) \X (0 .. RowBytes - 1)

Nothing == <<-1, -1>>

Init ==
  /\ r \in Request /\ seen = 0 /\ be = <<>>
  /\ data = IF r.op = "WR" THEN [x \in Payload(r) |-> Nothing] ELSE {}

(* handle_write_data of one beat.                                          *)
WriteBeat(en) ==
  /\ r.op = "WR" /\ ~classify_decerr(r) /\ seen < chi_dat_beats(r)
  /\ data' = pack_chi_write_beat(r, data, seen, en)
  /\ be' = Append(be, en)
  /\ seen' = seen + 1 /\ UNCHANGED r

(* enqueue_read_completion, one beat of it.                                *)
ReadBeat ==
  /\ r.op = "RD" /\ ~classify_decerr(r) /\ seen < chi_dat_beats(r)
  /\ data' = build_dat_flit(r, seen)
  /\ seen' = seen + 1 /\ UNCHANGED <<r, be>>

Next == ReadBeat \/ \E en \in SUBSET (0 .. DataBytes - 1) : WriteBeat(en)

Spec == Init /\ [][Next]_vars

-----------------------------------------------------------------------------
(* CHI's own account: a transfer is a naturally aligned block, its beats   *)
(* the DataBytes blocks of it in order, and a lane its address modulo      *)
(* DataBytes.                                                              *)
Aligned(q) == q.addr % chi_size_bytes(q) = 0

Bytes(q) == q.addr .. q.addr + chi_size_bytes(q) - 1

BeatOf(q, a) == a \div DataBytes - q.addr \div DataBytes

(* The verdict is exact to the byte, not to the row.                       *)
VerdictExact ==
  Aligned(r) =>
    (~classify_decerr(r) <=>
       /\ Region = {} \/ \E g \in Region : Bytes(r) \subseteq g.lo .. g.hi
       /\ \A w \in Window : Bytes(r) \cap (w.lo .. w.hi) = {})

(* Of an aligned write each enabled byte is in its place of the payload    *)
(* and no other place is written; of any write, no byte is ever put where  *)
(* its address is not.                                                     *)
PayloadExact ==
  r.op = "WR" =>
    \A x \in DOMAIN data :
      LET a == RowAddr(r, x)
          here == <<BeatOf(r, a), a % DataBytes>>
      IN IF here[1] \in 0 .. seen - 1 /\ here[2] \in be[here[1] + 1]
            /\ here[1] < chi_dat_beats(r)
         THEN data[x] = here ELSE data[x] = Nothing

(* The beats of an aligned read carry every byte of it on its own lane.    *)
ReadLanesExact ==
  r.op = "RD" /\ Aligned(r) /\ seen > 0 =>
    {p \in data : p[2] \in Bytes(r)}
      = {<<a % DataBytes, a>> : a \in {b \in Bytes(r) : BeatOf(r, b) = seen - 1}}

(* The path of a transfer from its request to its last lane.               *)
TransferExact == VerdictExact /\ PayloadExact /\ ReadLanesExact
=============================================================================
