----------------------------- MODULE Axi4Burst -----------------------------
(***************************************************************************)
(* The arithmetic of an AXI4 burst in vip_mc_axi4_driver: which bytes its  *)
(* window holds, whether it is accepted, how many device rows it takes,    *)
(* and beat by beat which lane of the bus meets which lane of a row.       *)
(*                                                                         *)
(* The properties compare it with the bytes themselves, taken beat by beat *)
(* from the rules of AXI4 (Touched).  A byte of data is known by where it  *)
(* came from: on a write by its beat and bus lane, on a read by its        *)
(* address in the device.                                                  *)
(***************************************************************************)
EXTENDS Integers, Sequences, FiniteSets, FiniteSetsExt

CONSTANTS
  RowBytes,          (* geom.ROW_BYTES_P *)
  WBytes, RBytes,    (* cfg_t.WDATA_BYTES_P, cfg_t.RDATA_BYTES_P *)
  Boundary,          (* VIP_MC_AXI4_4K_ADDRESS_BOUNDARY_C, scaled down *)
  Granule,           (* 128, the largest exclusive access, scaled down *)
  FixedMax,          (* 16, the longest FIXED burst *)
  WrapBeats,         (* {2, 4, 8, 16} *)
  Region,            (* the port's regions, none = everything *)
  Window,            (* decerr_addr_lo .. decerr_addr_hi *)
  ExclusiveEnabled,  (* cfg.exclusive_enabled *)
  Request            (* [op, addr, size, beats, burst, excl, cacheable] *)

(* _validate_config, and validate of the configuration for the windows; a  *)
(* manager keeps AxSIZE within its bus, and all three are powers of two.   *)
ASSUME Axi4BurstAssumption ==
  /\ RowBytes \in Nat \ {0} /\ WBytes \in Nat \ {0} /\ RBytes \in Nat \ {0}
  /\ Boundary \in Nat \ {0}
  /\ RowBytes % WBytes = 0 /\ RowBytes % RBytes = 0
  /\ \A g \in Region : g.lo \in Nat /\ g.hi \in Nat
  /\ \A w \in Window : w.lo \in Nat /\ w.hi \in Nat /\ w.lo <= w.hi
  /\ \A q \in Request :
       /\ q = [op |-> q.op, addr |-> q.addr, size |-> q.size, beats |-> q.beats,
               burst |-> q.burst, excl |-> q.excl, cacheable |-> q.cacheable]
       /\ q.op \in {"WR", "RD"} /\ q.burst \in {"INCR", "WRAP", "FIXED"}
       /\ q.addr \in Nat /\ q.size \in Nat \ {0} /\ q.beats \in Nat \ {0}
       /\ (IF q.op = "WR" THEN WBytes ELSE RBytes) % q.size = 0

VARIABLES
  r,       (* the request *)
  beat,    (* beats gone over the bus *)
  strobe,  (* history: the lanes strobed in each write beat *)
  data     (* writes: the entry's wdata; reads: the last beat's lanes *)

vars == <<r, beat, strobe, data>>

-----------------------------------------------------------------------------
(* Mutant: a WRAP burst is taken to start at its address.                  *)
get_burst_window_first_addr_start(q) == q.addr

get_wrap_region_base_addr(q) ==
  (q.addr \div (q.size * q.beats)) * (q.size * q.beats)

get_burst_window_first_addr(q) ==
  IF q.burst = "WRAP" THEN get_wrap_region_base_addr(q) ELSE q.addr

get_axi_unaligned_byte_shift(q) == q.addr % q.size

last_byte_addr(q) ==
  LET unaligned == get_axi_unaligned_byte_shift(q)
  IN CASE q.burst = "FIXED" -> q.addr + (q.size - unaligned) - 1
       [] q.burst = "WRAP" -> get_wrap_region_base_addr(q) + q.size * q.beats - 1
       [] OTHER -> q.addr + (q.size * q.beats - unaligned) - 1

get_axi_valid_byte_count(q, i) ==
  IF q.burst = "FIXED" \/ i = 0
  THEN q.size - get_axi_unaligned_byte_shift(q) ELSE q.size

get_axi_first_valid_byte_addr(q, i) ==
  LET base == get_burst_window_first_addr(q)
  IN CASE q.burst = "FIXED" -> q.addr
       [] q.burst = "WRAP" ->
            base + ((q.addr - base + i * q.size) % (q.size * q.beats))
       [] OTHER -> IF i = 0 THEN q.addr
                   ELSE q.addr + i * q.size - get_axi_unaligned_byte_shift(q)

get_dram_req_beats(q) ==
  IF q.burst = "FIXED" THEN 1
  ELSE last_byte_addr(q) \div RowBytes
       - get_burst_window_first_addr(q) \div RowBytes + 1

-----------------------------------------------------------------------------
(* Acceptance.                                                             *)
port_owns_range(lo, hi) ==
  Region = {} \/ \E g \in Region : lo >= g.lo /\ hi <= g.hi

range_hits_decerr(lo, hi) == \E w \in Window : lo <= w.hi /\ hi >= w.lo

crosses_4k_boundary(lo, hi) == lo \div Boundary # hi \div Boundary

classify_request(q) ==
  LET lo == get_burst_window_first_addr(q)
      hi == last_byte_addr(q)
  IN IF ~port_owns_range(lo, hi) \/ range_hits_decerr(lo, hi)
     THEN "DECERR_REGION"
     ELSE IF crosses_4k_boundary(lo, hi) THEN "DECERR_4K"
     ELSE "NONE"

supports_axi_burst(q) ==
  /\ q.size <= RowBytes
  /\ CASE q.burst = "INCR" -> TRUE
       [] q.burst = "FIXED" -> q.beats <= FixedMax
       [] OTHER -> q.beats \in WrapBeats /\ q.addr % q.size = 0

is_legal_exclusive_granule(n) == n <= Granule /\ \E k \in 0 .. 7 : n = 2 ^ k

supports_exclusive_request(q) ==
  /\ ExclusiveEnabled /\ ~q.cacheable
  /\ is_legal_exclusive_granule(q.size * q.beats)
  /\ q.addr % (q.size * q.beats) = 0

(* The reject reason of _build_addr_entry, "NONE" for a request that goes  *)
(* to the backend.                                                         *)
build_addr_entry(q) ==
  IF classify_request(q) # "NONE" THEN classify_request(q)
  ELSE IF ~supports_axi_burst(q) THEN "UNSUPPORTED_AXI_SHAPE"
  ELSE IF q.excl /\ ~supports_exclusive_request(q) THEN "EXCLUSIVE_FAIL_LOCAL"
  ELSE "NONE"

-----------------------------------------------------------------------------
(* Beats.  Lanes of the entry's payload are named <<row, lane>>.           *)
Payload(q) == (0 .. get_dram_req_beats(q) - 1) \X (0 .. RowBytes - 1)

(* The row lanes of one beat, each with its bus lane; the loop ends at the *)
(* first lane outside the row or the bus.                                  *)
Lanes(q, i, bus) ==
  LET first == get_axi_first_valid_byte_addr(q, i)
      row == first \div RowBytes - get_burst_window_first_addr(q) \div RowBytes
      rl == first % RowBytes
      bl == first % bus
      n == Min({get_axi_valid_byte_count(q, i), RowBytes - rl, bus - bl})
  IN IF row >= get_dram_req_beats(q) THEN {}
     ELSE {[at |-> <<row, rl + k>>, bus |-> bl + k] : k \in 0 .. n - 1}

pack_write_beat(q, p, i, strb) ==
  LET hit == {l \in Lanes(q, i, WBytes) : l.bus \in strb}
  IN [x \in DOMAIN p |->
        IF \E l \in hit : l.at = x
        THEN <<i, (CHOOSE l \in hit : l.at = x).bus>> ELSE p[x]]

(* The device returns the rows from get_dev_addr on: a byte is its address.*)
RowAddr(q, at) ==
  (get_burst_window_first_addr(q) \div RowBytes + at[1]) * RowBytes + at[2]

unpack_read_beat(q, i) ==
  {<<l.bus, RowAddr(q, l.at)>> : l \in Lanes(q, i, RBytes)}

Nothing == <<-1, -1>>

Init ==
  /\ r \in Request /\ beat = 0 /\ strobe = <<>>
  /\ data = IF r.op = "WR" /\ build_addr_entry(r) = "NONE"
            THEN [x \in Payload(r) |-> Nothing] ELSE {}

WriteBeat(strb) ==
  /\ r.op = "WR" /\ build_addr_entry(r) = "NONE" /\ beat < r.beats
  /\ data' = pack_write_beat(r, data, beat, strb)
  /\ strobe' = Append(strobe, strb)
  /\ beat' = beat + 1 /\ UNCHANGED r

ReadBeat ==
  /\ r.op = "RD" /\ build_addr_entry(r) = "NONE" /\ beat < r.beats
  /\ data' = unpack_read_beat(r, beat)
  /\ beat' = beat + 1 /\ UNCHANGED <<r, strobe>>

Next == ReadBeat \/ \E strb \in SUBSET (0 .. WBytes - 1) : WriteBeat(strb)

Spec == Init /\ [][Next]_vars

-----------------------------------------------------------------------------
(* AXI4's own account: the addresses beat i carries.                       *)
Touched(q, i) ==
  LET aligned == (q.addr \div q.size) * q.size
      span == q.size * q.beats
      start == CASE q.burst = "FIXED" -> aligned
                 [] q.burst = "INCR" -> aligned + i * q.size
                 [] OTHER -> CHOOSE a \in 0 .. q.addr + span :
                      /\ a \div span = q.addr \div span
                      /\ a % span = (aligned + i * q.size) % span
  IN {a \in start .. start + q.size - 1 :
        (q.burst = "FIXED" \/ i = 0) => a >= q.addr}

Bytes(q) == UNION {Touched(q, i) : i \in 0 .. q.beats - 1}

(* A shape that AXI4 allows.                                               *)
Legal(q) ==
  q.burst = "WRAP" => q.beats \in WrapBeats /\ q.addr % q.size = 0

(* A burst that AXI4 allows reaches the backend exactly if one region of   *)
(* the port has all of its bytes, no error window has one of them, and     *)
(* they lie in one 4 KB block; exclusives also need an aligned block of a  *)
(* power of two bytes.                                                     *)
VerdictExact ==
  Legal(r) =>
    (build_addr_entry(r) = "NONE" <=>
       /\ Region = {} \/ \E g \in Region : Bytes(r) \subseteq g.lo .. g.hi
       /\ \A w \in Window : Bytes(r) \cap (w.lo .. w.hi) = {}
       /\ \A a, b \in Bytes(r) : a \div Boundary = b \div Boundary
       /\ r.burst = "FIXED" => r.beats <= FixedMax
       /\ r.excl =>
            /\ ExclusiveEnabled /\ ~r.cacheable
            /\ \E k \in 0 .. 7 : /\ r.size * r.beats = 2 ^ k
                                 /\ 2 ^ k <= Granule /\ r.addr % 2 ^ k = 0)

(* The device is asked for exactly the rows that hold bytes of the burst.  *)
RowsExact ==
  build_addr_entry(r) = "NONE" =>
    LET first == get_burst_window_first_addr(r) \div RowBytes
    IN first .. first + get_dram_req_beats(r) - 1
         = {a \div RowBytes : a \in Bytes(r)}

(* After any number of beats the payload holds, at each byte, what the     *)
(* latest beat that carried and strobed it brought on that byte's lane,    *)
(* and nothing anywhere else: the strobes the device will be given.        *)
PayloadExact ==
  r.op = "WR" /\ build_addr_entry(r) = "NONE" =>
    \A x \in DOMAIN data :
      LET a == RowAddr(r, x)
          hits == {i \in 0 .. beat - 1 : /\ a \in Touched(r, i)
                                         /\ a % WBytes \in strobe[i + 1]}
      IN data[x] = IF hits = {} THEN Nothing ELSE <<Max(hits), a % WBytes>>

(* Each read beat shows the bytes of its addresses on their lanes.         *)
ReadLanesExact ==
  r.op = "RD" /\ build_addr_entry(r) = "NONE" /\ beat > 0 =>
    data = {<<a % RBytes, a>> : a \in Touched(r, beat - 1)}

(* The path of a burst from its request to its last lane.                  *)
TransferExact == VerdictExact /\ RowsExact /\ PayloadExact /\ ReadLanesExact
=============================================================================
