------------------------------- MODULE Config --------------------------------
(***************************************************************************)
(* The configuration of a controller (vip_mc_config with its AXI4, CHI and *)
(* port children): what a test program may write into it, and validate(),  *)
(* which vip_mc_env_cfg.apply and vip_mc.build_phase both call on the same *)
(* object.  validate() replaces and clamps values as it goes, and a refusal*)
(* keeps the replacements made so far; the program may catch the refusal,  *)
(* write again and go on.                                                  *)
(*                                                                         *)
(* An address map is the lowest bit of each field; the widths belong to    *)
(* the geometry.  Null handles and the messages of errors are left out.    *)
(***************************************************************************)
EXTENDS Integers, Sequences, FiniteSetsExt, SequencesExt

CONSTANTS
  Geom,      (* geometries: [addr_width, n_banks, width : Field -> Nat] *)
  NQos,      (* entries of qos_class_map, 16 in the code *)
  NPorts,    (* ports of the controller *)
  MaxEdit    (* bound of the model: writes of the program *)

ConfigAssumption ==
  /\ NQos \in Nat \ {0} /\ NPorts \in Nat \ {0} /\ MaxEdit \in Nat
  /\ \A g \in Geom : g.addr_width \in Nat /\ g.n_banks \in Nat

Field == {"byte", "col", "bank", "bg", "row", "rank"}

VARIABLES
  cfg,      (* the configuration object *)
  geom,     (* the device geometry *)
  phase,    (* "open" before build_phase, then "built" or "refused" *)
  applied,  (* the last write was followed by a successful apply *)
  edits     (* history: writes so far *)

vars == <<cfg, geom, phase, applied, edits>>

Pow2(n) == 2^n
NoKey == -1   (* vif_key "" *)

NewPort == [arb_weight |-> 1, regions |-> <<>>, vif_key |-> NoKey]

(* The default address map: fields in this order from bit 0.               *)
DefaultOrder == <<"byte", "col", "bank", "bg", "row", "rank">>
default_addr_map(g) ==
  [f \in Field |->
     LET k == CHOOSE i \in 1 .. 6 : DefaultOrder[i] = f
     IN FoldSeq(LAMBDA h, acc : g.width[h] + acc, 0,
                SubSeq(DefaultOrder, 1, k - 1))]

new_config(g) ==
  [chi |-> [req |-> 15, rsp |-> 15, dat |-> 15],
   max_outstanding |-> [rd |-> 16, wr |-> 16],
   qos_class_count |-> 1, refresh_max_deferred |-> 8,
   soft |-> [qos_aging_ns |-> 0, rd_wr_grouping_max |-> 0, rsp_buf_depth |-> 0],
   max_inflight_to_device |-> -1,
   axi4 |-> [outstanding_limit |-> [ar |-> 0, aw |-> 0],
             aw_pending_depth |-> 0, w_data_buf_depth |-> 0,
             qos_class_map |-> [i \in 0 .. NQos - 1 |-> i],
             decerr_addr_lo |-> <<>>, decerr_addr_hi |-> <<>>],
   ports |-> <<>>,
   addr_map_policy |-> default_addr_map(g)]

ensure_port_count(c, n) ==
  [c EXCEPT !.ports =
     [p \in 1 .. n |->
        LET port == IF p <= Len(@) THEN @[p] ELSE NewPort
        IN [port EXCEPT !.vif_key = IF @ = NoKey THEN p - 1 ELSE @]]]

-----------------------------------------------------------------------------
(* The address map.                                                        *)
Bits(g, map, f) == map[f] .. map[f] + g.width[f] - 1
Placed(g) == {f \in Field : g.width[f] > 0}

validate_addr_slice(g, map, f) ==
  /\ map[f] >= 0
  /\ map[f] + g.width[f] <= g.addr_width
  /\ \A h \in Placed(g) \ {f} : Bits(g, map, f) \cap Bits(g, map, h) = {}

(* Mutant: an uncovered address bit is not noticed.                        *)
validate_addr_map_overlap_only(g, map) ==
  \A f \in Placed(g) : validate_addr_slice(g, map, f)

validate_addr_map(g, map) ==
  /\ \A f \in Placed(g) : validate_addr_slice(g, map, f)
  /\ \A b \in 0 .. g.addr_width - 1 : \E f \in Placed(g) : b \in Bits(g, map, f)

-----------------------------------------------------------------------------
(* vip_mc_config.validate, in the order of the code.                       *)
chi_validate(c) == \A ch \in DOMAIN c.chi : c.chi[ch] >= 1

CountsLegal(c) ==
  /\ chi_validate(c)
  /\ \A d \in DOMAIN c.max_outstanding : c.max_outstanding[d] >= 0
  /\ c.qos_class_count >= 1
  /\ c.refresh_max_deferred >= 1
  /\ \A k \in DOMAIN c.soft : c.soft[k] >= 0
  /\ c.max_inflight_to_device >= -1

default_max_inflight_to_device(g) == IF g.n_banks < 1 THEN 1 ELSE g.n_banks

resolve_max_inflight(c, g) ==
  [c EXCEPT !.max_inflight_to_device =
     IF @ < 0 THEN default_max_inflight_to_device(g) ELSE @]

Axi4Legal(c) ==
  LET a == c.axi4 IN
  /\ \A d \in {"aw", "ar"} : a.outstanding_limit[d] >= 0
  /\ a.aw_pending_depth >= 0 /\ a.w_data_buf_depth >= 0
  /\ Len(a.decerr_addr_lo) = Len(a.decerr_addr_hi)
  /\ \A i \in DOMAIN a.decerr_addr_lo : a.decerr_addr_lo[i] <= a.decerr_addr_hi[i]

Negative(c) == {i \in DOMAIN c.axi4.qos_class_map : c.axi4.qos_class_map[i] < 0}

(* Mutant: the clamp is one too high.                                      *)
clamp_qos_class_map_high(c) ==
  [c EXCEPT !.axi4.qos_class_map =
     [i \in DOMAIN @ |->
        IF @[i] > c.qos_class_count THEN c.qos_class_count ELSE @[i]]]

(* Entries are clamped in place up to the first negative one.              *)
clamp_qos_class_map(c) ==
  [c EXCEPT !.axi4.qos_class_map =
     [i \in DOMAIN @ |->
        IF @[i] >= c.qos_class_count /\ \A n \in Negative(c) : i < n
        THEN c.qos_class_count - 1 ELSE @[i]]]

PortsLegal(c) ==
  \A p \in DOMAIN c.ports :
    /\ c.ports[p].arb_weight >= 0
    /\ \A r \in Range(c.ports[p].regions) : r.lo <= r.hi

(* What validate leaves in the object, and whether it returned.            *)
validate(c, g) ==
  LET r == resolve_max_inflight(c, g)
      k == clamp_qos_class_map(r)
  IN IF ~CountsLegal(c) THEN [cfg |-> c, ok |-> FALSE]
     ELSE IF ~Axi4Legal(r) THEN [cfg |-> r, ok |-> FALSE]
     ELSE [cfg |-> k, ok |-> /\ Negative(k) = {}
                             /\ PortsLegal(k)
                             /\ validate_addr_map(g, k.addr_map_policy)]

device_max_addr(g) == Pow2(g.addr_width) - 1

RegionsFit(c, g) ==
  \A p \in 1 .. NPorts : \A r \in Range(c.ports[p].regions) :
    r.hi <= device_max_addr(g)

-----------------------------------------------------------------------------
Init ==
  /\ geom \in Geom
  /\ cfg = ensure_port_count(new_config(geom), NPorts)
  /\ phase = "open" /\ applied = FALSE /\ edits = 0

(* add_decerr_range and add_region refuse an inverted range.               *)
add_decerr_range(c, lo, hi) ==
  IF lo > hi THEN c
  ELSE [c EXCEPT !.axi4.decerr_addr_lo = Append(@, lo),
                 !.axi4.decerr_addr_hi = Append(@, hi)]

add_region(c, p, lo, hi) ==
  IF lo > hi THEN c
  ELSE [c EXCEPT !.ports[p].regions = Append(@, [lo |-> lo, hi |-> hi])]

(* What the program may write, its own mistakes included.                  *)
Writes(c) ==
  LET top == device_max_addr(geom) IN
  {[c EXCEPT !.chi[ch] = 0] : ch \in DOMAIN c.chi}
  \cup {[c EXCEPT !.max_outstanding[d] = n] : d \in {"rd", "wr"}, n \in {-1, 0, 4}}
  \cup {[c EXCEPT !.qos_class_count = n] : n \in 0 .. 3}
  \cup {[c EXCEPT !.axi4.qos_class_map[i] = q] :
          i \in 0 .. NQos - 1, q \in {-1, 2}}
  \cup {[c EXCEPT !.refresh_max_deferred = n] : n \in 0 .. 1}
  \cup {[c EXCEPT !.soft[k] = -1] : k \in DOMAIN c.soft}
  \cup {[c EXCEPT !.max_inflight_to_device = n] : n \in {-2, -1, 0}}
  \cup {[c EXCEPT !.ports = <<>>], [c EXCEPT !.ports = Append(@, NewPort)]}
  \cup {[c EXCEPT !.axi4.aw_pending_depth = -1],
        [c EXCEPT !.axi4.decerr_addr_lo = Append(@, 0)]}
  \cup {add_decerr_range(c, lo, top) : lo \in {0, top + 1}}
  \cup {add_region(c, p, lo, hi) :
          p \in DOMAIN c.ports, lo \in {0, 2}, hi \in {1, top, top + 1}}
  \cup {[c EXCEPT !.ports[p].arb_weight = w] : p \in DOMAIN c.ports, w \in {-1, 0}}
  \cup {[c EXCEPT !.addr_map_policy[f] = b] :
          f \in Field, b \in -1 .. geom.addr_width}

Write ==
  /\ phase = "open" /\ edits < MaxEdit
  /\ edits' = edits + 1 /\ applied' = FALSE
  /\ cfg' \in Writes(cfg)
  /\ UNCHANGED <<geom, phase>>

(* vip_mc_env_cfg.apply.                                                   *)
apply ==
  /\ phase = "open"
  /\ LET v == validate(ensure_port_count(cfg, NPorts), geom)
     IN cfg' = v.cfg /\ applied' = (v.ok /\ RegionsFit(v.cfg, geom))
  /\ UNCHANGED <<geom, phase, edits>>

(* vip_mc.build_phase, up to the mirrored limits.                          *)
build_phase ==
  /\ phase = "open"
  /\ LET v == validate(ensure_port_count(cfg, NPorts), geom)
     IN IF v.ok
        THEN /\ phase' = "built"
             /\ cfg' = [v.cfg EXCEPT !.axi4.outstanding_limit =
                          [aw |-> v.cfg.max_outstanding.wr,
                           ar |-> v.cfg.max_outstanding.rd]]
        ELSE phase' = "refused" /\ cfg' = v.cfg
  /\ UNCHANGED <<geom, applied, edits>>

Next == Write \/ apply \/ build_phase

Spec == Init /\ [][Next]_vars

-----------------------------------------------------------------------------
(* How the built controller reads the configuration.                       *)
qos_to_class(axqos) ==
  LET q == cfg.axi4.qos_class_map[IF axqos > NQos - 1 THEN NQos - 1 ELSE axqos]
  IN IF q < 0 THEN 0 ELSE q

is_decerr_addr(a) ==
  \E i \in DOMAIN cfg.axi4.decerr_addr_lo :
    a \in cfg.axi4.decerr_addr_lo[i] .. cfg.axi4.decerr_addr_hi[i]

allows_addr(p, a) ==
  LET regions == cfg.ports[p].regions
  IN regions = <<>> \/ \E r \in Range(regions) : a \in r.lo .. r.hi

(* Whatever was written and validated before, a controller that was built  *)
(* gets what its parts assume: a class of the queue for every AxQOS, a     *)
(* usable limit everywhere, ranges that contain an address, and a          *)
(* configuration that another validate would leave as it is.               *)
BuiltIsUsable ==
  phase = "built" =>
    /\ \A q \in 0 .. NQos : qos_to_class(q) \in 0 .. cfg.qos_class_count - 1
    /\ cfg.max_inflight_to_device >= 0 /\ cfg.refresh_max_deferred >= 1
    /\ \A d \in {"aw", "ar"} : cfg.axi4.outstanding_limit[d] >= 0
    /\ \A i \in DOMAIN cfg.axi4.decerr_addr_lo : is_decerr_addr(cfg.axi4.decerr_addr_hi[i])
    /\ Len(cfg.ports) = NPorts
    /\ \A p \in 1 .. NPorts : \A r \in Range(cfg.ports[p].regions) :
         allows_addr(p, r.lo)
    /\ validate(cfg, geom) = [cfg |-> cfg, ok |-> TRUE]

(* vip_dram's decode of address a: the device coordinates it names.        *)
decode(a) ==
  [f \in Field |->
     IF cfg.addr_map_policy[f] < 0 THEN 0
     ELSE (a \div Pow2(cfg.addr_map_policy[f])) % Pow2(geom.width[f])]

Address == 0 .. device_max_addr(geom)

(* The address map is accepted exactly when the device decode it stands    *)
(* for is one to one: every address has a place of its own, and there are  *)
(* no more places in the device than addresses.                            *)
AddressMapExact ==
  validate_addr_map(geom, cfg.addr_map_policy) <=>
    /\ Cardinality({decode(a) : a \in Address}) = Cardinality(Address)
    /\ Pow2(MapThenSumSet(LAMBDA f : geom.width[f], Field)) = Cardinality(Address)

(* A port that owns regions, applied through the environment configuration,*)
(* can be allowed no address that the device does not have.                *)
RegionsInDevice ==
  applied /\ phase = "built" =>
    \A p \in 1 .. NPorts, a \in 0 .. 2 * Pow2(geom.addr_width) :
      cfg.ports[p].regions # <<>> /\ allows_addr(p, a) => a \in Address

(* What a built controller is configured with its parts can use.           *)
ConfigUsable == BuiltIsUsable /\ RegionsInDevice
=============================================================================
