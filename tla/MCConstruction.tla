--------------------------- MODULE MCConstruction ----------------------------
(***************************************************************************)
(* The configuration and the build in one run: a behaviour either writes,  *)
(* validates and builds from one vip_mc_config, or puts a controller       *)
(* together from what the test hands over.                                 *)
(***************************************************************************)
EXTENDS Build

CONSTANTS Geom, NQos, NPorts, MaxEdit

VARIABLES job, cfg, geom, stage, applied, edits

(* Two geometries of four address bits: one whose fields fill the address, *)
(* with a single bank group, and one a bit short, with a two-bit row.      *)
Exact == [addr_width |-> 4, n_banks |-> 4,
          width |-> [byte |-> 1, col |-> 1, bank |-> 1, bg |-> 0, row |-> 0,
                     rank |-> 1]]
Short == [addr_width |-> 4, n_banks |-> 1,
          width |-> [byte |-> 1, col |-> 0, bank |-> 0, bg |-> 0, row |-> 2,
                     rank |-> 0]]

AllGeom == {Exact, Short}

(* Databases that differ in what decides: either a list of interfaces or a *)
(* single one for each protocol, any of the port keys, a port table whose  *)
(* rows share one width that divides a row, any number of ports.           *)
Interfaces(proto) ==
  [list : BusLists(proto), single : {NoVif}]
    \cup [list : {<<>>}, single : {Bus(proto, "single", 1)}]

Tables ==
  UNION {UpTo([proto : Proto, bytes : {b}], MaxPorts) :
           b \in {c \in CfgBytes : Divides(c)}}

(* A width for one port, after holes: of AXI4 one that is no divisor of a  *)
(* row, which is all that its driver looks at; or a device of the test's.  *)
Stated(widths) ==
  {[q \in 1 .. p |-> IF q = p THEN b ELSE 0] : p \in Port, b \in widths}

Extras ==
  [axi4 : {<<>>}, chi : {<<>>}, dram : {"none"} \cup Maps]
    \cup [axi4 : {<<>>}, chi : Stated(CfgBytes), dram : {"none"}]
    \cup [axi4 : Stated({b \in CfgBytes : ~Divides(b)}), chi : {<<>>},
          dram : {"none"}]

SmallDatabases ==
  {[axi4_vifs |-> axi4.list, vif |-> axi4.single, axi4_cfg_ts |-> extra.axi4,
    chi_vifs |-> chi.list, chi_vif |-> chi.single, chi_cfg_ts |-> extra.chi,
    key |-> key, ports |-> table, n_ports |-> n, dram |-> extra.dram] :
     axi4 \in Interfaces("AXI4"), chi \in Interfaces("CHI"), extra \in Extras,
     key \in SUBSET Port, table \in Tables, n \in 0 .. MaxPorts}

Knobs == INSTANCE Config WITH phase <- stage

ASSUME KnobsAssumption == Knobs!ConfigAssumption

knobVars == <<cfg, geom, stage, applied, edits>>

IsKnobs == job = "knobs"

AnyInit ==
  /\ job \in {"knobs", "build"}
  /\ IF IsKnobs
     THEN path = "env" /\ db = EmptyDb /\ map = "A"
     ELSE geom = CHOOSE g \in Geom : TRUE
  /\ Knobs!Init /\ Init

AnyNext ==
  \/ IsKnobs /\ Knobs!Next /\ UNCHANGED <<job, vars>>
  \/ ~IsKnobs /\ Next /\ UNCHANGED <<job, knobVars>>

AnySpec == AnyInit /\ [][AnyNext]_<<vars, job, knobVars>>

(* What a validated configuration guarantees; stated in Config.            *)
ConfigUsable    == IsKnobs => Knobs!ConfigUsable
AddressMapExact == IsKnobs => Knobs!AddressMapExact
=============================================================================
