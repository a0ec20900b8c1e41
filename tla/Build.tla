------------------------------- MODULE Build ---------------------------------
(***************************************************************************)
(* How a controller is put together: what the test hands over, either in   *)
(* one vip_mc_env_cfg object or under separate keys of the configuration   *)
(* database, and what vip_mc's build and connect phases make of it: the    *)
(* number of ports, a frontend and an interface for each, the data width   *)
(* it will pack with, the device and the device's address map.             *)
(*                                                                         *)
(* A RuntimeError ends the build.  The knobs of vip_mc_config are Config's *)
(* subject and legal here; of a port's bus parameters the data width stands*)
(* for all.                                                                *)
(***************************************************************************)
EXTENDS Integers, Sequences, FiniteSets, SequencesExt, FiniteSetsExt

CONSTANTS
  MaxPorts,
  RowBytes,    (* geom.ROW_BYTES_P *)
  BusBytes,    (* data bytes of every bus the test connects *)
  CfgBytes,    (* data bytes a test may state for a bus *)
  Maps,        (* address maps *)
  Databases,   (* what a test may hand over under keys *)
  Paths        (* subset of {"env", "db"}: how the test hands over *)

ASSUME BuildAssumption ==
  /\ MaxPorts \in Nat \ {0} /\ Paths \subseteq {"env", "db"}
  /\ {RowBytes, BusBytes} \cup CfgBytes \subseteq Nat \ {0}

VARIABLES
  path,
  db,       (* the keys the test set *)
  env,      (* the vip_mc_env_cfg *)
  map,      (* cfg.addr_map_policy *)
  mc,       (* vip_mc: ports, frontends, the device's map *)
  backend,  (* registered frontends, by port *)
  phase     (* "test", "build", "drivers", "connect", "up" or "failed" *)

vars == <<path, db, env, map, mc, backend, phase>>

Proto == {"AXI4", "CHI"}
Port == 1 .. MaxPorts
NoVif == [proto |-> "NONE", given |-> "none", port |-> 0]
NoHolder == [proto |-> "NONE", vif |-> NoVif, cfg_t |-> 0]
NoFe == [proto |-> "NONE", vif |-> NoVif, bytes |-> 0]

(* A bus is told apart by how it was handed over and for which port.       *)
Bus(proto, given, p) == [proto |-> proto, given |-> given, port |-> p]

UpTo(S, n) == UNION {[1 .. k -> S] : k \in 0 .. n}
At(s, p, none) == IF p <= Len(s) THEN s[p] ELSE none

-----------------------------------------------------------------------------
(* The test.  Under keys: a list of interfaces or a single one for either  *)
(* protocol, a list of their widths (a single width is a list of one), one *)
(* key for each port, the port table and the number of ports.  A port key  *)
(* holds a bus of the protocol the table names for that port.              *)
PortTable == [proto : Proto, bytes : CfgBytes]

ProtoOf(table, p) == At([i \in DOMAIN table |-> table[i].proto], p, "AXI4")

BusLists(proto) ==
  {[p \in DOMAIN s |-> IF s[p] THEN Bus(proto, "list", p) ELSE NoVif] :
     s \in UpTo(BOOLEAN, MaxPorts)}

AnyDatabase ==
  [axi4_vifs   : BusLists("AXI4"),
   vif         : {NoVif, Bus("AXI4", "single", 1)},
   axi4_cfg_ts : UpTo({0} \cup CfgBytes, MaxPorts),
   chi_vifs    : BusLists("CHI"),
   chi_vif     : {NoVif, Bus("CHI", "single", 1)},
   chi_cfg_ts  : UpTo({0} \cup CfgBytes, MaxPorts),
   key         : SUBSET Port,
   ports       : UpTo(PortTable, MaxPorts),
   n_ports     : 0 .. MaxPorts,
   dram        : {"none"} \cup Maps]

ASSUME DatabaseAssumption == Databases \subseteq AnyDatabase

EmptyDb == [axi4_vifs |-> <<>>, vif |-> NoVif, axi4_cfg_ts |-> <<>>,
            chi_vifs |-> <<>>, chi_vif |-> NoVif, chi_cfg_ts |-> <<>>,
            key |-> {}, ports |-> <<>>, n_ports |-> 0, dram |-> "none"]

NoEnv == [ports |-> <<>>, vif_h |-> <<>>, dram |-> "none", published |-> FALSE]

Init ==
  /\ path \in Paths /\ map \in Maps
  /\ IF path = "db" THEN db \in Databases
     ELSE db \in {[EmptyDb EXCEPT !.n_ports = n] : n \in 0 .. MaxPorts}
  /\ env = NoEnv
  /\ mc = [n_ports |-> 0, port_cfgs |-> <<>>, fes |-> <<>>,
            device_map |-> "none"]
  /\ backend = <<>>
  /\ phase = IF path = "db" THEN "build" ELSE "test"

(* vip_mc_env_cfg.__init__ and the handles the test stores in it.          *)
new_env_cfg ==
  /\ phase = "test" /\ env = NoEnv
  /\ \E table \in UpTo(PortTable, MaxPorts) \ {<<>>}, d \in {"none"} \cup Maps :
       env' = [ports |-> table, vif_h |-> [p \in DOMAIN table |-> NoHolder],
               dram |-> d, published |-> FALSE]
  /\ UNCHANGED <<path, db, map, mc, backend, phase>>

(* A holder of the wrong protocol is refused.                              *)
register_vif ==
  /\ phase = "test" /\ env # NoEnv
  /\ \E p \in DOMAIN env.ports, proto \in Proto, cfg_t \in {0} \cup CfgBytes :
       /\ env.vif_h[p] = NoHolder
       /\ IF proto # env.ports[p].proto
          THEN phase' = "failed" /\ UNCHANGED env
          ELSE /\ env' = [env EXCEPT !.vif_h[p] =
                            [proto |-> proto, vif |-> Bus(proto, "holder", p),
                             cfg_t |-> cfg_t]]
               /\ UNCHANGED phase
  /\ UNCHANGED <<path, db, map, mc, backend>>

(* apply validates before it publishes; a test may publish by itself.      *)
EnvValid ==
  /\ env.dram # "none"
  /\ \A p \in DOMAIN env.vif_h : env.vif_h[p].proto = env.ports[p].proto

apply ==
  /\ phase = "test" /\ env # NoEnv
  /\ env' = [env EXCEPT !.published = EnvValid]
  /\ phase' = IF EnvValid THEN "build" ELSE "failed"
  /\ UNCHANGED <<path, db, map, mc, backend>>

Publish ==
  /\ phase = "test" /\ env # NoEnv
  /\ env' = [env EXCEPT !.published = TRUE] /\ phase' = "build"
  /\ UNCHANGED <<path, db, map, mc, backend>>

-----------------------------------------------------------------------------
(* vip_mc.build_phase.                                                     *)
axi4_vifs == IF db.axi4_vifs # <<>> THEN db.axi4_vifs
             ELSE IF db.vif # NoVif THEN <<db.vif>> ELSE <<>>

chi_vifs == IF db.chi_vifs # <<>> THEN db.chi_vifs
            ELSE IF db.chi_vif # NoVif THEN <<db.chi_vif>> ELSE <<>>

(* Without an environment only the AXI4 interfaces count.                  *)
n_ports == IF env.published THEN Len(env.ports)
           ELSE IF db.n_ports # 0 THEN db.n_ports
           ELSE Max({1, Len(axi4_vifs)})

port_cfgs == IF env.published THEN env.ports ELSE db.ports

default_axi4_bytes == RowBytes
OrElse(x, y) == IF x # 0 THEN x ELSE y

Refused == [ok |-> FALSE, fe |-> NoFe]
Resolved(proto, vif, bytes) ==
  [ok |-> TRUE, fe |-> [proto |-> proto, vif |-> vif, bytes |-> bytes]]

(* Mutant: a hole of the list is filled with the first interface.          *)
resolve_vif_first(p, proto, list, cfg_ts, default) ==
  IF env.published
  THEN IF env.vif_h[p].proto # proto THEN Refused
       ELSE Resolved(proto, env.vif_h[p].vif,
                     OrElse(env.vif_h[p].cfg_t, default))
  ELSE IF list # <<>>
  THEN Resolved(proto, list[1], OrElse(At(cfg_ts, p, 0), default))
  ELSE IF p \in db.key
  THEN Resolved(proto, Bus(proto, "key", p),
                OrElse(At(cfg_ts, p, 0), default))
  ELSE Refused

(* A holder of the environment, else the list, else the port's own key.    *)
resolve_vif(p, proto, list, cfg_ts, default) ==
  IF env.published
  THEN IF env.vif_h[p].proto # proto THEN Refused
       ELSE Resolved(proto, env.vif_h[p].vif,
                     OrElse(env.vif_h[p].cfg_t, default))
  ELSE IF At(list, p, NoVif) # NoVif
  THEN Resolved(proto, list[p], OrElse(At(cfg_ts, p, 0), default))
  ELSE IF p \in db.key
  THEN Resolved(proto, Bus(proto, "key", p),
                OrElse(At(cfg_ts, p, 0), default))
  ELSE Refused

resolve_axi4_vif(p) ==
  resolve_vif(p, "AXI4", axi4_vifs, db.axi4_cfg_ts, default_axi4_bytes)

resolve_chi_vif(p) ==
  resolve_vif(p, "CHI", chi_vifs, db.chi_cfg_ts, port_cfgs[p].bytes)

frontend(p) == IF ProtoOf(port_cfgs, p) = "AXI4" THEN resolve_axi4_vif(p)
               ELSE resolve_chi_vif(p)

(* The device: an external one keeps the map it came with.                 *)
dram == IF env.published THEN env.dram ELSE db.dram

build_phase ==
  /\ phase = "build"
  /\ mc' = [n_ports |-> n_ports, port_cfgs |-> port_cfgs,
            fes |-> [p \in 1 .. n_ports |-> frontend(p).fe],
            device_map |-> IF dram = "none" THEN map ELSE dram]
  /\ phase' = IF \A p \in 1 .. n_ports : frontend(p).ok THEN "drivers"
              ELSE "failed"
  /\ UNCHANGED <<path, db, env, map, backend>>

Divides(bytes) == bytes <= RowBytes /\ RowBytes % bytes = 0

(* A driver reads back the keys vip_mc set for its instance, falls back to *)
(* the row width, and validates: the CHI driver compares its width with    *)
(* that of the bus, the AXI4 driver cannot.                                *)
axi4_build_phase(fe) ==
  fe.vif # NoVif /\ Divides(OrElse(fe.bytes, RowBytes))

chi_build_phase(fe) ==
  LET bytes == OrElse(fe.bytes, RowBytes)
  IN fe.vif # NoVif /\ Divides(bytes) /\ bytes = BusBytes

(* The drivers' and the backend's own build phases.                        *)
BuildChildren ==
  /\ phase = "drivers"
  /\ phase' = IF \A p \in DOMAIN mc.fes :
                   IF mc.fes[p].proto = "AXI4" THEN axi4_build_phase(mc.fes[p])
                                               ELSE chi_build_phase(mc.fes[p])
              THEN "connect" ELSE "failed"
  /\ backend' = [p \in 1 .. OrElse(db.n_ports, mc.n_ports) |-> NoFe]
  /\ UNCHANGED <<path, db, env, map, mc>>

(* connect_phase: register_port for each frontend in turn.                 *)
connect_phase ==
  /\ phase = "connect"
  /\ backend' = [p \in DOMAIN backend |-> At(mc.fes, p, NoFe)]
  /\ phase' = IF Len(mc.fes) <= Len(backend) THEN "up" ELSE "failed"
  /\ UNCHANGED <<path, db, env, map, mc>>

Next ==
  \/ new_env_cfg \/ register_vif \/ apply \/ Publish
  \/ build_phase \/ BuildChildren \/ connect_phase

Spec == Init /\ [][Next]_vars

-----------------------------------------------------------------------------
Fes == Range(mc.fes)

(* Interfaces the test handed over for port p.                             *)
SuppliedTo(p) ==
  ({At([q \in DOMAIN env.vif_h |-> env.vif_h[q].vif], p, NoVif),
    At(axi4_vifs, p, NoVif), At(chi_vifs, p, NoVif)}
   \cup {Bus(ProtoOf(port_cfgs, q), "key", q) : q \in db.key \cap {p}})
  \ {NoVif}

(* A controller that came up has, for every port, a frontend of the        *)
(* protocol its table names, on an interface that was handed over for that *)
(* port and for no other, which the backend answers under that port.       *)
OwnInterface ==
  phase = "up" =>
    /\ \A p \in DOMAIN mc.fes :
         /\ mc.fes[p].proto = ProtoOf(mc.port_cfgs, p)
         /\ mc.fes[p].vif.proto = mc.fes[p].proto
         /\ mc.fes[p].vif \in SuppliedTo(p)
         /\ backend[p] = mc.fes[p]
    /\ \A p, q \in DOMAIN mc.fes : p # q => mc.fes[p].vif # mc.fes[q].vif

(* What makes a build impossible: a wrong or missing interface, a width    *)
(* that does not divide a row or is not the CHI bus's, a missing device    *)
(* where one is required, a database that names fewer ports.               *)
Mistake ==
  \/ path = "env" /\ (env.dram = "none" \/ NoHolder \in Range(env.vif_h))
  \/ \E p \in 1 .. n_ports :
       \A v \in SuppliedTo(p) : v.proto # ProtoOf(port_cfgs, p)
  \/ \E p \in 1 .. n_ports : LET b == frontend(p).fe.bytes IN
       \/ RowBytes % b # 0
       \/ ProtoOf(port_cfgs, p) = "CHI" /\ b # BusBytes
  \/ db.n_ports # 0 /\ db.n_ports < n_ports

(* What a test hands over completely and consistently is never refused.    *)
RefusedForCause ==
  phase = "failed" /\ (path = "db" \/ env.published) => Mistake

(* Every interface registered in an environment configuration is driven by *)
(* a frontend, whatever the mix of protocols.                              *)
RegisteredServed ==
  phase = "up" /\ path = "env" =>
    \A p \in DOMAIN env.vif_h : \E fe \in Fes : fe.vif = env.vif_h[p].vif

(* By keys, the list of a port's protocol decides for its port, and its    *)
(* own key only where the list has a hole.  What goes beyond the number of *)
(* ports, or is of the other protocol, is left unconnected.                *)
ListedServed ==
  phase = "up" /\ path = "db" =>
    \A p \in DOMAIN mc.fes :
      LET listed == At(IF mc.fes[p].proto = "AXI4" THEN axi4_vifs ELSE chi_vifs,
                       p, NoVif)
      IN IF listed # NoVif THEN mc.fes[p].vif = listed ELSE p \in db.key

(* A controller that came up drives on each port an interface handed over  *)
(* for that port: the one registered in the environment, none left out, or *)
(* by keys the one that its list or its key has for it.  A build that      *)
(* fails has a cause.                                                      *)
ConnectionExact ==
  OwnInterface /\ RefusedForCause /\ RegisteredServed /\ ListedServed
=============================================================================
