------------------------- MODULE ConstructionProofs --------------------------
(***************************************************************************)
(* What holds of a controller that was put together, for any number of     *)
(* ports, any widths and address maps and every way to hand them over; and *)
(* of its configuration, for every geometry and whatever was written.      *)
(***************************************************************************)
EXTENDS MCConstruction, TLAPS

(***************************************************************************)
(* What a test hands over                                                  *)
(***************************************************************************)

PortCfg == [proto : Proto, bytes : Nat \ {0}]

(* A list of buses has each bus at its own port.                           *)
ListOf(list, proto) ==
  /\ list \in Seq([proto : Proto \cup {"NONE"},
                   given : {"none", "list", "single", "key", "holder"},
                   port : Nat])
  /\ \A p \in DOMAIN list :
       list[p] # NoVif => list[p].proto = proto /\ list[p].port = p

DbOK ==
  /\ ListOf(db.axi4_vifs, "AXI4") /\ ListOf(db.chi_vifs, "CHI")
  /\ db.vif \in {NoVif, Bus("AXI4", "single", 1)}
  /\ db.chi_vif \in {NoVif, Bus("CHI", "single", 1)}
  /\ db.axi4_cfg_ts \in Seq(Nat) /\ db.chi_cfg_ts \in Seq(Nat)
  /\ db.ports \in Seq(PortCfg)
  /\ db.n_ports \in Nat

(* A holder holds a bus of its own port, of the protocol of the table.     *)
HolderOK(h, p, proto) ==
  \/ h = NoHolder
  \/ /\ h.proto = proto /\ h.vif # NoVif
     /\ h.vif.proto = proto /\ h.vif.port = p
     /\ h.cfg_t \in Nat

EnvOK ==
  /\ env.ports \in Seq(PortCfg)
  /\ DOMAIN env.vif_h = 1 .. Len(env.ports)
  /\ env.vif_h = [p \in 1 .. Len(env.ports) |-> env.vif_h[p]]
  /\ \A p \in 1 .. Len(env.ports) :
       HolderOK(env.vif_h[p], p, env.ports[p].proto)
  /\ env.published \in BOOLEAN
  /\ env = [ports |-> env.ports, vif_h |-> env.vif_h, dram |-> env.dram,
            published |-> env.published]

(* Nothing comes by both ways.                                             *)
OneWay ==
  /\ path \in {"env", "db"}
  /\ path = "db" => env = NoEnv
  /\ path = "env" => db = [EmptyDb EXCEPT !.n_ports = db.n_ports]

Handed == DbOK /\ EnvOK /\ OneWay

(* The frontends are the ones that the keys and holders resolve to.        *)
Settled ==
  /\ path = "env" => env.published
  /\ mc.port_cfgs = port_cfgs /\ mc.n_ports = n_ports
  /\ mc.fes = [p \in 1 .. n_ports |-> frontend(p).fe]
  /\ \A p \in 1 .. n_ports : frontend(p).ok

Slots == OrElse(db.n_ports, n_ports)

PhaseOK ==
  /\ phase \in {"test", "build", "drivers", "connect", "up", "failed"}
  /\ phase = "test" => path = "env" /\ ~env.published
  /\ phase = "build" => (path = "env" => env.published)
  /\ phase \in {"drivers", "connect", "up"} => Settled
  /\ phase = "connect" => backend = [p \in 1 .. Slots |-> NoFe]
  /\ phase = "up" =>
       /\ n_ports <= Slots
       /\ backend = [p \in 1 .. Slots |-> At(mc.fes, p, NoFe)]

BuildInv == Handed /\ PhaseOK /\ RefusedForCause

(***************************************************************************)
(* Sequences                                                               *)
(***************************************************************************)

LEMMA LenIs ==
  ASSUME NEW S, NEW n \in Nat, NEW s \in [1 .. n -> S]
  PROVE  s \in Seq(S) /\ Len(s) = n /\ DOMAIN s = 1 .. n
<1>1. \A i \in 1 .. n : s[i] \in S OBVIOUS
<1>2. [i \in 1 .. n |-> s[i]] \in Seq(S) BY <1>1
<1>3. s = [i \in 1 .. n |-> s[i]] OBVIOUS
<1>4. s \in Seq(S) BY <1>2, <1>3
<1>5. DOMAIN s = 1 .. n OBVIOUS
<1> QED BY <1>4, <1>5

LEMMA AtIs ==
  ASSUME NEW S, NEW n \in Nat, NEW s \in [1 .. n -> S], NEW p, NEW none
  PROVE  At(s, p, none) = IF p <= n THEN s[p] ELSE none
<1>1. Len(s) = n BY LenIs
<1> QED BY <1>1 DEF At

LEMMA AtSeq ==
  ASSUME NEW S, NEW s \in Seq(S), NEW p \in Nat \ {0}, NEW none
  PROVE  At(s, p, none) = IF p \in DOMAIN s THEN s[p] ELSE none
  BY DEF At

(***************************************************************************)
(* What a port gets                                                        *)
(***************************************************************************)

BusFor(v, proto, p) == v # NoVif => v.proto = proto /\ v.port = p

LEMMA BusIs ==
  ASSUME NEW proto \in Proto, NEW given, NEW p
  PROVE  /\ Bus(proto, given, p) # NoVif
         /\ Bus(proto, given, p).proto = proto
         /\ Bus(proto, given, p).port = p
<1>1. Bus(proto, given, p).proto = proto /\ Bus(proto, given, p).port = p
  BY DEF Bus
<1>2. NoVif.proto = "NONE" BY DEF NoVif
<1> QED BY <1>1, <1>2 DEF Proto

LEMMA ListsHold ==
  ASSUME Handed, NEW p \in Nat \ {0}
  PROVE  /\ ListOf(axi4_vifs, "AXI4") /\ ListOf(chi_vifs, "CHI")
         /\ BusFor(At(axi4_vifs, p, NoVif), "AXI4", p)
         /\ BusFor(At(chi_vifs, p, NoVif), "CHI", p)
<1>1. ASSUME NEW v, NEW proto \in Proto, v = Bus(proto, "single", 1)
      PROVE  ListOf(<<v>>, proto)
  <2>1. v \in [proto : Proto \cup {"NONE"},
               given : {"none", "list", "single", "key", "holder"},
               port : Nat]
    BY <1>1 DEF Bus
  <2>2. v.proto = proto /\ v.port = 1 BY <1>1, BusIs
  <2> QED BY <2>1, <2>2 DEF ListOf
<1>2. ASSUME NEW proto PROVE ListOf(<<>>, proto)
  BY DEF ListOf
<1>3. "AXI4" \in Proto /\ "CHI" \in Proto BY DEF Proto
<1>4. ListOf(axi4_vifs, "AXI4") /\ ListOf(chi_vifs, "CHI")
  <2> USE DEF Handed, DbOK
  <2>1. ListOf(axi4_vifs, "AXI4")
    BY <1>1, <1>2, <1>3 DEF axi4_vifs
  <2>2. ListOf(chi_vifs, "CHI")
    BY <1>1, <1>2, <1>3 DEF chi_vifs
  <2> QED BY <2>1, <2>2
<1>5. ASSUME NEW list, NEW proto, ListOf(list, proto)
      PROVE  BusFor(At(list, p, NoVif), proto, p)
  <2>1. CASE p \in DOMAIN list
    <3>1. At(list, p, NoVif) = list[p] BY <1>5, <2>1, AtSeq DEF ListOf
    <3> QED BY <1>5, <2>1, <3>1 DEF ListOf, BusFor
  <2>2. CASE p \notin DOMAIN list
    <3>1. At(list, p, NoVif) = NoVif BY <1>5, <2>2, AtSeq DEF ListOf
    <3> QED BY <3>1 DEF BusFor
  <2> QED BY <2>1, <2>2
<1> QED BY <1>4, <1>5

(* The number of ports, and the protocol of each.                          *)
LEMMA PortsHold ==
  ASSUME Handed
  PROVE  /\ n_ports \in Nat
         /\ port_cfgs \in Seq(PortCfg)
         /\ env.published => n_ports = Len(env.ports)
<1>1. port_cfgs \in Seq(PortCfg) BY DEF Handed, DbOK, EnvOK, port_cfgs
<1>2. n_ports \in Nat
  <2>1. Len(env.ports) \in Nat /\ db.n_ports \in Nat
    BY DEF Handed, DbOK, EnvOK
  <2>2. Len(axi4_vifs) \in Nat BY ListsHold DEF ListOf
  <2>3. Max({1, Len(axi4_vifs)}) \in {1, Len(axi4_vifs)}
    <3>1. \E x \in {1, Len(axi4_vifs)} : \A y \in {1, Len(axi4_vifs)} : x >= y
      BY <2>2
    <3> QED BY <3>1 DEF Max
  <2> QED BY <2>1, <2>2, <2>3 DEF n_ports
<1> QED BY <1>1, <1>2 DEF n_ports

LEMMA ProtoHolds ==
  ASSUME Handed, NEW p \in Nat \ {0}
  PROVE  /\ ProtoOf(port_cfgs, p) \in Proto
         /\ p \in DOMAIN port_cfgs =>
              /\ ProtoOf(port_cfgs, p) = port_cfgs[p].proto
              /\ port_cfgs[p].bytes \in Nat \ {0}
         /\ p \notin DOMAIN port_cfgs => ProtoOf(port_cfgs, p) = "AXI4"
<1> DEFINE n == Len(port_cfgs)
           protos == [i \in DOMAIN port_cfgs |-> port_cfgs[i].proto]
<1>1. /\ n \in Nat /\ DOMAIN port_cfgs = 1 .. n
      /\ \A i \in 1 .. n : port_cfgs[i] \in PortCfg
  BY PortsHold
<1>2. \A i \in 1 .. n : /\ port_cfgs[i].proto \in Proto
                       /\ port_cfgs[i].bytes \in Nat \ {0}
  BY <1>1 DEF PortCfg
<1> HIDE DEF n
<1>3. protos \in [1 .. n -> Proto] BY <1>1, <1>2
<1>4. ProtoOf(port_cfgs, p) = IF p <= n THEN protos[p] ELSE "AXI4"
  <2>1. At(protos, p, "AXI4") = IF p <= n THEN protos[p] ELSE "AXI4"
    <3>1. n \in Nat BY <1>1
    <3> HIDE DEF protos
    <3>2. Len(protos) = n BY <1>3, <3>1, LenIs
    <3> QED BY <3>2 DEF At
  <2> QED BY <2>1 DEF ProtoOf
<1>5. CASE p <= n
  <2>1. p \in 1 .. n BY <1>1, <1>5
  <2>2. ProtoOf(port_cfgs, p) = port_cfgs[p].proto
    BY <1>1, <1>4, <1>5, <2>1
  <2> QED BY <1>1, <1>2, <2>1, <2>2
<1>6. CASE ~(p <= n)
  <2>1. p \notin 1 .. n BY <1>1, <1>6
  <2> QED BY <1>1, <1>4, <1>6, <2>1 DEF Proto
<1> QED BY <1>5, <1>6

(* The interface that the list of a protocol has for a port.               *)
Listed(proto, p) ==
  At(IF proto = "AXI4" THEN axi4_vifs ELSE chi_vifs, p, NoVif)

(* What a port's frontend resolves to, or why it does not.                 *)
ResolvedFor(r, p, proto) ==
  /\ r.ok \in BOOLEAN
  /\ r.ok =>
       /\ r.fe.proto = proto
       /\ r.fe.vif.proto = proto /\ r.fe.vif.port = p
       /\ r.fe.vif \in SuppliedTo(p)
       /\ r.fe.bytes \in Nat \ {0}
       /\ IF env.published THEN r.fe.vif = env.vif_h[p].vif
          ELSE IF Listed(proto, p) # NoVif THEN r.fe.vif = Listed(proto, p)
          ELSE p \in db.key
  /\ ~r.ok =>
       IF env.published THEN env.vif_h[p] = NoHolder
       ELSE \A v \in SuppliedTo(p) : v.proto # proto

LEMMA SuppliedIs ==
  ASSUME Handed, NEW p \in Nat \ {0}
  PROVE  SuppliedTo(p) =
           ({IF p \in 1 .. Len(env.ports) THEN env.vif_h[p].vif ELSE NoVif,
             At(axi4_vifs, p, NoVif), At(chi_vifs, p, NoVif)}
            \cup {v \in {Bus(ProtoOf(port_cfgs, p), "key", p)} :
                    p \in db.key})
           \ {NoVif}
<1> DEFINE n == Len(env.ports)
           vifs == [q \in DOMAIN env.vif_h |-> env.vif_h[q].vif]
<1>1. n \in Nat BY DEF Handed, EnvOK
<1>2. DOMAIN env.vif_h = 1 .. n BY DEF Handed, EnvOK
<1>3. At(vifs, p, NoVif) = IF p \in 1 .. n THEN env.vif_h[p].vif ELSE NoVif
  <2> HIDE DEF n
  <2>1. vifs \in [1 .. n -> {env.vif_h[q].vif : q \in 1 .. n}] BY <1>2
  <2>2. p \in 1 .. n => vifs[p] = env.vif_h[p].vif BY <1>2
  <2>3. p <= n <=> p \in 1 .. n BY <1>1
  <2> HIDE DEF vifs
  <2>4. At(vifs, p, NoVif) = IF p <= n THEN vifs[p] ELSE NoVif
    <3>1. Len(vifs) = n BY <1>1, <2>1, LenIs
    <3> QED BY <3>1 DEF At
  <2> QED BY <2>2, <2>3, <2>4
<1>4. {Bus(ProtoOf(port_cfgs, q), "key", q) : q \in db.key \cap {p}}
        = {v \in {Bus(ProtoOf(port_cfgs, p), "key", p)} : p \in db.key}
  OBVIOUS
<1> HIDE DEF n
<1>5. SuppliedTo(p) =
        ({At(vifs, p, NoVif), At(axi4_vifs, p, NoVif), At(chi_vifs, p, NoVif)}
         \cup {Bus(ProtoOf(port_cfgs, q), "key", q) : q \in db.key \cap {p}})
        \ {NoVif}
  BY Zenon DEF SuppliedTo
<1> HIDE DEF vifs
<1>6. SuppliedTo(p) =
        ({IF p \in 1 .. n THEN env.vif_h[p].vif ELSE NoVif,
          At(axi4_vifs, p, NoVif), At(chi_vifs, p, NoVif)}
         \cup {v \in {Bus(ProtoOf(port_cfgs, p), "key", p)} : p \in db.key})
        \ {NoVif}
  BY <1>3, <1>4, <1>5, Zenon
<1> QED BY <1>6 DEF n

(* What comes by a list or a key is a bus of the port's own.               *)
LEMMA ResolveHolds ==
  ASSUME Handed, path = "env" => env.published,
         NEW p \in 1 .. n_ports, NEW proto, NEW other,
         proto = ProtoOf(port_cfgs, p),
         NEW list, NEW others,
         {list, others} = {axi4_vifs, chi_vifs},
         At(list, p, NoVif) = Listed(proto, p),
         BusFor(At(list, p, NoVif), proto, p),
         BusFor(At(others, p, NoVif), other, p), other # proto,
         list \in Seq([proto : Proto \cup {"NONE"},
                       given : {"none", "list", "single", "key", "holder"},
                       port : Nat]),
         NEW cfg_ts \in Seq(Nat), NEW default \in Nat \ {0}
  PROVE  ResolvedFor(resolve_vif(p, proto, list, cfg_ts, default), p, proto)
<1> DEFINE r == resolve_vif(p, proto, list, cfg_ts, default)
<1>1. p \in Nat \ {0} /\ n_ports \in Nat BY PortsHold
<1>2. proto \in Proto BY <1>1, ProtoHolds
<1>3. ASSUME NEW w \in Nat PROVE OrElse(w, default) \in Nat \ {0}
  BY <1>3 DEF OrElse
<1>4. At(cfg_ts, p, 0) \in Nat BY <1>1, AtSeq
<1>5. Refused.ok = FALSE BY DEF Refused
<1>6. CASE env.published
  <2>1. p \in 1 .. Len(env.ports) BY <1>6, PortsHold
  <2>2. HolderOK(env.vif_h[p], p, env.ports[p].proto)
    BY <2>1 DEF Handed, EnvOK
  <2>3. env.ports[p].proto = proto
    <3>1. port_cfgs = env.ports BY <1>6 DEF port_cfgs
    <3>2. p \in DOMAIN port_cfgs BY <2>1, <3>1 DEF Handed, EnvOK
    <3> QED BY <1>1, <3>1, <3>2, ProtoHolds
  <2>4. CASE env.vif_h[p].proto # proto
    <3>1. r = Refused BY <1>6, <2>4 DEF resolve_vif
    <3>2. env.vif_h[p] = NoHolder BY <2>2, <2>3, <2>4 DEF HolderOK
    <3> QED BY <1>5, <1>6, <3>1, <3>2 DEF ResolvedFor
  <2>5. CASE env.vif_h[p].proto = proto
    <3> DEFINE b == OrElse(env.vif_h[p].cfg_t, default)
    <3>1. r = Resolved(proto, env.vif_h[p].vif, b)
      BY <1>6, <2>5 DEF resolve_vif
    <3>2. /\ env.vif_h[p].vif # NoVif
          /\ env.vif_h[p].vif.proto = proto /\ env.vif_h[p].vif.port = p
          /\ env.vif_h[p].cfg_t \in Nat
      <4>1. NoHolder.proto = "NONE" BY DEF NoHolder
      <4>2. env.vif_h[p] # NoHolder BY <1>2, <2>5, <4>1 DEF Proto
      <4> QED BY <2>2, <2>3, <4>2 DEF HolderOK
    <3>3. env.vif_h[p].vif \in SuppliedTo(p)
      BY <1>1, <2>1, <3>2, SuppliedIs
    <3>4. b \in Nat \ {0} BY <1>3, <3>2
    <3> HIDE DEF r, b
    <3>5. /\ r.ok = TRUE /\ r.fe.proto = proto
          /\ r.fe.vif = env.vif_h[p].vif /\ r.fe.bytes = b
      BY <3>1 DEF Resolved
    <3>6. ResolvedFor(r, p, proto)
      BY <1>6, <3>2, <3>3, <3>4, <3>5 DEF ResolvedFor
    <3> QED BY <3>6 DEF r
  <2> QED BY <2>4, <2>5
<1>7. CASE ~env.published /\ At(list, p, NoVif) # NoVif
  <2> DEFINE v == At(list, p, NoVif)
             b == OrElse(At(cfg_ts, p, 0), default)
  <2>1. v = list[p] BY <1>1, <1>7, AtSeq
  <2>2. r = Resolved(proto, v, b) BY <1>7, <2>1 DEF resolve_vif
  <2>3. v \in SuppliedTo(p)
    BY <1>1, <1>7, SuppliedIs
  <2>4. b \in Nat \ {0} BY <1>3, <1>4
  <2>5. v.proto = proto /\ v.port = p BY <1>7 DEF BusFor
  <2>8. v = Listed(proto, p) OBVIOUS
  <2> HIDE DEF r, b, v
  <2>6. r.ok = TRUE /\ r.fe.proto = proto /\ r.fe.vif = v /\ r.fe.bytes = b
    BY <2>2 DEF Resolved
  <2>7. ResolvedFor(r, p, proto)
    BY <1>7, <2>8, <2>3, <2>4, <2>5, <2>6 DEF ResolvedFor
  <2> QED BY <2>7 DEF r
<1>8. CASE ~env.published /\ At(list, p, NoVif) = NoVif /\ p \in db.key
  <2> DEFINE v == Bus(proto, "key", p)
             b == OrElse(At(cfg_ts, p, 0), default)
  <2>1. r = Resolved(proto, v, b) BY <1>8 DEF resolve_vif
  <2>2. v # NoVif /\ v.proto = proto /\ v.port = p BY <1>2, BusIs
  <2>3. v \in SuppliedTo(p) BY <1>1, <1>8, <2>2, SuppliedIs
  <2>4. b \in Nat \ {0} BY <1>3, <1>4
  <2> HIDE DEF r, b, v
  <2>5. r.ok = TRUE /\ r.fe.proto = proto /\ r.fe.vif = v /\ r.fe.bytes = b
    BY <2>1 DEF Resolved
  <2>6. ResolvedFor(r, p, proto)
    BY <1>8, <2>2, <2>3, <2>4, <2>5 DEF ResolvedFor
  <2> QED BY <2>6 DEF r
<1>9. CASE ~env.published /\ At(list, p, NoVif) = NoVif /\ p \notin db.key
  <2>1. r = Refused BY <1>9 DEF resolve_vif
  <2>2. ASSUME NEW v \in SuppliedTo(p) PROVE v.proto # proto
    <3>1. p \notin 1 .. Len(env.ports)
      <4>1. env = NoEnv BY <1>9 DEF Handed, OneWay
      <4>2. env.ports = <<>> BY <4>1 DEF NoEnv
      <4> QED BY <4>2
    <3>2. axi4_vifs \in {list, others} /\ chi_vifs \in {list, others}
      OBVIOUS
    <3>3. v \in {NoVif, At(axi4_vifs, p, NoVif), At(chi_vifs, p, NoVif)}
          /\ v # NoVif
      BY <1>1, <1>9, <3>1, SuppliedIs
    <3>4. v = At(others, p, NoVif) BY <1>9, <3>2, <3>3
    <3> QED BY <3>3, <3>4 DEF BusFor
  <2> QED BY <1>5, <1>9, <2>1, <2>2 DEF ResolvedFor
<1> QED BY <1>6, <1>7, <1>8, <1>9 DEF Handed, EnvOK

LEMMA FrontendHolds ==
  ASSUME Handed, path = "env" => env.published, NEW p \in 1 .. n_ports
  PROVE  ResolvedFor(frontend(p), p, ProtoOf(port_cfgs, p))
<1> DEFINE proto == ProtoOf(port_cfgs, p)
<1>1. p \in Nat \ {0} /\ n_ports \in Nat BY PortsHold
<1>2. /\ BusFor(At(axi4_vifs, p, NoVif), "AXI4", p)
      /\ BusFor(At(chi_vifs, p, NoVif), "CHI", p)
      /\ axi4_vifs \in Seq([proto : Proto \cup {"NONE"},
                       given : {"none", "list", "single", "key", "holder"},
                       port : Nat])
      /\ chi_vifs \in Seq([proto : Proto \cup {"NONE"},
                       given : {"none", "list", "single", "key", "holder"},
                       port : Nat])
  BY <1>1, ListsHold DEF ListOf
<1>3. CASE proto = "AXI4"
  <2>1. frontend(p) = resolve_vif(p, "AXI4", axi4_vifs, db.axi4_cfg_ts,
                                  default_axi4_bytes)
    BY <1>3 DEF frontend, resolve_axi4_vif
  <2>2. db.axi4_cfg_ts \in Seq(Nat) BY DEF Handed, DbOK
  <2>3. default_axi4_bytes \in Nat \ {0}
    BY BuildAssumption DEF default_axi4_bytes
  <2>4. "CHI" # "AXI4" OBVIOUS
  <2>5. ResolvedFor(resolve_vif(p, "AXI4", axi4_vifs, db.axi4_cfg_ts,
                                default_axi4_bytes), p, "AXI4")
    <3>1. At(axi4_vifs, p, NoVif) = Listed("AXI4", p) BY DEF Listed
    <3> QED BY <1>2, <1>3, <2>2, <2>3, <2>4, <3>1, ResolveHolds
  <2> QED BY <1>3, <2>1, <2>5
<1>4. CASE proto # "AXI4"
  <2>1. proto = "CHI" BY <1>1, <1>4, ProtoHolds DEF Proto
  <2>2. frontend(p) = resolve_vif(p, "CHI", chi_vifs, db.chi_cfg_ts,
                                  port_cfgs[p].bytes)
    BY <1>4 DEF frontend, resolve_chi_vif
  <2>3. port_cfgs[p].bytes \in Nat \ {0}
    BY <1>1, <1>4, ProtoHolds
  <2>4. db.chi_cfg_ts \in Seq(Nat) BY DEF Handed, DbOK
  <2>5. ResolvedFor(resolve_vif(p, "CHI", chi_vifs, db.chi_cfg_ts,
                                port_cfgs[p].bytes), p, "CHI")
    <3>1. {chi_vifs, axi4_vifs} = {axi4_vifs, chi_vifs} OBVIOUS
    <3>2. At(chi_vifs, p, NoVif) = Listed("CHI", p) BY DEF Listed
    <3> QED BY <1>2, <2>1, <2>3, <2>4, <3>1, <3>2, ResolveHolds
  <2> QED BY <2>1, <2>2, <2>5
<1> QED BY <1>3, <1>4

(* The mistakes that a refused frontend, and a refused width, point at.    *)
LEMMA UnresolvedMistake ==
  ASSUME Handed, path = "env" => env.published,
         NEW p \in 1 .. n_ports, ~frontend(p).ok
  PROVE  Mistake
<1>1. ResolvedFor(frontend(p), p, ProtoOf(port_cfgs, p)) BY FrontendHolds
<1>2. CASE env.published
  <2>1. path = "env"
    <3>1. env # NoEnv BY <1>2 DEF NoEnv
    <3> QED BY <3>1 DEF Handed, OneWay
  <2>2. env.vif_h[p] = NoHolder BY <1>1, <1>2 DEF ResolvedFor
  <2>3. p \in DOMAIN env.vif_h BY <1>2, PortsHold DEF Handed, EnvOK
  <2>4. NoHolder \in Range(env.vif_h) BY <2>2, <2>3 DEF Range
  <2> QED BY <2>1, <2>4 DEF Mistake
<1>3. CASE ~env.published
  <2>1. \A v \in SuppliedTo(p) : v.proto # ProtoOf(port_cfgs, p)
    BY <1>1, <1>3 DEF ResolvedFor
  <2> QED BY <2>1 DEF Mistake
<1> QED BY <1>2, <1>3

LEMMA WidthMistake ==
  ASSUME Handed, Settled, NEW p \in 1 .. n_ports,
         ~(IF mc.fes[p].proto = "AXI4" THEN axi4_build_phase(mc.fes[p])
                                       ELSE chi_build_phase(mc.fes[p]))
  PROVE  Mistake
<1> DEFINE fe == frontend(p).fe
<1>1. ResolvedFor(frontend(p), p, ProtoOf(port_cfgs, p)) /\ frontend(p).ok
  BY FrontendHolds DEF Settled
<1>2. mc.fes[p] = fe BY DEF Settled
<1>3. /\ fe.proto = ProtoOf(port_cfgs, p) /\ fe.bytes \in Nat \ {0}
      /\ fe.vif.proto = fe.proto
  BY <1>1 DEF ResolvedFor
<1>4. ProtoOf(port_cfgs, p) \in Proto
  <2>1. p \in Nat \ {0} BY PortsHold
  <2> QED BY <2>1, ProtoHolds
<1>5. fe.vif # NoVif
  <2>1. NoVif.proto = "NONE" BY DEF NoVif
  <2> QED BY <1>3, <1>4, <2>1 DEF Proto
<1> HIDE DEF fe
<1>6. OrElse(fe.bytes, RowBytes) = fe.bytes BY <1>3 DEF OrElse
<1>7. RowBytes % fe.bytes = 0 => Divides(fe.bytes)
  <2>1. RowBytes \in Nat \ {0} BY BuildAssumption
  <2>2. fe.bytes > RowBytes => RowBytes % fe.bytes = RowBytes
    BY <1>3, <2>1
  <2> QED BY <1>3, <2>1, <2>2 DEF Divides
<1>8. RowBytes % fe.bytes # 0 \/ (fe.proto = "CHI" /\ fe.bytes # BusBytes)
  BY <1>2, <1>3, <1>4, <1>5, <1>6, <1>7
     DEF axi4_build_phase, chi_build_phase, Proto
<1>9. \/ RowBytes % frontend(p).fe.bytes # 0
      \/ ProtoOf(port_cfgs, p) = "CHI" /\ frontend(p).fe.bytes # BusBytes
  BY <1>3, <1>8 DEF fe
<1> QED BY <1>9 DEF Mistake

(***************************************************************************)
(* The steps                                                               *)
(***************************************************************************)

(* What the build makes of the keys and holders changes only with them.    *)
LEMMA SameInputs ==
  ASSUME UNCHANGED <<path, db, env>>
  PROVE  /\ Handed <=> Handed'
         /\ n_ports' = n_ports /\ port_cfgs' = port_cfgs /\ Slots' = Slots
         /\ \A p : frontend(p)' = frontend(p)
         /\ Mistake <=> Mistake'
<1>1. Handed <=> Handed'
  BY DEF Handed, DbOK, EnvOK, OneWay, ListOf, HolderOK
<1>2. axi4_vifs' = axi4_vifs /\ chi_vifs' = chi_vifs
      /\ port_cfgs' = port_cfgs
  BY DEF axi4_vifs, chi_vifs, port_cfgs
<1>3. n_ports' = n_ports BY <1>2 DEF n_ports
<1>4. \A p : frontend(p)' = frontend(p)
  BY <1>2 DEF frontend, resolve_axi4_vif, resolve_chi_vif, resolve_vif,
              default_axi4_bytes
<1>5. \A p : SuppliedTo(p)' = SuppliedTo(p)
  BY <1>2 DEF SuppliedTo
<1>6. Mistake <=> Mistake' BY <1>2, <1>3, <1>4, <1>5 DEF Mistake
<1> QED BY <1>1, <1>2, <1>3, <1>4, <1>6 DEF Slots

LEMMA NewEnvKeeps == ASSUME BuildInv, new_env_cfg PROVE BuildInv'
<1>1. phase = "test" /\ path = "env" /\ UNCHANGED <<path, db, phase>>
  BY DEF new_env_cfg, BuildInv, PhaseOK
<1>2. PICK table \in UpTo(PortTable, MaxPorts) \ {<<>>},
           d \in {"none"} \cup Maps :
        env' = [ports |-> table, vif_h |-> [p \in DOMAIN table |-> NoHolder],
                dram |-> d, published |-> FALSE]
  BY DEF new_env_cfg
<1>3. PICK k \in Nat : table \in [1 .. k -> PortTable]
  BY BuildAssumption DEF UpTo
<1>4. table \in [1 .. k -> PortCfg]
  <2>1. PortTable \subseteq PortCfg
    BY BuildAssumption DEF PortTable, PortCfg
  <2> QED BY <1>3, <2>1
<1>5. table \in Seq(PortCfg) /\ Len(table) = k /\ DOMAIN table = 1 .. k
  BY <1>4, LenIs
<1>6. /\ env'.ports = table /\ env'.published = FALSE
      /\ env'.vif_h = [p \in 1 .. k |-> NoHolder]
  BY <1>2, <1>5
<1>7. EnvOK'
  <2>1. env' = [ports |-> env'.ports, vif_h |-> env'.vif_h,
                dram |-> env'.dram, published |-> env'.published]
    BY <1>2
  <2> QED BY <1>5, <1>6, <2>1 DEF EnvOK, HolderOK
<1>8. Handed'
  BY <1>1, <1>7 DEF BuildInv, Handed, DbOK, ListOf, OneWay
<1>9. PhaseOK' /\ RefusedForCause'
  BY <1>1, <1>6 DEF PhaseOK, RefusedForCause
<1> QED BY <1>8, <1>9 DEF BuildInv

LEMMA RegisterKeeps == ASSUME BuildInv, register_vif PROVE BuildInv'
<1>1. /\ phase = "test" /\ path = "env" /\ ~env.published
      /\ UNCHANGED <<path, db>>
  BY DEF register_vif, BuildInv, PhaseOK
<1>2. PICK p \in DOMAIN env.ports, proto \in Proto,
           cfg_t \in {0} \cup CfgBytes :
        /\ env.vif_h[p] = NoHolder
        /\ IF proto # env.ports[p].proto
           THEN phase' = "failed" /\ UNCHANGED env
           ELSE /\ env' = [env EXCEPT !.vif_h[p] =
                             [proto |-> proto, vif |-> Bus(proto, "holder", p),
                              cfg_t |-> cfg_t]]
                /\ UNCHANGED phase
  BY DEF register_vif
<1>3. CASE proto # env.ports[p].proto
  <2>1. phase' = "failed" /\ UNCHANGED <<path, db, env>> BY <1>1, <1>2, <1>3
  <2>2. Handed' BY <2>1, SameInputs DEF BuildInv
  <2>3. PhaseOK' /\ RefusedForCause'
    BY <1>1, <2>1 DEF PhaseOK, RefusedForCause
  <2> QED BY <2>2, <2>3 DEF BuildInv
<1>4. CASE proto = env.ports[p].proto
  <2> DEFINE h == [proto |-> proto, vif |-> Bus(proto, "holder", p),
                   cfg_t |-> cfg_t]
             n == Len(env.ports)
  <2>1. env' = [env EXCEPT !.vif_h[p] = h] /\ phase' = phase
    BY <1>2, <1>4
  <2>2. /\ n \in Nat /\ DOMAIN env.ports = 1 .. n
        /\ env.vif_h = [q \in 1 .. n |-> env.vif_h[q]]
        /\ env = [ports |-> env.ports, vif_h |-> env.vif_h,
                  dram |-> env.dram, published |-> env.published]
        /\ \A q \in 1 .. n : HolderOK(env.vif_h[q], q, env.ports[q].proto)
        /\ env.ports \in Seq(PortCfg) /\ env.published \in BOOLEAN
    BY DEF BuildInv, Handed, EnvOK
  <2>3. HolderOK(h, p, env.ports[p].proto)
    <3>1. cfg_t \in Nat BY BuildAssumption
    <3>2. /\ Bus(proto, "holder", p) # NoVif
          /\ Bus(proto, "holder", p).proto = proto
          /\ Bus(proto, "holder", p).port = p
      BY BusIs
    <3> QED BY <1>4, <3>1, <3>2 DEF HolderOK
  <2> HIDE DEF h, n
  <2>4. /\ env'.ports = env.ports /\ env'.published = env.published
        /\ env'.vif_h = [env.vif_h EXCEPT ![p] = h]
        /\ env' = [ports |-> env'.ports, vif_h |-> env'.vif_h,
                   dram |-> env'.dram, published |-> env'.published]
    BY <2>1, <2>2
  <2>5. /\ env'.vif_h = [q \in 1 .. n |-> env'.vif_h[q]]
        /\ DOMAIN env'.vif_h = 1 .. n
        /\ \A q \in 1 .. n : env'.vif_h[q] = IF q = p THEN h ELSE env.vif_h[q]
    BY <2>2, <2>4
  <2>6. Len(env'.ports) = n BY <2>4 DEF n
  <2>7. \A q \in 1 .. n : HolderOK(env'.vif_h[q], q, env'.ports[q].proto)
    BY <2>2, <2>3, <2>4, <2>5
  <2>8. EnvOK'
    <3>1. env'.published \in BOOLEAN BY <2>2, <2>4
    <3>2. env'.ports \in Seq(PortCfg) BY <2>2, <2>4
    <3> QED BY <2>4, <2>5, <2>6, <2>7, <3>1, <3>2 DEF EnvOK
  <2>9. Handed'
    BY <1>1, <2>8 DEF BuildInv, Handed, DbOK, ListOf, OneWay
  <2>10. PhaseOK' /\ RefusedForCause'
    BY <1>1, <2>1, <2>4 DEF PhaseOK, RefusedForCause
  <2> QED BY <2>9, <2>10 DEF BuildInv
<1> QED BY <1>3, <1>4

(* A refused apply leaves nothing published.                               *)
LEMMA PublishKeeps ==
  ASSUME BuildInv, apply \/ Publish
  PROVE  BuildInv'
<1>1. /\ phase = "test" /\ path = "env" /\ UNCHANGED <<path, db>>
      /\ \E b \in BOOLEAN : /\ env' = [env EXCEPT !.published = b]
                            /\ phase' = IF b THEN "build" ELSE "failed"
  <2>1. CASE apply
    <3>1. EnvValid \in BOOLEAN BY DEF EnvValid
    <3> QED BY <2>1, <3>1 DEF apply, BuildInv, PhaseOK
  <2>2. CASE Publish BY <2>2 DEF Publish, BuildInv, PhaseOK
  <2> QED BY <2>1, <2>2
<1>2. PICK b \in BOOLEAN : /\ env' = [env EXCEPT !.published = b]
                           /\ phase' = IF b THEN "build" ELSE "failed"
  BY <1>1
<1>3. /\ env'.ports = env.ports /\ env'.vif_h = env.vif_h
      /\ env'.published = b
      /\ env' = [ports |-> env'.ports, vif_h |-> env'.vif_h,
                 dram |-> env'.dram, published |-> env'.published]
  <2>1. env = [ports |-> env.ports, vif_h |-> env.vif_h, dram |-> env.dram,
               published |-> env.published]
    BY DEF BuildInv, Handed, EnvOK
  <2> QED BY <1>2, <2>1
<1>4. EnvOK' BY <1>3 DEF BuildInv, Handed, EnvOK, HolderOK
<1>5. Handed'
  BY <1>1, <1>4 DEF BuildInv, Handed, DbOK, ListOf, OneWay
<1>6. PhaseOK' /\ RefusedForCause'
  BY <1>1, <1>2, <1>3 DEF PhaseOK, RefusedForCause
<1> QED BY <1>5, <1>6 DEF BuildInv

LEMMA BuildPhaseKeeps == ASSUME BuildInv, build_phase PROVE BuildInv'
<1>1. /\ phase = "build" /\ UNCHANGED <<path, db, env>>
      /\ mc' = [n_ports |-> n_ports, port_cfgs |-> port_cfgs,
                fes |-> [p \in 1 .. n_ports |-> frontend(p).fe],
                device_map |-> IF dram = "none" THEN map ELSE dram]
      /\ phase' = IF \A p \in 1 .. n_ports : frontend(p).ok THEN "drivers"
                  ELSE "failed"
  BY DEF build_phase
<1>2. Handed /\ (path = "env" => env.published)
  BY <1>1 DEF BuildInv, PhaseOK
<1>3. /\ Handed' /\ n_ports' = n_ports /\ port_cfgs' = port_cfgs
      /\ \A p : frontend(p)' = frontend(p)
      /\ Mistake => Mistake'
  BY <1>1, <1>2, SameInputs
<1>4. CASE \A p \in 1 .. n_ports : frontend(p).ok
  <2>1. phase' = "drivers" BY <1>1, <1>4
  <2>2. mc'.n_ports = n_ports /\ mc'.port_cfgs = port_cfgs
        /\ mc'.fes = [p \in 1 .. n_ports |-> frontend(p).fe]
    BY <1>1
  <2>3. Settled' BY <1>1, <1>2, <1>3, <1>4, <2>2 DEF Settled
  <2> QED BY <1>3, <2>1, <2>3 DEF BuildInv, PhaseOK, RefusedForCause
<1>5. CASE ~(\A p \in 1 .. n_ports : frontend(p).ok)
  <2>1. phase' = "failed" BY <1>1, <1>5
  <2>2. Mistake BY <1>2, <1>5, UnresolvedMistake
  <2> QED BY <1>3, <2>1, <2>2 DEF BuildInv, PhaseOK, RefusedForCause
<1> QED BY <1>4, <1>5

LEMMA ChildrenKeep == ASSUME BuildInv, BuildChildren PROVE BuildInv'
<1> DEFINE Builds(fe) == IF fe.proto = "AXI4" THEN axi4_build_phase(fe)
                                              ELSE chi_build_phase(fe)
<1>1. /\ phase = "drivers" /\ UNCHANGED <<path, db, env, mc>>
      /\ phase' = IF \A p \in DOMAIN mc.fes : Builds(mc.fes[p])
                  THEN "connect" ELSE "failed"
      /\ backend' = [p \in 1 .. OrElse(db.n_ports, mc.n_ports) |-> NoFe]
  BY DEF BuildChildren
<1>2. Handed /\ Settled BY <1>1 DEF BuildInv, PhaseOK
<1>3. /\ Handed' /\ n_ports' = n_ports /\ port_cfgs' = port_cfgs
      /\ Slots' = Slots /\ \A p : frontend(p)' = frontend(p)
      /\ Mistake => Mistake'
  BY <1>1, <1>2, SameInputs
<1>4. DOMAIN mc.fes = 1 .. n_ports BY <1>2 DEF Settled
<1>5. CASE \A p \in DOMAIN mc.fes : Builds(mc.fes[p])
  <2>1. phase' = "connect" BY <1>1, <1>5
  <2>2. Settled' BY <1>1, <1>2, <1>3 DEF Settled
  <2>3. (backend = [p \in 1 .. Slots |-> NoFe])'
    BY <1>1, <1>2, <1>3 DEF Settled, Slots
  <2> QED BY <1>3, <2>1, <2>2, <2>3 DEF BuildInv, PhaseOK, RefusedForCause
<1>6. CASE ~(\A p \in DOMAIN mc.fes : Builds(mc.fes[p]))
  <2>1. phase' = "failed" BY <1>1, <1>6
  <2>2. Mistake BY <1>2, <1>4, <1>6, WidthMistake
  <2> QED BY <1>3, <2>1, <2>2 DEF BuildInv, PhaseOK, RefusedForCause
<1> QED BY <1>5, <1>6

LEMMA ConnectKeeps == ASSUME BuildInv, connect_phase PROVE BuildInv'
<1>1. /\ phase = "connect" /\ UNCHANGED <<path, db, env, mc>>
      /\ backend' = [p \in DOMAIN backend |-> At(mc.fes, p, NoFe)]
      /\ phase' = IF Len(mc.fes) <= Len(backend) THEN "up" ELSE "failed"
  BY DEF connect_phase
<1>2. Handed /\ Settled /\ backend = [p \in 1 .. Slots |-> NoFe]
  BY <1>1 DEF BuildInv, PhaseOK
<1>3. /\ Handed' /\ n_ports' = n_ports /\ port_cfgs' = port_cfgs
      /\ Slots' = Slots /\ \A p : frontend(p)' = frontend(p)
      /\ Mistake => Mistake'
  BY <1>1, <1>2, SameInputs
<1>4. n_ports \in Nat /\ Slots \in Nat
  <2>1. db.n_ports \in Nat BY <1>2 DEF Handed, DbOK
  <2>2. n_ports \in Nat BY <1>2, PortsHold
  <2> QED BY <2>1, <2>2 DEF Slots, OrElse
<1>5. Len(mc.fes) = n_ports /\ Len(backend) = Slots
  <2>1. mc.fes \in [1 .. n_ports -> {frontend(p).fe : p \in 1 .. n_ports}]
    BY <1>2 DEF Settled
  <2>2. backend \in [1 .. Slots -> {NoFe}] BY <1>2
  <2> QED BY <1>4, <2>1, <2>2, LenIs
<1>6. CASE n_ports <= Slots
  <2>1. phase' = "up" BY <1>1, <1>5, <1>6
  <2>2. Settled' BY <1>1, <1>2, <1>3 DEF Settled
  <2>3. backend' = [p \in 1 .. Slots |-> At(mc.fes, p, NoFe)]
    BY <1>1, <1>2
  <2>4. backend' = [p \in 1 .. Slots' |-> At(mc'.fes, p, NoFe)]
    BY <1>1, <1>3, <2>3
  <2> QED BY <1>3, <1>6, <2>1, <2>2, <2>4
          DEF BuildInv, PhaseOK, RefusedForCause
<1>7. CASE ~(n_ports <= Slots)
  <2>1. phase' = "failed" BY <1>1, <1>5, <1>7
  <2>2. Mistake
    <3>1. db.n_ports # 0 /\ db.n_ports < n_ports
      <4>1. db.n_ports \in Nat BY <1>2 DEF Handed, DbOK
      <4> QED BY <1>4, <1>7, <4>1 DEF Slots, OrElse
    <3> QED BY <3>1 DEF Mistake
  <2> QED BY <1>3, <2>1, <2>2 DEF BuildInv, PhaseOK, RefusedForCause
<1> QED BY <1>6, <1>7

LEMMA StutterKeeps == ASSUME BuildInv, UNCHANGED vars PROVE BuildInv'
<1>1. UNCHANGED <<path, db, env, map, mc, backend, phase>> BY DEF vars
<1>2. /\ Handed' /\ n_ports' = n_ports /\ port_cfgs' = port_cfgs
      /\ Slots' = Slots /\ \A p : frontend(p)' = frontend(p)
      /\ Mistake => Mistake'
  BY <1>1, SameInputs DEF BuildInv
<1>3. Settled => Settled' BY <1>1, <1>2 DEF Settled
<1>4. PhaseOK' BY <1>1, <1>2, <1>3 DEF BuildInv, PhaseOK
<1>5. RefusedForCause' BY <1>1, <1>2 DEF BuildInv, RefusedForCause
<1> QED BY <1>2, <1>4, <1>5 DEF BuildInv

LEMMA BuildStep ==
  ASSUME BuildInv, [AnyNext]_<<vars, job, knobVars>>
  PROVE  BuildInv'
<1>1. UNCHANGED vars \/ Next BY DEF AnyNext
<1> QED BY <1>1, StutterKeeps, NewEnvKeeps, RegisterKeeps, PublishKeeps,
           BuildPhaseKeeps, ChildrenKeep, ConnectKeeps DEF Next

LEMMA DatabaseOK == ASSUME db \in Databases PROVE DbOK
<1> DEFINE ListFrom(proto, s) ==
      [p \in DOMAIN s |-> IF s[p] THEN Bus(proto, "list", p) ELSE NoVif]
<1>2. /\ db.axi4_vifs \in BusLists("AXI4") /\ db.chi_vifs \in BusLists("CHI")
      /\ db.vif \in {NoVif, Bus("AXI4", "single", 1)}
      /\ db.chi_vif \in {NoVif, Bus("CHI", "single", 1)}
      /\ db.axi4_cfg_ts \in UpTo({0} \cup CfgBytes, MaxPorts)
      /\ db.chi_cfg_ts \in UpTo({0} \cup CfgBytes, MaxPorts)
      /\ db.ports \in UpTo(PortTable, MaxPorts)
      /\ db.n_ports \in 0 .. MaxPorts
  BY DatabaseAssumption DEF AnyDatabase
<1>3. ASSUME NEW proto \in Proto, NEW s \in UpTo(BOOLEAN, MaxPorts)
      PROVE  ListOf(ListFrom(proto, s), proto)
  <2>1. PICK j \in Nat : s \in [1 .. j -> BOOLEAN]
    BY <1>3, BuildAssumption DEF UpTo
  <2> DEFINE V == [proto : Proto \cup {"NONE"},
                   given : {"none", "list", "single", "key", "holder"},
                   port : Nat]
             list == ListFrom(proto, s)
  <2>2. \A p \in 1 .. j : /\ Bus(proto, "list", p) \in V
                          /\ Bus(proto, "list", p).proto = proto
                          /\ Bus(proto, "list", p).port = p
    BY DEF Bus
  <2>3. NoVif \in V BY DEF NoVif
  <2>4. DOMAIN s = 1 .. j BY <2>1
  <2>5. \A p \in 1 .. j : list[p] \in {Bus(proto, "list", p), NoVif}
    BY <2>4
  <2>6. list \in [1 .. j -> V]
    <3> HIDE DEF V
    <3> QED BY <2>2, <2>3, <2>4
  <2>7. DOMAIN list = 1 .. j BY <2>4
  <2> HIDE DEF list
  <2>8. list \in Seq(V)
    <3> HIDE DEF V
    <3> QED BY <2>6, LenIs
  <2>9. ListOf(list, proto) BY <2>2, <2>5, <2>7, <2>8 DEF ListOf
  <2> QED BY <2>9 DEF list
<1>4. ListOf(db.axi4_vifs, "AXI4") /\ ListOf(db.chi_vifs, "CHI")
  <2>1. ASSUME NEW proto \in Proto, NEW l \in BusLists(proto)
        PROVE  ListOf(l, proto)
    <3>1. PICK s \in UpTo(BOOLEAN, MaxPorts) : l = ListFrom(proto, s)
      BY DEF BusLists
    <3> QED BY <1>3, <3>1
  <2> QED BY <1>2, <2>1 DEF Proto
<1>5. db.axi4_cfg_ts \in Seq(Nat) /\ db.chi_cfg_ts \in Seq(Nat)
  <2>1. ASSUME NEW l \in UpTo({0} \cup CfgBytes, MaxPorts)
        PROVE  l \in Seq(Nat)
    <3>1. PICK j \in 0 .. MaxPorts : l \in [1 .. j -> {0} \cup CfgBytes]
      BY DEF UpTo
    <3>2. l \in [1 .. j -> Nat] BY <3>1, BuildAssumption
    <3>3. j \in Nat BY BuildAssumption
    <3> QED BY <3>2, <3>3, LenIs
  <2> QED BY <1>2, <2>1
<1>6. db.ports \in Seq(PortCfg)
  <2>1. PICK j \in 0 .. MaxPorts : db.ports \in [1 .. j -> PortTable]
    BY <1>2 DEF UpTo
  <2>2. PortTable \subseteq PortCfg
    BY BuildAssumption DEF PortTable, PortCfg
  <2>3. db.ports \in [1 .. j -> PortCfg] BY <2>1, <2>2
  <2>4. j \in Nat BY BuildAssumption
  <2> QED BY <2>3, <2>4, LenIs
<1>7. db.n_ports \in Nat BY <1>2, BuildAssumption
<1> QED BY <1>2, <1>4, <1>5, <1>6, <1>7 DEF DbOK

LEMMA BuildInit == ASSUME Init PROVE BuildInv
<1>1. /\ path \in Paths /\ env = NoEnv
      /\ phase = IF path = "db" THEN "build" ELSE "test"
      /\ IF path = "db" THEN db \in Databases
         ELSE \E n \in 0 .. MaxPorts : db = [EmptyDb EXCEPT !.n_ports = n]
  BY DEF Init
<1>2. path \in {"env", "db"} BY <1>1, BuildAssumption
<1>3. /\ env.ports = <<>> /\ env.vif_h = <<>> /\ env.published = FALSE
      /\ env = [ports |-> env.ports, vif_h |-> env.vif_h,
                dram |-> env.dram, published |-> env.published]
  BY <1>1 DEF NoEnv
<1>4. EnvOK
  <2>1. Len(<<>>) = 0 /\ <<>> \in Seq(PortCfg) /\ DOMAIN <<>> = {} OBVIOUS
  <2>2. <<>> = [p \in 1 .. 0 |-> env.vif_h[p]] OBVIOUS
  <2>3. 1 .. Len(env.ports) = {} BY <1>3, <2>1
  <2>4. env.vif_h = [p \in 1 .. Len(env.ports) |-> env.vif_h[p]]
    BY <1>3, <2>1, <2>2, <2>3
  <2> QED BY <1>3, <2>1, <2>3, <2>4 DEF EnvOK
<1>5. DbOK /\ (path = "env" => db = [EmptyDb EXCEPT !.n_ports = db.n_ports])
  <2>1. CASE path = "db" BY <1>1, <2>1, DatabaseOK
  <2>2. CASE path = "env"
    <3>1. PICK n \in 0 .. MaxPorts : db = [EmptyDb EXCEPT !.n_ports = n]
      BY <1>1, <2>2
    <3>2. n \in Nat BY BuildAssumption
    <3>3. /\ db.n_ports = n /\ db.axi4_vifs = <<>> /\ db.chi_vifs = <<>>
          /\ db.vif = NoVif /\ db.chi_vif = NoVif /\ db.axi4_cfg_ts = <<>>
          /\ db.chi_cfg_ts = <<>> /\ db.ports = <<>>
      BY <3>1 DEF EmptyDb
    <3>4. DbOK BY <3>2, <3>3 DEF DbOK, ListOf
    <3> QED BY <3>1, <3>3, <3>4
  <2> QED BY <1>2, <2>1, <2>2
<1>6. Handed BY <1>1, <1>2, <1>4, <1>5 DEF Handed, OneWay
<1>7. PhaseOK /\ RefusedForCause
  BY <1>1, <1>2, <1>3 DEF PhaseOK, RefusedForCause
<1> QED BY <1>6, <1>7 DEF BuildInv

LEMMA BuildConnects == ASSUME BuildInv PROVE ConnectionExact
<1>1. OwnInterface
  <2> SUFFICES ASSUME phase = "up" PROVE OwnInterface BY DEF OwnInterface
  <2>1. /\ Handed /\ Settled /\ n_ports <= Slots
        /\ backend = [p \in 1 .. Slots |-> At(mc.fes, p, NoFe)]
    BY DEF BuildInv, PhaseOK
  <2>2. n_ports \in Nat /\ Slots \in Nat
    <3>1. db.n_ports \in Nat BY <2>1 DEF Handed, DbOK
    <3>2. n_ports \in Nat BY <2>1, PortsHold
    <3> QED BY <3>1, <3>2 DEF Slots, OrElse
  <2>3. DOMAIN mc.fes = 1 .. n_ports BY <2>1 DEF Settled
  <2>4. ASSUME NEW p \in 1 .. n_ports
        PROVE  /\ mc.fes[p].proto = ProtoOf(mc.port_cfgs, p)
               /\ mc.fes[p].vif.proto = mc.fes[p].proto
               /\ mc.fes[p].vif \in SuppliedTo(p)
               /\ mc.fes[p].vif.port = p
               /\ backend[p] = mc.fes[p]
    <3>1. ResolvedFor(frontend(p), p, ProtoOf(port_cfgs, p))
          /\ frontend(p).ok /\ mc.fes[p] = frontend(p).fe
          /\ mc.port_cfgs = port_cfgs
      BY <2>1, FrontendHolds DEF Settled
    <3>2. backend[p] = mc.fes[p]
      <4>1. Len(mc.fes) = n_ports
        <5>1. mc.fes \in [1 .. n_ports ->
                           {frontend(q).fe : q \in 1 .. n_ports}]
          BY <2>1 DEF Settled
        <5> QED BY <2>2, <5>1, LenIs
      <4>2. At(mc.fes, p, NoFe) = mc.fes[p] BY <2>2, <4>1 DEF At
      <4>3. p \in 1 .. Slots BY <2>1, <2>2
      <4> QED BY <2>1, <4>2, <4>3
    <3> QED BY <3>1, <3>2 DEF ResolvedFor
  <2> QED BY <2>3, <2>4 DEF OwnInterface
<1>2. RegisteredServed
  <2> SUFFICES ASSUME phase = "up", path = "env", NEW p \in DOMAIN env.vif_h
               PROVE  \E fe \in Fes : fe.vif = env.vif_h[p].vif
    BY DEF RegisteredServed
  <2>1. Handed /\ Settled /\ env.published
    BY DEF BuildInv, PhaseOK, Settled
  <2>2. p \in 1 .. n_ports BY <2>1, PortsHold DEF Handed, EnvOK
  <2>3. ResolvedFor(frontend(p), p, ProtoOf(port_cfgs, p))
        /\ frontend(p).ok /\ mc.fes[p] = frontend(p).fe
        /\ DOMAIN mc.fes = 1 .. n_ports
    BY <2>1, <2>2, FrontendHolds DEF Settled
  <2>4. mc.fes[p] \in Fes BY <2>2, <2>3 DEF Fes, Range
  <2> QED BY <2>1, <2>3, <2>4 DEF ResolvedFor
<1>3. ListedServed
  <2> SUFFICES ASSUME phase = "up", path = "db", NEW p \in DOMAIN mc.fes
               PROVE  IF Listed(mc.fes[p].proto, p) # NoVif
                      THEN mc.fes[p].vif = Listed(mc.fes[p].proto, p)
                      ELSE p \in db.key
    BY DEF ListedServed, Listed
  <2>1. Handed /\ Settled BY DEF BuildInv, PhaseOK
  <2>2. p \in 1 .. n_ports BY <2>1 DEF Settled
  <2>3. ~env.published BY <2>1 DEF Handed, OneWay, NoEnv
  <2>4. ResolvedFor(frontend(p), p, ProtoOf(port_cfgs, p))
        /\ frontend(p).ok /\ mc.fes[p] = frontend(p).fe
    BY <2>1, <2>2, FrontendHolds DEF Settled
  <2> QED BY <2>3, <2>4 DEF ResolvedFor
<1> QED BY <1>1, <1>2, <1>3 DEF ConnectionExact, BuildInv

(***************************************************************************)
(* A controller that comes up drives, on each port, an interface that was  *)
(* handed over for that port, of the protocol its table names, and         *)
(* answers it under that port; every interface registered in an            *)
(* environment is driven, and by keys the list of the port's protocol goes *)
(* before its own key; and a build that fails has a cause                  *)
(* (vip_mc._resolve_config, _build_frontends, vip_mc_env_cfg.apply), for   *)
(* any number of ports and any mix of holders, lists, keys and widths of   *)
(* either protocol.                                                        *)
(***************************************************************************)
THEOREM ConnectedExactly == AnySpec => []ConnectionExact
<1>1. AnyInit => BuildInv BY BuildInit DEF AnyInit
<1>2. BuildInv /\ [AnyNext]_<<vars, job, knobVars>> => BuildInv'
  BY BuildStep
<1>3. BuildInv => ConnectionExact BY BuildConnects
<1> QED BY <1>1, <1>2, <1>3, PTL DEF AnySpec

-----------------------------------------------------------------------------
(***************************************************************************)
(* The configuration                                                       *)
(***************************************************************************)

PortKnobs ==
  [arb_weight : Int, regions : Seq([lo : Int, hi : Int]), vif_key : Int]

(* The fields of the object, and of what they hold as much as validate()   *)
(* computes with.                                                          *)
Shape(c) ==
  c = [chi |-> c.chi, max_outstanding |-> c.max_outstanding,
       qos_class_count |-> c.qos_class_count,
       refresh_max_deferred |-> c.refresh_max_deferred, soft |-> c.soft,
       max_inflight_to_device |-> c.max_inflight_to_device,
       axi4 |-> c.axi4, ports |-> c.ports,
       addr_map_policy |-> c.addr_map_policy]

CfgOK(c) ==
  /\ Shape(c)
  /\ c.axi4 = [outstanding_limit |-> c.axi4.outstanding_limit,
               aw_pending_depth |-> c.axi4.aw_pending_depth,
               w_data_buf_depth |-> c.axi4.w_data_buf_depth,
               qos_class_map |-> c.axi4.qos_class_map,
               decerr_addr_lo |-> c.axi4.decerr_addr_lo,
               decerr_addr_hi |-> c.axi4.decerr_addr_hi]
  /\ DOMAIN c.max_outstanding = {"rd", "wr"}
  /\ c.qos_class_count \in Int /\ c.max_inflight_to_device \in Int
  /\ c.axi4.qos_class_map \in [0 .. NQos - 1 -> Int]
  /\ c.axi4.decerr_addr_lo \in Seq(Int) /\ c.axi4.decerr_addr_hi \in Seq(Int)
  /\ c.ports \in Seq(PortKnobs)

(* What validate() leaves when it returns.                                 *)
Valid(c, g) ==
  /\ Knobs!CountsLegal(c) /\ c.max_inflight_to_device >= 0
  /\ Knobs!Axi4Legal(c)
  /\ \A i \in 0 .. NQos - 1 :
       c.axi4.qos_class_map[i] \in 0 .. c.qos_class_count - 1
  /\ Knobs!PortsLegal(c) /\ Knobs!validate_addr_map(g, c.addr_map_policy)

Fit(c, g) == Len(c.ports) = NPorts /\ Knobs!RegionsFit(c, g)

KnobsInv ==
  /\ geom \in Geom /\ CfgOK(cfg)
  /\ stage \in {"open", "built", "refused"}
  /\ applied => Fit(cfg, geom)
  /\ stage = "built" => Valid(cfg, geom) /\ Len(cfg.ports) = NPorts

(* An update of one field keeps the others.                                *)
LEMMA ValueWritten ==
  ASSUME NEW c, CfgOK(c), NEW x
  PROVE  /\ CfgOK([c EXCEPT !.chi = x]) /\ CfgOK([c EXCEPT !.soft = x])
         /\ CfgOK([c EXCEPT !.refresh_max_deferred = x])
         /\ CfgOK([c EXCEPT !.addr_map_policy = x])
<1>1. Shape(c) BY DEF CfgOK
<1>2. CfgOK([c EXCEPT !.chi = x])
  <2> DEFINE d == [c EXCEPT !.chi = x]
  <2>1. /\ d.max_outstanding = c.max_outstanding /\ d.axi4 = c.axi4
        /\ d.qos_class_count = c.qos_class_count /\ d.ports = c.ports
        /\ d.max_inflight_to_device = c.max_inflight_to_device
        /\ Shape(d)
    BY <1>1 DEF Shape
  <2> HIDE DEF d
  <2>2. CfgOK(d) BY <2>1 DEF CfgOK
  <2> QED BY <2>2 DEF d
<1>3. CfgOK([c EXCEPT !.soft = x])
  <2> DEFINE d == [c EXCEPT !.soft = x]
  <2>1. /\ d.max_outstanding = c.max_outstanding /\ d.axi4 = c.axi4
        /\ d.qos_class_count = c.qos_class_count /\ d.ports = c.ports
        /\ d.max_inflight_to_device = c.max_inflight_to_device
        /\ Shape(d)
    BY <1>1 DEF Shape
  <2> HIDE DEF d
  <2>2. CfgOK(d) BY <2>1 DEF CfgOK
  <2> QED BY <2>2 DEF d
<1>4. CfgOK([c EXCEPT !.refresh_max_deferred = x])
  <2> DEFINE d == [c EXCEPT !.refresh_max_deferred = x]
  <2>1. /\ d.max_outstanding = c.max_outstanding /\ d.axi4 = c.axi4
        /\ d.qos_class_count = c.qos_class_count /\ d.ports = c.ports
        /\ d.max_inflight_to_device = c.max_inflight_to_device
        /\ Shape(d)
    BY <1>1 DEF Shape
  <2> HIDE DEF d
  <2>2. CfgOK(d) BY <2>1 DEF CfgOK
  <2> QED BY <2>2 DEF d
<1>5. CfgOK([c EXCEPT !.addr_map_policy = x])
  <2> DEFINE d == [c EXCEPT !.addr_map_policy = x]
  <2>1. /\ d.max_outstanding = c.max_outstanding /\ d.axi4 = c.axi4
        /\ d.qos_class_count = c.qos_class_count /\ d.ports = c.ports
        /\ d.max_inflight_to_device = c.max_inflight_to_device
        /\ Shape(d)
    BY <1>1 DEF Shape
  <2> HIDE DEF d
  <2>2. CfgOK(d) BY <2>1 DEF CfgOK
  <2> QED BY <2>2 DEF d
<1> QED BY <1>2, <1>3, <1>4, <1>5

LEMMA NumberWritten ==
  ASSUME NEW c, CfgOK(c), NEW n \in Int
  PROVE  /\ CfgOK([c EXCEPT !.qos_class_count = n])
         /\ CfgOK([c EXCEPT !.max_inflight_to_device = n])
<1>1. Shape(c) BY DEF CfgOK
<1>2. CfgOK([c EXCEPT !.qos_class_count = n])
  <2> DEFINE d == [c EXCEPT !.qos_class_count = n]
  <2>1. /\ d.max_outstanding = c.max_outstanding /\ d.axi4 = c.axi4
        /\ d.ports = c.ports
        /\ d.max_inflight_to_device = c.max_inflight_to_device
        /\ d.qos_class_count = n
        /\ Shape(d)
    BY <1>1 DEF Shape
  <2> HIDE DEF d
  <2>2. CfgOK(d) BY <2>1 DEF CfgOK
  <2> QED BY <2>2 DEF d
<1>3. CfgOK([c EXCEPT !.max_inflight_to_device = n])
  <2> DEFINE d == [c EXCEPT !.max_inflight_to_device = n]
  <2>1. /\ d.max_outstanding = c.max_outstanding /\ d.axi4 = c.axi4
        /\ d.qos_class_count = c.qos_class_count /\ d.ports = c.ports
        /\ d.max_inflight_to_device = n
        /\ Shape(d)
    BY <1>1 DEF Shape
  <2> HIDE DEF d
  <2>2. CfgOK(d) BY <2>1 DEF CfgOK
  <2> QED BY <2>2 DEF d
<1> QED BY <1>2, <1>3

LEMMA PortsWritten ==
  ASSUME NEW c, CfgOK(c), NEW s \in Seq(PortKnobs)
  PROVE  /\ CfgOK([c EXCEPT !.ports = s])
         /\ [c EXCEPT !.ports = s].ports = s
<1> DEFINE d == [c EXCEPT !.ports = s]
<1>1. Shape(c) BY DEF CfgOK
<1>2. /\ d.max_outstanding = c.max_outstanding /\ d.axi4 = c.axi4
      /\ d.qos_class_count = c.qos_class_count /\ d.ports = s
      /\ d.max_inflight_to_device = c.max_inflight_to_device
      /\ Shape(d)
  BY <1>1 DEF Shape
<1> HIDE DEF d
<1>3. CfgOK(d) BY <1>2 DEF CfgOK
<1> QED BY <1>2, <1>3 DEF d

LEMMA Resolves ==
  ASSUME NEW c, NEW g, CfgOK(c), g.n_banks \in Nat
  PROVE  LET r == Knobs!resolve_max_inflight(c, g)
         IN /\ CfgOK(r) /\ r.max_inflight_to_device >= 0
            /\ r.axi4 = c.axi4 /\ r.ports = c.ports
            /\ Knobs!CountsLegal(c) => Knobs!CountsLegal(r)
            /\ r.addr_map_policy = c.addr_map_policy
            /\ r.qos_class_count = c.qos_class_count
            /\ r.max_outstanding = c.max_outstanding
<1> DEFINE r == Knobs!resolve_max_inflight(c, g)
           n == IF c.max_inflight_to_device < 0
                THEN Knobs!default_max_inflight_to_device(g)
                ELSE c.max_inflight_to_device
<1>1. r = [c EXCEPT !.max_inflight_to_device = n]
  BY DEF Knobs!resolve_max_inflight
<1>2. n \in Int /\ n >= 0
  <2>1. c.max_inflight_to_device \in Int BY DEF CfgOK
  <2> QED BY <2>1 DEF Knobs!default_max_inflight_to_device
<1> HIDE DEF r, n
<1>3. CfgOK(r) BY <1>1, <1>2, NumberWritten
<1>4. /\ r.max_inflight_to_device = n /\ r.axi4 = c.axi4 /\ r.ports = c.ports
      /\ r.chi = c.chi /\ r.max_outstanding = c.max_outstanding
      /\ r.qos_class_count = c.qos_class_count /\ r.soft = c.soft
      /\ r.refresh_max_deferred = c.refresh_max_deferred
      /\ r.addr_map_policy = c.addr_map_policy
  BY <1>1 DEF CfgOK, Shape
<1>5. Knobs!CountsLegal(c) => Knobs!CountsLegal(r)
  BY <1>2, <1>4 DEF Knobs!CountsLegal, Knobs!chi_validate
<1> QED BY <1>2, <1>3, <1>4, <1>5 DEF r

(* The clamp, written field by field.                                      *)
LEMMA Clamps ==
  ASSUME NEW c, CfgOK(c), c.qos_class_count >= 1
  PROVE  LET k == Knobs!clamp_qos_class_map(c)
         IN /\ CfgOK(k)
            /\ k.ports = c.ports /\ k.addr_map_policy = c.addr_map_policy
            /\ k.max_inflight_to_device = c.max_inflight_to_device
            /\ Knobs!CountsLegal(c) => Knobs!CountsLegal(k)
            /\ Knobs!Axi4Legal(c) => Knobs!Axi4Legal(k)
            /\ Knobs!Negative(k) = {} =>
                 \A i \in 0 .. NQos - 1 :
                   k.axi4.qos_class_map[i] \in 0 .. k.qos_class_count - 1
<1> DEFINE m == [i \in 0 .. NQos - 1 |->
                   IF /\ c.axi4.qos_class_map[i] >= c.qos_class_count
                      /\ \A n \in Knobs!Negative(c) : i < n
                   THEN c.qos_class_count - 1
                   ELSE c.axi4.qos_class_map[i]]
           k == Knobs!clamp_qos_class_map(c)
<1>1. c.axi4.qos_class_map \in [0 .. NQos - 1 -> Int]
      /\ c.qos_class_count \in Int
  BY DEF CfgOK
<1>2. k = [c EXCEPT !.axi4.qos_class_map = m]
  BY <1>1 DEF Knobs!clamp_qos_class_map
<1>3. m \in [0 .. NQos - 1 -> Int]
  <2> DEFINE Above(i) == /\ c.axi4.qos_class_map[i] >= c.qos_class_count
                         /\ \A n \in Knobs!Negative(c) : i < n
             n == c.qos_class_count
             q == c.axi4.qos_class_map
  <2>1. m = [i \in 0 .. NQos - 1 |-> IF Above(i) THEN n - 1 ELSE q[i]]
    OBVIOUS
  <2>2. n \in Int /\ q \in [0 .. NQos - 1 -> Int] BY <1>1
  <2> HIDE DEF m, Above, n, q
  <2> QED BY <2>1, <2>2
<1>4. ASSUME Knobs!Negative(k) = {}, k.axi4.qos_class_map = m,
             NEW i \in 0 .. NQos - 1
      PROVE  m[i] \in 0 .. c.qos_class_count - 1
  <2>1. DOMAIN m = 0 .. NQos - 1 OBVIOUS
  <2>2. \A j \in 0 .. NQos - 1 : ~(m[j] < 0)
    BY <1>4, <2>1 DEF Knobs!Negative
  <2>3. \A j \in 0 .. NQos - 1 : c.axi4.qos_class_map[j] < 0 => m[j] < 0
    <3> TAKE j \in 0 .. NQos - 1
    <3> HAVE c.axi4.qos_class_map[j] < 0
    <3>1. c.axi4.qos_class_map[j] \in Int BY <1>1
    <3>2. ~(c.axi4.qos_class_map[j] >= c.qos_class_count) BY <1>1, <3>1
    <3>3. m[j] = c.axi4.qos_class_map[j] BY <3>2
    <3> QED BY <3>3
  <2>4. Knobs!Negative(c) = {} BY <1>1, <2>2, <2>3 DEF Knobs!Negative
  <2>5. m[i] = IF c.axi4.qos_class_map[i] >= c.qos_class_count
               THEN c.qos_class_count - 1 ELSE c.axi4.qos_class_map[i]
    BY <2>4
  <2>6. m[i] \in Int /\ ~(m[i] < 0) /\ c.axi4.qos_class_map[i] \in Int
    BY <1>1, <1>3, <2>2
  <2> HIDE DEF m
  <2> QED BY <1>1, <2>5, <2>6
<1> HIDE DEF m, k
<1>5. /\ k.axi4 = [c.axi4 EXCEPT !.qos_class_map = m]
      /\ k = [c EXCEPT !.axi4 = k.axi4]
  BY <1>2 DEF CfgOK, Shape
<1>6. /\ k.axi4.qos_class_map = m
      /\ k.axi4.outstanding_limit = c.axi4.outstanding_limit
      /\ k.axi4.aw_pending_depth = c.axi4.aw_pending_depth
      /\ k.axi4.w_data_buf_depth = c.axi4.w_data_buf_depth
      /\ k.axi4.decerr_addr_lo = c.axi4.decerr_addr_lo
      /\ k.axi4.decerr_addr_hi = c.axi4.decerr_addr_hi
      /\ k.axi4 = [outstanding_limit |-> k.axi4.outstanding_limit,
                   aw_pending_depth |-> k.axi4.aw_pending_depth,
                   w_data_buf_depth |-> k.axi4.w_data_buf_depth,
                   qos_class_map |-> k.axi4.qos_class_map,
                   decerr_addr_lo |-> k.axi4.decerr_addr_lo,
                   decerr_addr_hi |-> k.axi4.decerr_addr_hi]
  BY <1>5 DEF CfgOK
<1>7. /\ k.chi = c.chi /\ k.max_outstanding = c.max_outstanding
      /\ k.qos_class_count = c.qos_class_count /\ k.soft = c.soft
      /\ k.refresh_max_deferred = c.refresh_max_deferred
      /\ k.max_inflight_to_device = c.max_inflight_to_device
      /\ k.ports = c.ports /\ k.addr_map_policy = c.addr_map_policy
      /\ Shape(k)
  BY <1>5 DEF CfgOK, Shape
<1>8. CfgOK(k) BY <1>3, <1>6, <1>7 DEF CfgOK
<1>9. /\ Knobs!CountsLegal(c) => Knobs!CountsLegal(k)
      /\ Knobs!Axi4Legal(c) => Knobs!Axi4Legal(k)
  BY <1>6, <1>7 DEF Knobs!CountsLegal, Knobs!chi_validate, Knobs!Axi4Legal
<1>10. Knobs!Negative(k) = {} =>
         \A i \in 0 .. NQos - 1 :
           k.axi4.qos_class_map[i] \in 0 .. k.qos_class_count - 1
  BY <1>4, <1>6, <1>7
<1> QED BY <1>7, <1>8, <1>9, <1>10 DEF k

LEMMA Validates ==
  ASSUME NEW c, NEW g, CfgOK(c), g.n_banks \in Nat
  PROVE  LET v == Knobs!validate(c, g)
         IN /\ CfgOK(v.cfg) /\ v.cfg.ports = c.ports
            /\ v.ok => Valid(v.cfg, g)
<1> DEFINE r == Knobs!resolve_max_inflight(c, g)
           k == Knobs!clamp_qos_class_map(r)
           v == Knobs!validate(c, g)
<1>1. v = IF ~Knobs!CountsLegal(c) THEN [cfg |-> c, ok |-> FALSE]
          ELSE IF ~Knobs!Axi4Legal(r) THEN [cfg |-> r, ok |-> FALSE]
          ELSE [cfg |-> k, ok |-> /\ Knobs!Negative(k) = {}
                                  /\ Knobs!PortsLegal(k)
                                  /\ Knobs!validate_addr_map
                                       (g, k.addr_map_policy)]
  BY DEF Knobs!validate
<1> HIDE DEF v
<1>2. /\ CfgOK(r) /\ r.max_inflight_to_device >= 0
      /\ r.axi4 = c.axi4 /\ r.ports = c.ports
      /\ Knobs!CountsLegal(c) => Knobs!CountsLegal(r)
  BY Resolves
<1> HIDE DEF r
<1>3. Knobs!CountsLegal(r) => r.qos_class_count >= 1 BY DEF Knobs!CountsLegal
<1>4. ASSUME Knobs!CountsLegal(r)
      PROVE  /\ CfgOK(k) /\ k.ports = r.ports
             /\ k.max_inflight_to_device = r.max_inflight_to_device
             /\ Knobs!CountsLegal(k)
             /\ Knobs!Axi4Legal(r) => Knobs!Axi4Legal(k)
             /\ Knobs!Negative(k) = {} =>
                  \A i \in 0 .. NQos - 1 :
                    k.axi4.qos_class_map[i] \in 0 .. k.qos_class_count - 1
  BY <1>2, <1>3, <1>4, Clamps
<1> HIDE DEF k
<1>5. CASE ~Knobs!CountsLegal(c) BY <1>1, <1>5 DEF v
<1>6. CASE Knobs!CountsLegal(c) /\ ~Knobs!Axi4Legal(r)
  BY <1>1, <1>2, <1>6 DEF v
<1>7. CASE Knobs!CountsLegal(c) /\ Knobs!Axi4Legal(r)
  <2>1. v.cfg = k /\ (v.ok = (/\ Knobs!Negative(k) = {}
                              /\ Knobs!PortsLegal(k)
                              /\ Knobs!validate_addr_map
                                   (g, k.addr_map_policy)))
    BY <1>1, <1>7
  <2>2. v.ok => Valid(k, g) BY <1>2, <1>4, <1>7, <2>1 DEF Valid
  <2> QED BY <1>2, <1>4, <1>7, <2>1, <2>2 DEF v
<1> QED BY <1>5, <1>6, <1>7

(* A second validation finds nothing to replace and nothing to refuse.     *)
LEMMA ValidStays ==
  ASSUME NEW c, NEW g, CfgOK(c), Valid(c, g)
  PROVE  Knobs!validate(c, g) = [cfg |-> c, ok |-> TRUE]
<1>1. Knobs!resolve_max_inflight(c, g) = c
  BY DEF Knobs!resolve_max_inflight, CfgOK, Shape, Valid
<1>2. Knobs!Negative(c) = {}
  <2>1. DOMAIN c.axi4.qos_class_map = 0 .. NQos - 1 BY DEF CfgOK
  <2>2. c.qos_class_count \in Int BY DEF CfgOK
  <2>3. \A i \in 0 .. NQos - 1 : ~(c.axi4.qos_class_map[i] < 0)
    BY <2>2 DEF Valid
  <2> QED BY <2>1, <2>3 DEF Knobs!Negative
<1>3. Knobs!clamp_qos_class_map(c) = c
  <2>1. \A i \in 0 .. NQos - 1 :
          ~(c.axi4.qos_class_map[i] >= c.qos_class_count)
    BY DEF CfgOK, Valid
  <2> DEFINE q == c.axi4.qos_class_map
             m == [i \in DOMAIN q |->
                     IF /\ q[i] >= c.qos_class_count
                        /\ \A n \in Knobs!Negative(c) : i < n
                     THEN c.qos_class_count - 1 ELSE q[i]]
  <2>2. q \in [0 .. NQos - 1 -> Int] BY DEF CfgOK
  <2>3. m = q BY <2>1, <2>2
  <2>4. Knobs!clamp_qos_class_map(c) = [c EXCEPT !.axi4.qos_class_map = m]
    BY DEF Knobs!clamp_qos_class_map
  <2> HIDE DEF m
  <2> QED BY <2>3, <2>4 DEF CfgOK, Shape
<1> QED BY <1>1, <1>2, <1>3 DEF Knobs!validate, Valid

LEMMA LimitsWritten ==
  ASSUME NEW c, CfgOK(c), NEW y, DOMAIN y = {"rd", "wr"}
  PROVE  CfgOK([c EXCEPT !.max_outstanding = y])
<1> DEFINE d == [c EXCEPT !.max_outstanding = y]
<1>1. Shape(c) BY DEF CfgOK
<1>2. /\ d.max_outstanding = y /\ d.axi4 = c.axi4
      /\ d.qos_class_count = c.qos_class_count /\ d.ports = c.ports
      /\ d.max_inflight_to_device = c.max_inflight_to_device
      /\ Shape(d)
  BY <1>1 DEF Shape
<1> HIDE DEF d
<1>3. CfgOK(d) BY <1>2 DEF CfgOK
<1> QED BY <1>3 DEF d

LEMMA Axi4Set ==
  ASSUME NEW c, Shape(c), NEW a
  PROVE  LET d == [c EXCEPT !.axi4 = a]
         IN /\ d.max_outstanding = c.max_outstanding /\ d.axi4 = a
            /\ d.qos_class_count = c.qos_class_count /\ d.ports = c.ports
            /\ d.max_inflight_to_device = c.max_inflight_to_device
            /\ Shape(d)
BY DEF Shape

LEMMA Axi4Written ==
  ASSUME NEW c, CfgOK(c), NEW m \in [0 .. NQos - 1 -> Int],
         NEW lo \in Seq(Int), NEW hi \in Seq(Int), NEW x
  PROVE  /\ CfgOK([c EXCEPT !.axi4.qos_class_map = m])
         /\ CfgOK([c EXCEPT !.axi4.decerr_addr_lo = lo])
         /\ CfgOK([c EXCEPT !.axi4.decerr_addr_lo = lo,
                            !.axi4.decerr_addr_hi = hi])
         /\ CfgOK([c EXCEPT !.axi4.aw_pending_depth = x])
         /\ CfgOK([c EXCEPT !.axi4.outstanding_limit = x])
<1> DEFINE AxiShape(a) ==
      a = [outstanding_limit |-> a.outstanding_limit,
           aw_pending_depth |-> a.aw_pending_depth,
           w_data_buf_depth |-> a.w_data_buf_depth,
           qos_class_map |-> a.qos_class_map,
           decerr_addr_lo |-> a.decerr_addr_lo,
           decerr_addr_hi |-> a.decerr_addr_hi]
<1>1. Shape(c) /\ AxiShape(c.axi4) BY DEF CfgOK
<1>2. ASSUME NEW a, AxiShape(a), a.qos_class_map \in [0 .. NQos - 1 -> Int],
             a.decerr_addr_lo \in Seq(Int), a.decerr_addr_hi \in Seq(Int)
      PROVE  CfgOK([c EXCEPT !.axi4 = a])
  <2> DEFINE d == [c EXCEPT !.axi4 = a]
  <2>1. /\ d.max_outstanding = c.max_outstanding /\ d.axi4 = a
        /\ d.qos_class_count = c.qos_class_count /\ d.ports = c.ports
        /\ d.max_inflight_to_device = c.max_inflight_to_device
        /\ Shape(d)
    BY <1>1, Axi4Set
  <2> HIDE DEF d
  <2>2. CfgOK(d) BY <1>2, <2>1 DEF CfgOK
  <2> QED BY <2>2 DEF d
<1>3. CfgOK([c EXCEPT !.axi4.qos_class_map = m])
  <2> DEFINE a == [c.axi4 EXCEPT !.qos_class_map = m]
  <2>1. /\ AxiShape(a) /\ a.qos_class_map = m
        /\ a.decerr_addr_lo = c.axi4.decerr_addr_lo
        /\ a.decerr_addr_hi = c.axi4.decerr_addr_hi
    BY <1>1
  <2>2. [c EXCEPT !.axi4.qos_class_map = m] = [c EXCEPT !.axi4 = a] OBVIOUS
  <2> HIDE DEF a, AxiShape
  <2> QED BY <1>2, <2>1, <2>2 DEF CfgOK
<1>4. CfgOK([c EXCEPT !.axi4.decerr_addr_lo = lo])
  <2> DEFINE a == [c.axi4 EXCEPT !.decerr_addr_lo = lo]
  <2>1. /\ AxiShape(a) /\ a.qos_class_map = c.axi4.qos_class_map
        /\ a.decerr_addr_lo = lo
        /\ a.decerr_addr_hi = c.axi4.decerr_addr_hi
    BY <1>1
  <2>2. [c EXCEPT !.axi4.decerr_addr_lo = lo] = [c EXCEPT !.axi4 = a] OBVIOUS
  <2> HIDE DEF a, AxiShape
  <2> QED BY <1>2, <2>1, <2>2 DEF CfgOK
<1>5. CfgOK([c EXCEPT !.axi4.decerr_addr_lo = lo,
                      !.axi4.decerr_addr_hi = hi])
  <2> DEFINE a == [c.axi4 EXCEPT !.decerr_addr_lo = lo, !.decerr_addr_hi = hi]
  <2>1. /\ AxiShape(a) /\ a.qos_class_map = c.axi4.qos_class_map
        /\ a.decerr_addr_lo = lo /\ a.decerr_addr_hi = hi
    <3> DEFINE o == c.axi4
    <3>1. AxiShape(o) BY <1>1
    <3>2. a = [o EXCEPT !.decerr_addr_lo = lo, !.decerr_addr_hi = hi] OBVIOUS
    <3> HIDE DEF o, a
    <3>3. AxiShape(a) BY ONLY <3>1, <3>2
    <3>4. /\ a.qos_class_map = o.qos_class_map
          /\ a.decerr_addr_lo = lo /\ a.decerr_addr_hi = hi
      BY ONLY <3>1, <3>2
    <3> QED BY <3>3, <3>4 DEF o
  <2> DEFINE b == [c.axi4 EXCEPT !.decerr_addr_lo = lo]
             d == [c EXCEPT !.axi4 = b]
  <2>2. [c EXCEPT !.axi4.decerr_addr_lo = lo, !.axi4.decerr_addr_hi = hi]
        = [d EXCEPT !.axi4.decerr_addr_hi = hi]
    OBVIOUS
  <2>3. d.axi4 = b /\ \A z : [d EXCEPT !.axi4 = z] = [c EXCEPT !.axi4 = z]
    BY <1>1 DEF Shape
  <2>4. [d EXCEPT !.axi4.decerr_addr_hi = hi]
        = [d EXCEPT !.axi4 = [d.axi4 EXCEPT !.decerr_addr_hi = hi]]
    OBVIOUS
  <2>5. a = [b EXCEPT !.decerr_addr_hi = hi] OBVIOUS
  <2>6. [c EXCEPT !.axi4.decerr_addr_lo = lo, !.axi4.decerr_addr_hi = hi]
        = [c EXCEPT !.axi4 = a]
    <3> HIDE DEF a, b, d
    <3> QED BY <2>2, <2>3, <2>4, <2>5
  <2> HIDE DEF a, AxiShape
  <2> QED BY <1>2, <2>1, <2>6 DEF CfgOK
<1>6. CfgOK([c EXCEPT !.axi4.aw_pending_depth = x])
  <2> DEFINE a == [c.axi4 EXCEPT !.aw_pending_depth = x]
  <2>1. /\ AxiShape(a) /\ a.qos_class_map = c.axi4.qos_class_map
        /\ a.decerr_addr_lo = c.axi4.decerr_addr_lo
        /\ a.decerr_addr_hi = c.axi4.decerr_addr_hi
    BY <1>1
  <2>2. [c EXCEPT !.axi4.aw_pending_depth = x] = [c EXCEPT !.axi4 = a] OBVIOUS
  <2> HIDE DEF a, AxiShape
  <2> QED BY <1>2, <2>1, <2>2 DEF CfgOK
<1>7. CfgOK([c EXCEPT !.axi4.outstanding_limit = x])
  <2> DEFINE a == [c.axi4 EXCEPT !.outstanding_limit = x]
  <2>1. /\ AxiShape(a) /\ a.qos_class_map = c.axi4.qos_class_map
        /\ a.decerr_addr_lo = c.axi4.decerr_addr_lo
        /\ a.decerr_addr_hi = c.axi4.decerr_addr_hi
    <3> DEFINE o == c.axi4
    <3>1. AxiShape(o) BY <1>1
    <3>2. a = [o EXCEPT !.outstanding_limit = x] OBVIOUS
    <3> HIDE DEF o, a
    <3>3. AxiShape(a) BY ONLY <3>1, <3>2
    <3>4. /\ a.qos_class_map = o.qos_class_map
          /\ a.decerr_addr_lo = o.decerr_addr_lo
          /\ a.decerr_addr_hi = o.decerr_addr_hi
      BY ONLY <3>1, <3>2
    <3> QED BY <3>3, <3>4 DEF o
  <2>2. [c EXCEPT !.axi4.outstanding_limit = x] = [c EXCEPT !.axi4 = a]
    OBVIOUS
  <2> HIDE DEF a, AxiShape
  <2> QED BY <1>2, <2>1, <2>2 DEF CfgOK
<1> QED BY <1>3, <1>4, <1>5, <1>6, <1>7

(* What is added to the ports are ports of their own.                      *)
LEMMA PortsEnsured ==
  ASSUME NEW c, CfgOK(c), NPorts \in Nat
  PROVE  LET e == Knobs!ensure_port_count(c, NPorts)
         IN /\ CfgOK(e) /\ Len(e.ports) = NPorts
            /\ \A g : Fit(c, g) => Fit(e, g)
<1> DEFINE old(p) == IF p <= Len(c.ports) THEN c.ports[p] ELSE Knobs!NewPort
           new(p) == [old(p) EXCEPT !.vif_key = IF @ = Knobs!NoKey THEN p - 1
                                                ELSE @]
           s == [p \in 1 .. NPorts |-> new(p)]
           e == Knobs!ensure_port_count(c, NPorts)
<1>1. e = [c EXCEPT !.ports = s] BY DEF Knobs!ensure_port_count
<1>2. c.ports \in Seq(PortKnobs) BY DEF CfgOK
<1>3. ASSUME NEW p \in 1 .. NPorts PROVE old(p) \in PortKnobs
  <2>1. Knobs!NewPort \in PortKnobs
    BY DEF Knobs!NewPort, Knobs!NoKey, PortKnobs
  <2>2. p \in Int /\ p >= 1 /\ p <= NPorts OBVIOUS
  <2> HIDE DEF old
  <2>3. CASE p <= Len(c.ports)
    <3>1. Len(c.ports) \in Nat BY <1>2
    <3>2. p \in 1 .. Len(c.ports) BY <2>2, <2>3, <3>1
    <3>3. c.ports[p] \in PortKnobs
      <4> HIDE DEF PortKnobs
      <4> QED BY <1>2, <3>2
    <3> QED BY <2>3, <3>3 DEF old
  <2>4. CASE ~(p <= Len(c.ports)) BY <2>1, <2>4 DEF old
  <2> QED BY <2>3, <2>4
<1>4. ASSUME NEW p \in 1 .. NPorts
      PROVE  new(p) \in PortKnobs /\ new(p).regions = old(p).regions
  <2>1. old(p) \in PortKnobs BY <1>3
  <2>2. p - 1 \in Int OBVIOUS
  <2> HIDE DEF old
  <2> QED BY <2>1, <2>2 DEF PortKnobs
<1>5. s \in [1 .. NPorts -> PortKnobs] 
  <2> HIDE DEF new
  <2> QED BY <1>4
<1>6. \A p \in 1 .. NPorts : s[p].regions = old(p).regions BY <1>4
<1> HIDE DEF s, old, e
<1>7. s \in Seq(PortKnobs) /\ Len(s) = NPorts BY <1>5, LenIs
<1>8. CfgOK(e) /\ e.ports = s BY <1>1, <1>7, PortsWritten
<1>9. ASSUME NEW g, Fit(c, g) PROVE Fit(e, g)
  <2>1. \A p \in 1 .. NPorts : old(p) = c.ports[p] BY <1>9 DEF old, Fit
  <2>2. \A p \in 1 .. NPorts : e.ports[p].regions = c.ports[p].regions
    BY <1>6, <1>8, <2>1
  <2> QED BY <1>7, <1>8, <1>9, <2>2 DEF Fit, Knobs!RegionsFit
<1> QED BY <1>7, <1>8, <1>9 DEF e

LEMMA PortWritten ==
  ASSUME NEW c, CfgOK(c), NEW p \in DOMAIN c.ports, NEW x \in PortKnobs
  PROVE  CfgOK([c EXCEPT !.ports[p] = x])
<1>1. c.ports \in Seq(PortKnobs) BY DEF CfgOK
<1>2. [c.ports EXCEPT ![p] = x] \in Seq(PortKnobs)
  <2> HIDE DEF PortKnobs
  <2> QED BY <1>1
<1>3. [c EXCEPT !.ports[p] = x]
      = [c EXCEPT !.ports = [c.ports EXCEPT ![p] = x]]
  OBVIOUS
<1> QED BY <1>2, <1>3, PortsWritten

LEMMA WritesKeep ==
  ASSUME CfgOK(cfg), geom.addr_width \in Nat,
         NEW d \in Knobs!Writes(cfg)
  PROVE  CfgOK(d)
<1> DEFINE top == Knobs!device_max_addr(geom)
<1>1. top \in Int BY DEF Knobs!device_max_addr, Knobs!Pow2
<1>2. /\ cfg.axi4.qos_class_map \in [0 .. NQos - 1 -> Int]
      /\ cfg.axi4.decerr_addr_lo \in Seq(Int)
      /\ cfg.axi4.decerr_addr_hi \in Seq(Int)
      /\ cfg.ports \in Seq(PortKnobs)
      /\ DOMAIN cfg.max_outstanding = {"rd", "wr"}
  BY DEF CfgOK
<1> HIDE DEF top
<1>3. CASE \E ch \in DOMAIN cfg.chi : d = [cfg EXCEPT !.chi[ch] = 0]
  <2>1. PICK ch : d = [cfg EXCEPT !.chi[ch] = 0] BY <1>3
  <2>2. d = [cfg EXCEPT !.chi = [cfg.chi EXCEPT ![ch] = 0]] BY <2>1
  <2> QED BY <2>2, ValueWritten
<1>4. CASE \E l \in {"rd", "wr"}, n \in {-1, 0, 4} :
             d = [cfg EXCEPT !.max_outstanding[l] = n]
  <2>1. PICK l, n : d = [cfg EXCEPT !.max_outstanding[l] = n] BY <1>4
  <2> DEFINE y == [cfg.max_outstanding EXCEPT ![l] = n]
  <2>2. d = [cfg EXCEPT !.max_outstanding = y] BY <2>1
  <2>3. DOMAIN y = {"rd", "wr"} BY <1>2
  <2> HIDE DEF y
  <2> QED BY <2>2, <2>3, LimitsWritten
<1>5. CASE \E n \in 0 .. 3 : d = [cfg EXCEPT !.qos_class_count = n]
  <2>1. PICK n \in 0 .. 3 : d = [cfg EXCEPT !.qos_class_count = n] BY <1>5
  <2>2. n \in Int OBVIOUS
  <2> QED BY <2>1, <2>2, NumberWritten
<1>6. CASE \E i \in 0 .. NQos - 1, q \in {-1, 2} :
             d = [cfg EXCEPT !.axi4.qos_class_map[i] = q]
  <2>1. PICK i \in 0 .. NQos - 1, q \in {-1, 2} :
          d = [cfg EXCEPT !.axi4.qos_class_map[i] = q]
    BY <1>6
  <2> DEFINE m == [cfg.axi4.qos_class_map EXCEPT ![i] = q]
  <2>2. d = [cfg EXCEPT !.axi4.qos_class_map = m] BY <2>1
  <2>3. m \in [0 .. NQos - 1 -> Int] BY <1>2
  <2> HIDE DEF m
  <2>4. <<>> \in Seq(Int) OBVIOUS
  <2> QED BY <2>2, <2>3, <2>4, Axi4Written
<1>7. CASE \E n \in 0 .. 1 : d = [cfg EXCEPT !.refresh_max_deferred = n]
  <2>1. PICK n : d = [cfg EXCEPT !.refresh_max_deferred = n] BY <1>7
  <2> QED BY <2>1, ValueWritten
<1>8. CASE \E k \in DOMAIN cfg.soft : d = [cfg EXCEPT !.soft[k] = -1]
  <2>1. PICK k : d = [cfg EXCEPT !.soft[k] = -1] BY <1>8
  <2>2. d = [cfg EXCEPT !.soft = [cfg.soft EXCEPT ![k] = -1]] BY <2>1
  <2> QED BY <2>2, ValueWritten
<1>9. CASE \E n \in {-2, -1, 0} :
             d = [cfg EXCEPT !.max_inflight_to_device = n]
  <2>1. \A n \in {-2, -1, 0} : n \in Int OBVIOUS
  <2> QED BY <1>9, <2>1, NumberWritten
<1>10. CASE d \in {[cfg EXCEPT !.ports = <<>>],
                   [cfg EXCEPT !.ports = Append(@, Knobs!NewPort)]}
  <2>1. Knobs!NewPort \in PortKnobs
    BY DEF Knobs!NewPort, Knobs!NoKey, PortKnobs
  <2>2. /\ <<>> \in Seq(PortKnobs)
        /\ Append(cfg.ports, Knobs!NewPort) \in Seq(PortKnobs)
    <3> HIDE DEF PortKnobs
    <3> QED BY <1>2, <2>1
  <2> QED BY <1>10, <2>2, PortsWritten
<1>11. CASE d \in {[cfg EXCEPT !.axi4.aw_pending_depth = -1],
                   [cfg EXCEPT !.axi4.decerr_addr_lo = Append(@, 0)]}
  <2>1. Append(cfg.axi4.decerr_addr_lo, 0) \in Seq(Int) BY <1>2
  <2>2. d = [cfg EXCEPT !.axi4.aw_pending_depth = -1]
        \/ d = [cfg EXCEPT !.axi4.decerr_addr_lo
                             = Append(cfg.axi4.decerr_addr_lo, 0)]
    BY <1>11
  <2> DEFINE los == Append(cfg.axi4.decerr_addr_lo, 0)
  <2>3. /\ CfgOK([cfg EXCEPT !.axi4.aw_pending_depth = -1])
        /\ CfgOK([cfg EXCEPT !.axi4.decerr_addr_lo = los])
    <3> HIDE DEF los
    <3> QED BY <1>2, <2>1, Axi4Written DEF los
  <2> QED BY <2>2, <2>3
<1>12. CASE \E lo \in {0, top + 1} :
              d = Knobs!add_decerr_range(cfg, lo, top)
  <2>1. PICK lo \in Int : d = Knobs!add_decerr_range(cfg, lo, top)
    BY <1>1, <1>12
  <2> DEFINE los == Append(cfg.axi4.decerr_addr_lo, lo)
             his == Append(cfg.axi4.decerr_addr_hi, top)
  <2>2. d \in {cfg, [cfg EXCEPT !.axi4.decerr_addr_lo = los,
                                !.axi4.decerr_addr_hi = his]}
    <3>1. [cfg EXCEPT !.axi4.decerr_addr_lo = Append(@, lo),
                      !.axi4.decerr_addr_hi = Append(@, top)]
          = [cfg EXCEPT !.axi4.decerr_addr_lo = los,
                        !.axi4.decerr_addr_hi = his]
      <4> DEFINE e == [cfg EXCEPT !.axi4.decerr_addr_lo = los]
      <4>1. [cfg EXCEPT !.axi4.decerr_addr_lo = Append(@, lo),
                        !.axi4.decerr_addr_hi = Append(@, top)]
            = [e EXCEPT !.axi4.decerr_addr_hi = Append(@, top)]
        OBVIOUS
      <4>2. e.axi4.decerr_addr_hi = cfg.axi4.decerr_addr_hi
        BY DEF CfgOK, Shape
      <4>3. [e EXCEPT !.axi4.decerr_addr_hi = Append(@, top)]
            = [e EXCEPT !.axi4.decerr_addr_hi
                          = Append(e.axi4.decerr_addr_hi, top)]
        OBVIOUS
      <4> QED BY <4>1, <4>2, <4>3
    <3> QED BY <2>1, <3>1 DEF Knobs!add_decerr_range
  <2>3. los \in Seq(Int) /\ his \in Seq(Int) BY <1>1, <1>2
  <2> HIDE DEF los, his
  <2>4. CfgOK([cfg EXCEPT !.axi4.decerr_addr_lo = los,
                          !.axi4.decerr_addr_hi = his])
    BY <1>2, <2>3, Axi4Written
  <2> QED BY <2>2, <2>4
<1>13. CASE \E p \in DOMAIN cfg.ports, lo \in {0, 2},
                 hi \in {1, top, top + 1} :
              d = Knobs!add_region(cfg, p, lo, hi)
  <2>1. PICK p \in DOMAIN cfg.ports, lo \in Int, hi \in Int :
          d = Knobs!add_region(cfg, p, lo, hi)
    BY <1>1, <1>13
  <2> DEFINE r == [lo |-> lo, hi |-> hi]
             x == [cfg.ports[p] EXCEPT !.regions = Append(@, r)]
  <2>2. d \in {cfg, [cfg EXCEPT !.ports[p] = x]}
    BY <2>1 DEF Knobs!add_region
  <2>3. cfg.ports[p] \in PortKnobs
    <3> HIDE DEF PortKnobs
    <3> QED BY <1>2
  <2>4. x \in PortKnobs
    <3>1. Append(cfg.ports[p].regions, r) \in Seq([lo : Int, hi : Int])
      BY <2>3 DEF PortKnobs
    <3> QED BY <2>3, <3>1 DEF PortKnobs
  <2> HIDE DEF x
  <2> QED BY <2>2, <2>4, PortWritten
<1>14. CASE \E p \in DOMAIN cfg.ports, w \in {-1, 0} :
              d = [cfg EXCEPT !.ports[p].arb_weight = w]
  <2>1. PICK p \in DOMAIN cfg.ports, w \in {-1, 0} :
          d = [cfg EXCEPT !.ports[p].arb_weight = w]
    BY <1>14
  <2> DEFINE x == [cfg.ports[p] EXCEPT !.arb_weight = w]
  <2>2. d = [cfg EXCEPT !.ports[p] = x] BY <2>1
  <2>3. cfg.ports[p] \in PortKnobs
    <3> HIDE DEF PortKnobs
    <3> QED BY <1>2
  <2>4. x \in PortKnobs BY <2>3 DEF PortKnobs
  <2> HIDE DEF x
  <2> QED BY <2>2, <2>4, PortWritten
<1>15. CASE \E f \in Knobs!Field, b \in -1 .. geom.addr_width :
              d = [cfg EXCEPT !.addr_map_policy[f] = b]
  <2>1. PICK f, b : d = [cfg EXCEPT !.addr_map_policy[f] = b] BY <1>15
  <2>2. d = [cfg EXCEPT !.addr_map_policy
                          = [cfg.addr_map_policy EXCEPT ![f] = b]]
    BY <2>1
  <2> QED BY <2>2, ValueWritten
<1> QED BY <1>3, <1>4, <1>5, <1>6, <1>7, <1>8, <1>9, <1>10, <1>11, <1>12,
           <1>13, <1>14, <1>15 DEF Knobs!Writes, top

(* A limit that mirrors the outstanding ones is as legal as they are.      *)
LEMMA MirrorStays ==
  ASSUME NEW c, NEW g, CfgOK(c), Valid(c, g)
  PROVE  LET m == [c EXCEPT !.axi4.outstanding_limit =
                     [aw |-> c.max_outstanding.wr,
                      ar |-> c.max_outstanding.rd]]
         IN CfgOK(m) /\ Valid(m, g) /\ m.ports = c.ports
<1> DEFINE l == [aw |-> c.max_outstanding.wr, ar |-> c.max_outstanding.rd]
           a == [c.axi4 EXCEPT !.outstanding_limit = l]
           m == [c EXCEPT !.axi4.outstanding_limit = l]
<1>1. CfgOK(m)
  <2>1. <<>> \in Seq(Int) /\ c.axi4.qos_class_map \in [0 .. NQos - 1 -> Int]
    BY DEF CfgOK
  <2> HIDE DEF l
  <2> QED BY <2>1, Axi4Written
<1>2. l["aw"] >= 0 /\ l["ar"] >= 0
  <2>1. DOMAIN c.max_outstanding = {"rd", "wr"} BY DEF CfgOK
  <2>2. \A d \in DOMAIN c.max_outstanding : c.max_outstanding[d] >= 0
    BY DEF Valid, Knobs!CountsLegal
  <2> QED BY <2>1, <2>2
<1> HIDE DEF l
<1>3. /\ a.outstanding_limit = l
      /\ a.aw_pending_depth = c.axi4.aw_pending_depth
      /\ a.w_data_buf_depth = c.axi4.w_data_buf_depth
      /\ a.qos_class_map = c.axi4.qos_class_map
      /\ a.decerr_addr_lo = c.axi4.decerr_addr_lo
      /\ a.decerr_addr_hi = c.axi4.decerr_addr_hi
  BY DEF CfgOK
<1>4. m = [c EXCEPT !.axi4 = a] OBVIOUS
<1> HIDE DEF a, m
<1>5. /\ m.chi = c.chi /\ m.max_outstanding = c.max_outstanding
      /\ m.qos_class_count = c.qos_class_count /\ m.soft = c.soft
      /\ m.refresh_max_deferred = c.refresh_max_deferred
      /\ m.max_inflight_to_device = c.max_inflight_to_device
      /\ m.axi4 = a /\ m.ports = c.ports
      /\ m.addr_map_policy = c.addr_map_policy
  <2>1. Shape(c) BY DEF CfgOK
  <2> QED BY <1>4, <2>1 DEF Shape
<1>6. Knobs!CountsLegal(m) /\ m.max_inflight_to_device >= 0
  BY <1>5 DEF Valid, Knobs!CountsLegal, Knobs!chi_validate
<1>7. Knobs!Axi4Legal(m) BY <1>2, <1>3, <1>5 DEF Valid, Knobs!Axi4Legal
<1>8. /\ Knobs!PortsLegal(m) /\ Knobs!validate_addr_map(g, m.addr_map_policy)
      /\ \A i \in 0 .. NQos - 1 :
           m.axi4.qos_class_map[i] \in 0 .. m.qos_class_count - 1
  BY <1>3, <1>5 DEF Valid, Knobs!PortsLegal
<1>9. Valid(m, g) BY <1>6, <1>7, <1>8 DEF Valid
<1> QED BY <1>1, <1>5, <1>9 DEF m, l

LEMMA GeomIs ==
  ASSUME geom \in Geom
  PROVE  /\ geom.n_banks \in Nat /\ geom.addr_width \in Nat
         /\ NPorts \in Nat \ {0} /\ NQos \in Nat \ {0}
BY KnobsAssumption DEF Knobs!ConfigAssumption

(* What apply and the build phase both do with the object.                 *)
LEMMA ValidatedKeeps ==
  ASSUME KnobsInv
  PROVE  LET v == Knobs!validate(Knobs!ensure_port_count(cfg, NPorts), geom)
         IN /\ CfgOK(v.cfg) /\ Len(v.cfg.ports) = NPorts
            /\ v.ok => Valid(v.cfg, geom)
            /\ applied => Fit(v.cfg, geom)
<1> DEFINE e == Knobs!ensure_port_count(cfg, NPorts)
           v == Knobs!validate(e, geom)
<1>1. geom.n_banks \in Nat /\ NPorts \in Nat BY GeomIs DEF KnobsInv
<1>2. CfgOK(e) /\ Len(e.ports) = NPorts /\ (applied => Fit(e, geom))
  BY <1>1, PortsEnsured DEF KnobsInv
<1> HIDE DEF e
<1>3. /\ CfgOK(v.cfg) /\ v.cfg.ports = e.ports
      /\ v.ok => Valid(v.cfg, geom)
  BY <1>1, <1>2, Validates
<1> HIDE DEF v
<1>4. applied => Fit(v.cfg, geom)
  BY <1>2, <1>3 DEF Fit, Knobs!RegionsFit
<1> QED BY <1>2, <1>3, <1>4 DEF e, v

LEMMA KnobsStep == ASSUME KnobsInv, Knobs!Next PROVE KnobsInv'
<1> DEFINE v == Knobs!validate(Knobs!ensure_port_count(cfg, NPorts), geom)
<1>1. /\ CfgOK(v.cfg) /\ Len(v.cfg.ports) = NPorts
      /\ v.ok => Valid(v.cfg, geom)
      /\ applied => Fit(v.cfg, geom)
  BY ValidatedKeeps
<1>2. CASE Knobs!Write
  <2>1. /\ stage = "open" /\ stage' = stage /\ geom' = geom
        /\ applied' = FALSE /\ cfg' \in Knobs!Writes(cfg)
    BY <1>2 DEF Knobs!Write
  <2>2. CfgOK(cfg') BY <2>1, WritesKeep, GeomIs DEF KnobsInv
  <2> QED BY <2>1, <2>2 DEF KnobsInv
<1>3. CASE Knobs!apply
  <2>1. /\ stage = "open" /\ stage' = stage /\ geom' = geom
        /\ cfg' = v.cfg
        /\ applied' = (v.ok /\ Knobs!RegionsFit(v.cfg, geom))
    BY <1>3 DEF Knobs!apply
  <2> HIDE DEF v
  <2>2. CfgOK(cfg') BY <1>1, <2>1
  <2>3. applied' => Fit(cfg', geom) BY <1>1, <2>1 DEF Fit
  <2> QED BY <2>1, <2>2, <2>3 DEF KnobsInv
<1>4. CASE Knobs!build_phase
  <2> DEFINE m == [v.cfg EXCEPT !.axi4.outstanding_limit =
                     [aw |-> v.cfg.max_outstanding.wr,
                      ar |-> v.cfg.max_outstanding.rd]]
  <2>1. /\ geom' = geom /\ applied' = applied
        /\ IF v.ok THEN stage' = "built" /\ cfg' = m
           ELSE stage' = "refused" /\ cfg' = v.cfg
    BY <1>4 DEF Knobs!build_phase
  <2>2. v.ok => CfgOK(m) /\ Valid(m, geom) /\ m.ports = v.cfg.ports
    <3> HIDE DEF v
    <3> QED BY <1>1, MirrorStays
  <2> HIDE DEF v, m
  <2>3. CASE v.ok
    <3>1. stage' = "built" /\ cfg' = m BY <2>1, <2>3
    <3>2. CfgOK(cfg') /\ Valid(cfg', geom) /\ cfg'.ports = v.cfg.ports
      BY <2>2, <2>3, <3>1
    <3>3. applied' => Fit(cfg', geom)
      BY <1>1, <2>1, <3>2 DEF Fit, Knobs!RegionsFit
    <3> QED BY <1>1, <2>1, <3>1, <3>2, <3>3 DEF KnobsInv
  <2>4. CASE ~v.ok
    <3>1. stage' = "refused" /\ cfg' = v.cfg BY <2>1, <2>4
    <3> QED BY <1>1, <2>1, <3>1 DEF KnobsInv
  <2> QED BY <2>3, <2>4
<1> QED BY <1>2, <1>3, <1>4 DEF Knobs!Next

LEMMA KnobsInit == ASSUME Knobs!Init PROVE KnobsInv
<1> DEFINE c == Knobs!new_config(geom)
<1>1. /\ geom \in Geom /\ cfg = Knobs!ensure_port_count(c, NPorts)
      /\ stage = "open" /\ applied = FALSE
  BY DEF Knobs!Init
<1>2. NQos \in Nat /\ NPorts \in Nat BY <1>1, GeomIs
<1>3. CfgOK(c)
  <2>1. Shape(c) BY DEF Knobs!new_config, Shape
  <2>2. /\ c.max_outstanding = [rd |-> 16, wr |-> 16]
        /\ c.axi4 = [outstanding_limit |-> [ar |-> 0, aw |-> 0],
                     aw_pending_depth |-> 0, w_data_buf_depth |-> 0,
                     qos_class_map |-> [i \in 0 .. NQos - 1 |-> i],
                     decerr_addr_lo |-> <<>>, decerr_addr_hi |-> <<>>]
        /\ c.qos_class_count = 1 /\ c.max_inflight_to_device = -1
        /\ c.ports = <<>>
    BY DEF Knobs!new_config
  <2>3. [i \in 0 .. NQos - 1 |-> i] \in [0 .. NQos - 1 -> Int] OBVIOUS
  <2>4. <<>> \in Seq(Int) /\ <<>> \in Seq(PortKnobs)
        /\ DOMAIN [rd |-> 16, wr |-> 16] = {"rd", "wr"}
    OBVIOUS
  <2> HIDE DEF c
  <2> QED BY <2>1, <2>2, <2>3, <2>4 DEF CfgOK
<1> HIDE DEF c
<1>4. CfgOK(cfg) BY <1>1, <1>2, <1>3, PortsEnsured
<1> QED BY <1>1, <1>4 DEF KnobsInv

LEMMA InRange ==
  ASSUME NEW S, NEW s \in Seq(S), NEW r \in Knobs!Range(s)
  PROVE  r \in S
<1>1. PICK j \in DOMAIN s : r = s[j] BY DEF Knobs!Range
<1> QED BY <1>1

LEMMA KnobsUsable == ASSUME KnobsInv PROVE Knobs!ConfigUsable
<1>1. ASSUME stage = "built" PROVE Knobs!BuiltIsUsable
  <2>1. CfgOK(cfg) /\ Valid(cfg, geom) /\ Len(cfg.ports) = NPorts
    BY <1>1 DEF KnobsInv
  <2>2. NQos \in Nat \ {0} /\ NPorts \in Nat BY GeomIs DEF KnobsInv
  <2>3. ASSUME NEW q \in 0 .. NQos
        PROVE  Knobs!qos_to_class(q) \in 0 .. cfg.qos_class_count - 1
    <3> DEFINE i == IF q > NQos - 1 THEN NQos - 1 ELSE q
    <3>1. i \in 0 .. NQos - 1 BY <2>2
    <3>2. Knobs!qos_to_class(q) = IF cfg.axi4.qos_class_map[i] < 0 THEN 0
                                  ELSE cfg.axi4.qos_class_map[i]
      BY DEF Knobs!qos_to_class
    <3> HIDE DEF i
    <3>3. cfg.axi4.qos_class_map[i] \in 0 .. cfg.qos_class_count - 1
      BY <2>1, <3>1 DEF Valid
    <3>4. cfg.qos_class_count \in Int BY <2>1 DEF CfgOK
    <3> QED BY <3>2, <3>3, <3>4
  <2>4. cfg.max_inflight_to_device >= 0 /\ cfg.refresh_max_deferred >= 1
    BY <2>1 DEF Valid, Knobs!CountsLegal
  <2>5. \A d \in {"aw", "ar"} : cfg.axi4.outstanding_limit[d] >= 0
    BY <2>1 DEF Valid, Knobs!Axi4Legal
  <2>6. ASSUME NEW i \in DOMAIN cfg.axi4.decerr_addr_lo
        PROVE  Knobs!is_decerr_addr(cfg.axi4.decerr_addr_hi[i])
    <3>1. /\ cfg.axi4.decerr_addr_lo \in Seq(Int)
          /\ cfg.axi4.decerr_addr_hi \in Seq(Int)
      BY <2>1 DEF CfgOK
    <3>2. /\ Len(cfg.axi4.decerr_addr_lo) = Len(cfg.axi4.decerr_addr_hi)
          /\ cfg.axi4.decerr_addr_lo[i] <= cfg.axi4.decerr_addr_hi[i]
      BY <2>1 DEF Valid, Knobs!Axi4Legal
    <3>3. /\ cfg.axi4.decerr_addr_lo[i] \in Int
          /\ cfg.axi4.decerr_addr_hi[i] \in Int
      BY <3>1, <3>2
    <3>4. cfg.axi4.decerr_addr_hi[i]
          \in cfg.axi4.decerr_addr_lo[i] .. cfg.axi4.decerr_addr_hi[i]
      BY <3>2, <3>3
    <3> QED BY <3>4 DEF Knobs!is_decerr_addr
  <2>7. ASSUME NEW p \in 1 .. NPorts,
               NEW r \in Knobs!Range(cfg.ports[p].regions)
        PROVE  Knobs!allows_addr(p, r.lo)
    <3>1. p \in DOMAIN cfg.ports /\ cfg.ports[p] \in PortKnobs
      <4>1. cfg.ports \in Seq(PortKnobs) BY <2>1 DEF CfgOK
      <4> HIDE DEF PortKnobs
      <4> QED BY <2>1, <2>2, <4>1
    <3>2. r \in [lo : Int, hi : Int]
      <4>1. cfg.ports[p].regions \in Seq([lo : Int, hi : Int])
        BY <3>1 DEF PortKnobs
      <4> QED BY <4>1, InRange
    <3>3. r.lo <= r.hi BY <2>1, <3>1 DEF Valid, Knobs!PortsLegal
    <3>4. r.lo \in r.lo .. r.hi BY <3>2, <3>3
    <3> QED BY <3>4 DEF Knobs!allows_addr
  <2>8. Knobs!validate(cfg, geom) = [cfg |-> cfg, ok |-> TRUE]
    BY <2>1, ValidStays
  <2> QED BY <2>1, <2>3, <2>4, <2>5, <2>6, <2>7, <2>8
          DEF Knobs!BuiltIsUsable
<1>2. ASSUME applied, stage = "built" PROVE Knobs!RegionsInDevice
  <2>1. /\ CfgOK(cfg) /\ Len(cfg.ports) = NPorts
        /\ Knobs!RegionsFit(cfg, geom)
    BY <1>2 DEF KnobsInv, Fit
  <2>2. NPorts \in Nat BY GeomIs DEF KnobsInv
  <2>3. Knobs!device_max_addr(geom) \in Int
    BY GeomIs DEF KnobsInv, Knobs!device_max_addr, Knobs!Pow2
  <2>4. ASSUME NEW p \in 1 .. NPorts,
               NEW a \in 0 .. 2 * Knobs!Pow2(geom.addr_width),
               cfg.ports[p].regions # <<>>, Knobs!allows_addr(p, a)
        PROVE  a \in Knobs!Address
    <3>1. PICK r \in Knobs!Range(cfg.ports[p].regions) : a \in r.lo .. r.hi
      BY <2>4 DEF Knobs!allows_addr
    <3>2. r.hi <= Knobs!device_max_addr(geom)
      BY <2>1 DEF Knobs!RegionsFit
    <3>3. r \in [lo : Int, hi : Int]
      <4>1. p \in DOMAIN cfg.ports /\ cfg.ports[p] \in PortKnobs
        <5>1. cfg.ports \in Seq(PortKnobs) BY <2>1 DEF CfgOK
        <5> HIDE DEF PortKnobs
        <5> QED BY <2>1, <2>2, <5>1
      <4>2. cfg.ports[p].regions \in Seq([lo : Int, hi : Int])
        BY <4>1 DEF PortKnobs
      <4> QED BY <4>2, InRange
    <3>4. a \in Int /\ a >= 0 BY DEF Knobs!Pow2
    <3>5. r.hi \in Int /\ a <= r.hi BY <3>1, <3>3
    <3> QED BY <2>3, <3>2, <3>4, <3>5 DEF Knobs!Address
  <2> QED BY <2>4 DEF Knobs!RegionsInDevice
<1> QED BY <1>1, <1>2 DEF Knobs!ConfigUsable, Knobs!BuiltIsUsable,
                          Knobs!RegionsInDevice

(***************************************************************************)
(* A configuration that was built is one its parts can use, and a port     *)
(* with regions is allowed no address beyond the device, whatever was      *)
(* written, validated and refused before (vip_mc_config.validate,          *)
(* vip_mc_env_cfg.apply, vip_mc._resolve_config), for every geometry and   *)
(* any number of ports, classes and writes.                                *)
(***************************************************************************)
THEOREM ConfigurationUsable == AnySpec => []ConfigUsable
<1>1. AnyInit => KnobsInv BY KnobsInit DEF AnyInit
<1>2. KnobsInv /\ [AnyNext]_<<vars, job, knobVars>> => KnobsInv'
  <2> SUFFICES ASSUME KnobsInv, [AnyNext]_<<vars, job, knobVars>>
               PROVE  KnobsInv'
    OBVIOUS
  <2>1. CASE Knobs!Next BY <2>1, KnobsStep
  <2>2. CASE UNCHANGED knobVars BY <2>2 DEF knobVars, KnobsInv
  <2> QED BY <2>1, <2>2 DEF AnyNext
<1>3. KnobsInv => ConfigUsable BY KnobsUsable DEF ConfigUsable
<1> QED BY <1>1, <1>2, <1>3, PTL DEF AnySpec
=============================================================================
