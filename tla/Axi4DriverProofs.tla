-------------------------- MODULE Axi4DriverProofs --------------------------
(***************************************************************************)
(* The AXI4 driver: every accepted command is in one place until it is     *)
(* answered once, the counters that decide readiness are exact and the     *)
(* limits hold, bursts are whole in both directions, exclusive writes need *)
(* their reservation, and each stream of the port is a FIFO.               *)
(***************************************************************************)
EXTENDS Axi4Exclusive, FiniteSetTheorems, TLAPS

Op == {"RD", "WR"}

(* What the driver keeps of a command, and of a reservation.               *)
Entry ==
  [op : Op, id : {k.id : k \in Kind}, num : Nat \ {0}, beats : Nat \ {0},
   captured : Nat, excl : {k.excl : k \in Kind},
   lo : {k.lo : k \in Kind}, hi : {k.hi : k \in Kind}, pre : BOOLEAN,
   resp : {"OKAY", "SLVERR", "DECERR", "EXOKAY"}]

Held == [id : {k.id : k \in Kind}, lo : {k.lo : k \in Kind},
         hi : {k.hi : k \in Kind}]

Driver ==
  [cfg : Cfg,
   pending_aw_q : Seq(Entry), pending_b_q : Seq(Entry),
   pending_r_q : Seq(Entry), active_b : Seq(Entry),
   active_r_q : Seq(Entry), active_r_beat_idx : Nat,
   rvalid : BOOLEAN, w_data_buf_occupancy : Nat,
   inflight_rd_count : Nat, inflight_wr_count : Nat,
   observed_aw_count : Nat, observed_ar_count : Nat,
   exclusive_reservations : SUBSET Held, req_port : SUBSET Entry,
   awready : BOOLEAN, wready : BOOLEAN, arready : BOOLEAN]

(***************************************************************************)
(* The ledger: where the commands are.  W[i] is what one place holds, D    *)
(* what was answered, C[o] how many commands of direction o were accepted. *)
(***************************************************************************)

Slot == 1 .. 6

SameCmd(e, f) == e.op = f.op /\ e.num = f.num

InSlot(W, o, n) == \E i \in Slot : \E e \in W[i] : e.op = o /\ e.num = n
InDone(D, o, n) == \E c \in D : c.op = o /\ c.num = n

(* A command is in one place, as one entry.                                *)
OnePlace(W) ==
  \A i, j \in Slot : \A e \in W[i] : \A f \in W[j] :
    SameCmd(e, f) => i = j /\ e = f

(* A command is in a place or answered, not both, and only accepted ones   *)
(* are either.                                                             *)
Accounted(W, D, C) ==
  /\ \A o \in Op : \A n \in Nat : ~(InSlot(W, o, n) /\ InDone(D, o, n))
  /\ \A o \in Op : \A n \in Nat :
       InSlot(W, o, n) \/ InDone(D, o, n) <=> n \in 1 .. C[o]
  /\ \A c \in D : c.num \in Nat

Ledger(W, D, C) ==
  /\ W \in [Slot -> SUBSET Entry]
  /\ C \in [Op -> Nat]
  /\ OnePlace(W)
  /\ Accounted(W, D, C)

(* What the backend was given, in one direction: slot 1 are the addresses. *)
Given(W, o) ==
  {e \in Entry : ~e.pre /\ e.op = o /\ \E i \in 2 .. 6 : e \in W[i]}

Counted(W, o, n) ==
  /\ n \in Nat /\ IsFiniteSet(Given(W, o)) /\ Cardinality(Given(W, o)) = n

(* An entry is added to slot i, moved from slot i to slot j, perhaps       *)
(* changed, or taken out of slot i.                                        *)
Put(W, V, i, y) ==
  /\ V \in [Slot -> SUBSET Entry]
  /\ \A k \in Slot : V[k] = IF k = i THEN W[k] \cup {y} ELSE W[k]

Take(W, V, i, x) ==
  /\ V \in [Slot -> SUBSET Entry]
  /\ \A k \in Slot : V[k] = IF k = i THEN W[k] \ {x} ELSE W[k]

LEMMA PutLedger ==
  ASSUME NEW W, NEW D, NEW C, Ledger(W, D, C),
         NEW i \in Slot, NEW y \in Entry, y.num = C[y.op] + 1,
         NEW V, Put(W, V, i, y)
  PROVE  Ledger(V, D, [C EXCEPT ![y.op] = @ + 1])
<1> DEFINE C2 == [C EXCEPT ![y.op] = @ + 1]
<1>1. /\ y.op \in Op /\ C \in [Op -> Nat] /\ C2 \in [Op -> Nat]
      /\ y.num \in Nat
  BY DEF Entry, Ledger
<1>2. /\ C2[y.op] = C[y.op] + 1
      /\ \A o \in Op : o # y.op => C2[o] = C[o]
  BY <1>1
<1> HIDE DEF C2
<1>3. y.num \notin 1 .. C[y.op] /\ C[y.op] \in Nat
  BY <1>1
<1>4. ~InSlot(W, y.op, y.num) /\ ~InDone(D, y.op, y.num)
  BY <1>1, <1>3 DEF Ledger, Accounted
<1>5. \A k \in Slot : \A e \in W[k] : ~SameCmd(e, y)
  BY <1>4 DEF InSlot, SameCmd
<1>6. OnePlace(V)
  <2> SUFFICES ASSUME NEW k \in Slot, NEW j \in Slot,
                      NEW e \in V[k], NEW f \in V[j], SameCmd(e, f)
               PROVE  k = j /\ e = f
    BY DEF OnePlace
  <2>1. SameCmd(f, e) BY DEF SameCmd
  <2>2. CASE e = y /\ k = i
    BY <1>5, <2>1, <2>2 DEF Put
  <2>3. CASE f = y /\ j = i
    BY <1>5, <2>3 DEF Put
  <2>4. CASE e \in W[k] /\ f \in W[j]
    BY <2>4 DEF Ledger, OnePlace
  <2> QED BY <2>2, <2>3, <2>4 DEF Put
<1>7. \A o \in Op : \A n \in Nat :
        InSlot(V, o, n) <=> InSlot(W, o, n) \/ (o = y.op /\ n = y.num)
  BY DEF Put, InSlot
<1>8. Accounted(V, D, C2)
  <2>1. ASSUME NEW o \in Op, NEW n \in Nat
        PROVE  /\ ~(InSlot(V, o, n) /\ InDone(D, o, n))
               /\ InSlot(V, o, n) \/ InDone(D, o, n) <=> n \in 1 .. C2[o]
    <3>1. /\ ~(InSlot(W, o, n) /\ InDone(D, o, n))
          /\ InSlot(W, o, n) \/ InDone(D, o, n) <=> n \in 1 .. C[o]
      BY DEF Ledger, Accounted
    <3>2. CASE o = y.op
      <4>1. n \in 1 .. C2[o] <=> n \in 1 .. C[o] \/ n = y.num
        BY <1>1, <1>2, <1>3, <3>2
      <4> QED BY <1>4, <1>7, <3>1, <3>2, <4>1
    <3>3. CASE o # y.op BY <1>2, <1>7, <3>1, <3>3
    <3> QED BY <3>2, <3>3
  <2> QED BY <2>1 DEF Ledger, Accounted
<1> QED BY <1>1, <1>6, <1>8 DEF Ledger, Put, C2

LEMMA MoveLedger ==
  ASSUME NEW W, NEW D, NEW C, Ledger(W, D, C),
         NEW i \in Slot, NEW x \in W[i], NEW U, Take(W, U, i, x),
         NEW j \in Slot, NEW y \in Entry, SameCmd(x, y), NEW V, Put(U, V, j, y)
  PROVE  Ledger(V, D, C)
<1>1. x \in Entry BY DEF Ledger
<1>2. \A k \in Slot : \A e \in U[k] : e \in W[k] /\ ~SameCmd(e, x)
  <2> SUFFICES ASSUME NEW k \in Slot, NEW e \in U[k]
               PROVE  e \in W[k] /\ ~SameCmd(e, x)
    OBVIOUS
  <2>1. e \in W[k] /\ ~(k = i /\ e = x) BY DEF Take
  <2> QED BY <2>1 DEF Ledger, OnePlace
<1>3. \A k \in Slot : \A e \in U[k] : ~SameCmd(e, y) /\ ~SameCmd(y, e)
  BY <1>2 DEF SameCmd
<1>4. OnePlace(V)
  <2> SUFFICES ASSUME NEW k \in Slot, NEW l \in Slot,
                      NEW e \in V[k], NEW f \in V[l], SameCmd(e, f)
               PROVE  k = l /\ e = f
    BY DEF OnePlace
  <2>1. CASE e = y /\ k = j
    BY <1>3, <2>1 DEF Put
  <2>2. CASE f = y /\ l = j
    BY <1>3, <2>2 DEF Put
  <2>3. CASE e \in U[k] /\ f \in U[l]
    BY <1>2, <2>3 DEF Ledger, OnePlace
  <2> QED BY <2>1, <2>2, <2>3 DEF Put
<1>5. \A o \in Op : \A n \in Nat : InSlot(V, o, n) <=> InSlot(W, o, n)
  <2> SUFFICES ASSUME NEW o \in Op, NEW n \in Nat
               PROVE  InSlot(V, o, n) <=> InSlot(W, o, n)
    OBVIOUS
  <2>1. ASSUME InSlot(V, o, n) PROVE InSlot(W, o, n)
    <3>1. PICK k \in Slot : \E e \in V[k] : e.op = o /\ e.num = n
      BY <2>1 DEF InSlot
    <3>2. PICK e \in V[k] : e.op = o /\ e.num = n BY <3>1
    <3>3. CASE e = y
      <4>1. x.op = o /\ x.num = n BY <3>2, <3>3 DEF SameCmd
      <4> QED BY <4>1 DEF InSlot
    <3>4. CASE e \in U[k] BY <1>2, <3>2, <3>4 DEF InSlot
    <3> QED BY <3>3, <3>4 DEF Put
  <2>2. ASSUME InSlot(W, o, n) PROVE InSlot(V, o, n)
    <3>1. PICK k \in Slot : \E e \in W[k] : e.op = o /\ e.num = n
      BY <2>2 DEF InSlot
    <3>2. PICK e \in W[k] : e.op = o /\ e.num = n BY <3>1
    <3>3. CASE e = x
      <4>1. y \in V[j] /\ y.op = o /\ y.num = n
        BY <3>2, <3>3 DEF SameCmd, Put
      <4> QED BY <4>1 DEF InSlot
    <3>4. CASE e # x
      <4>1. e \in V[k] BY <3>2, <3>4 DEF Take, Put
      <4> QED BY <3>2, <4>1 DEF InSlot
    <3> QED BY <3>3, <3>4
  <2> QED BY <2>1, <2>2
<1> QED BY <1>4, <1>5 DEF Ledger, Accounted, Put

LEMMA TakeLedger ==
  ASSUME NEW W, NEW D, NEW C, Ledger(W, D, C),
         NEW i \in Slot, NEW x \in W[i], NEW U, Take(W, U, i, x)
  PROVE  Ledger(U, D \cup {Cmd(x)}, C)
<1>1. x \in Entry /\ Cmd(x).op = x.op /\ Cmd(x).num = x.num
  BY DEF Ledger, Cmd
<1>2. \A k \in Slot : \A e \in U[k] : e \in W[k] /\ ~SameCmd(e, x)
  <2> SUFFICES ASSUME NEW k \in Slot, NEW e \in U[k]
               PROVE  e \in W[k] /\ ~SameCmd(e, x)
    OBVIOUS
  <2>1. e \in W[k] /\ ~(k = i /\ e = x) BY DEF Take
  <2> QED BY <2>1 DEF Ledger, OnePlace
<1>3. OnePlace(U) BY <1>2 DEF Ledger, OnePlace
<1>4. ASSUME NEW o \in Op, NEW n \in Nat
      PROVE  /\ InSlot(W, o, n) <=> InSlot(U, o, n) \/ (o = x.op /\ n = x.num)
             /\ InSlot(U, o, n) => ~(o = x.op /\ n = x.num)
             /\ InDone(D \cup {Cmd(x)}, o, n) <=>
                  InDone(D, o, n) \/ (o = x.op /\ n = x.num)
  <2>1. InSlot(U, o, n) => InSlot(W, o, n) /\ ~(o = x.op /\ n = x.num)
    BY <1>2 DEF InSlot, SameCmd
  <2>2. o = x.op /\ n = x.num => InSlot(W, o, n) BY DEF InSlot
  <2>3. ASSUME InSlot(W, o, n), ~(o = x.op /\ n = x.num) PROVE InSlot(U, o, n)
    <3>1. PICK k \in Slot : \E e \in W[k] : e.op = o /\ e.num = n
      BY <2>3 DEF InSlot
    <3>2. PICK e \in W[k] : e.op = o /\ e.num = n BY <3>1
    <3>3. e \in U[k] BY <2>3, <3>2 DEF Take
    <3> QED BY <3>2, <3>3 DEF InSlot
  <2>4. InDone(D \cup {Cmd(x)}, o, n) <=>
          InDone(D, o, n) \/ (o = x.op /\ n = x.num)
    BY <1>1 DEF InDone
  <2> QED BY <2>1, <2>2, <2>3, <2>4
<1>5. Accounted(U, D \cup {Cmd(x)}, C)
  BY <1>1, <1>4 DEF Ledger, Accounted, Entry
<1> QED BY <1>3, <1>5 DEF Ledger, Take

(***************************************************************************)
(* Counting what the backend was given                                     *)
(***************************************************************************)

Counts(i, e, o) == i # 1 /\ ~e.pre /\ e.op = o

LEMMA PutCounted ==
  ASSUME NEW W, NEW o, NEW n, Counted(W, o, n),
         NEW i \in Slot, NEW y \in Entry, \A k \in Slot : y \notin W[k],
         NEW V, Put(W, V, i, y)
  PROVE  Counted(V, o, IF Counts(i, y, o) THEN n + 1 ELSE n)
<1> DEFINE S == Given(W, o)
<1>1. n \in Nat /\ IsFiniteSet(S) /\ Cardinality(S) = n BY DEF Counted
<1>2. y \notin S BY DEF Given, Slot
<1>3. Given(V, o) = IF Counts(i, y, o) THEN S \cup {y} ELSE S
  <2>1. \A e \in Entry : (\E k \in 2 .. 6 : e \in V[k]) <=>
                         (\E k \in 2 .. 6 : e \in W[k]) \/ (i # 1 /\ e = y)
    BY DEF Put, Slot
  <2> QED BY <2>1 DEF Given, Counts
<1> HIDE DEF S
<1>4. IsFiniteSet(S \cup {y}) /\ Cardinality(S \cup {y}) = n + 1
  BY <1>1, <1>2, FS_AddElement
<1>5. CASE Counts(i, y, o) BY <1>1, <1>3, <1>4, <1>5 DEF Counted
<1>6. CASE ~Counts(i, y, o) BY <1>1, <1>3, <1>6 DEF Counted
<1> QED BY <1>5, <1>6

LEMMA TakeCounted ==
  ASSUME NEW W, OnePlace(W), NEW o, NEW n, Counted(W, o, n),
         NEW i \in Slot, NEW x \in Entry, x \in W[i],
         NEW U, Take(W, U, i, x)
  PROVE  /\ Counted(U, o, IF Counts(i, x, o) THEN n - 1 ELSE n)
         /\ Counts(i, x, o) => n > 0
<1> DEFINE S == Given(W, o)
<1>1. n \in Nat /\ IsFiniteSet(S) /\ Cardinality(S) = n BY DEF Counted
<1>2. \A k \in Slot : x \in W[k] => k = i BY DEF OnePlace, SameCmd
<1>3. Counts(i, x, o) => x \in S BY DEF Given, Counts, Slot
<1>4. Given(U, o) = IF Counts(i, x, o) THEN S \ {x} ELSE S
  <2>1. \A e \in Entry : (\E k \in 2 .. 6 : e \in U[k]) <=>
                         (\E k \in 2 .. 6 : e \in W[k]) /\ ~(i # 1 /\ e = x)
    BY <1>2 DEF Take, Slot
  <2> QED BY <2>1 DEF Given, Counts
<1> HIDE DEF S
<1>5. CASE Counts(i, x, o)
  <2>1. IsFiniteSet(S \ {x}) /\ Cardinality(S \ {x}) = n - 1
    BY <1>1, <1>3, <1>5, FS_RemoveElement
  <2>2. n # 0 BY <1>1, <1>3, <1>5, FS_EmptySet
  <2> QED BY <1>1, <1>4, <1>5, <2>1, <2>2 DEF Counted
<1>6. CASE ~Counts(i, x, o) BY <1>1, <1>4, <1>6 DEF Counted
<1> QED BY <1>5, <1>6

(***************************************************************************)
(* Queues: each holds an entry once.                                       *)
(***************************************************************************)

Once(q) == \A i, j \in DOMAIN q : q[i] = q[j] => i = j

LEMMA QueueAppend ==
  ASSUME NEW q \in Seq(Entry), NEW e \in Entry
  PROVE  /\ Append(q, e) \in Seq(Entry)
         /\ SeqSet(Append(q, e)) = SeqSet(q) \cup {e}
         /\ Len(Append(q, e)) = Len(q) + 1
         /\ \A i \in 1 .. Len(q) : Append(q, e)[i] = q[i]
         /\ Append(q, e)[Len(q) + 1] = e
         /\ Once(q) /\ e \notin SeqSet(q) => Once(Append(q, e))
<1> DEFINE r == Append(q, e)
<1>1. /\ r \in Seq(Entry) /\ Len(r) = Len(q) + 1 /\ Len(q) \in Nat
      /\ \A i \in 1 .. Len(q) : r[i] = q[i]
      /\ r[Len(q) + 1] = e
      /\ DOMAIN q = 1 .. Len(q) /\ DOMAIN r = 1 .. Len(q) + 1
  OBVIOUS
<1> HIDE DEF r
<1>2. SeqSet(r) = SeqSet(q) \cup {e}
  <2>1. \A i \in 1 .. Len(q) + 1 : i \in 1 .. Len(q) \/ i = Len(q) + 1
    BY <1>1
  <2> QED BY <1>1, <2>1 DEF SeqSet
<1>3. ASSUME Once(q), e \notin SeqSet(q) PROVE Once(r)
  <2>1. \A i \in 1 .. Len(q) + 1 : i \in 1 .. Len(q) \/ i = Len(q) + 1
    BY <1>1
  <2>2. \A i \in 1 .. Len(q) : q[i] # e BY <1>1, <1>3 DEF SeqSet
  <2> QED BY <1>1, <1>3, <2>1, <2>2 DEF Once
<1> QED BY <1>1, <1>2, <1>3 DEF r

LEMMA QueueTail ==
  ASSUME NEW q \in Seq(Entry), q # <<>>
  PROVE  /\ Tail(q) \in Seq(Entry) /\ Head(q) = q[1] /\ Head(q) \in Entry
         /\ Head(q) \in SeqSet(q) /\ 1 \in DOMAIN q
         /\ Len(q) \in Nat \ {0} /\ Len(Tail(q)) = Len(q) - 1
         /\ \A i \in 1 .. Len(q) - 1 : Tail(q)[i] = q[i + 1]
         /\ Once(q) => /\ Once(Tail(q))
                       /\ SeqSet(Tail(q)) = SeqSet(q) \ {Head(q)}
<1> DEFINE r == Tail(q)
           n == Len(q) - 1
<1>1. /\ r \in Seq(Entry) /\ Len(r) = n /\ n \in Nat /\ Len(q) \in Nat \ {0}
      /\ \A i \in 1 .. n : r[i] = q[i + 1]
      /\ DOMAIN q = 1 .. n + 1 /\ DOMAIN r = 1 .. n
      /\ Head(q) = q[1] /\ Head(q) \in Entry
  OBVIOUS
<1> HIDE DEF r, n
<1>2. 1 \in DOMAIN q /\ Head(q) \in SeqSet(q) BY <1>1 DEF SeqSet
<1>3. ASSUME Once(q) PROVE Once(r) /\ SeqSet(r) = SeqSet(q) \ {Head(q)}
  <2>1. \A i \in 1 .. n : i + 1 \in 1 .. n + 1 /\ i + 1 # 1 BY <1>1
  <2>2. \A i \in 1 .. n + 1 : i # 1 => i - 1 \in 1 .. n /\ (i - 1) + 1 = i
    BY <1>1
  <2>3. Once(r)
    <3> SUFFICES ASSUME NEW i \in 1 .. n, NEW j \in 1 .. n, r[i] = r[j]
                 PROVE  i = j
      BY <1>1 DEF Once
    <3>1. q[i + 1] = q[j + 1] BY <1>1
    <3>2. i + 1 = j + 1 BY <1>1, <1>3, <2>1, <3>1 DEF Once
    <3> QED BY <3>2
  <2>4. SeqSet(r) \subseteq SeqSet(q) \ {Head(q)}
    <3> SUFFICES ASSUME NEW i \in 1 .. n
                 PROVE  r[i] \in SeqSet(q) /\ r[i] # q[1]
      BY <1>1 DEF SeqSet
    <3>1. r[i] = q[i + 1] /\ i + 1 \in DOMAIN q /\ i + 1 # 1 BY <1>1, <2>1
    <3> QED BY <1>2, <1>3, <3>1 DEF Once, SeqSet
  <2>5. SeqSet(q) \ {Head(q)} \subseteq SeqSet(r)
    <3> SUFFICES ASSUME NEW i \in 1 .. n + 1, q[i] # q[1]
                 PROVE  q[i] \in SeqSet(r)
      BY <1>1 DEF SeqSet
    <3>1. i # 1 OBVIOUS
    <3>2. r[i - 1] = q[i] /\ i - 1 \in DOMAIN r BY <1>1, <2>2, <3>1
    <3> QED BY <3>2 DEF SeqSet
  <2> QED BY <2>3, <2>4, <2>5
<1> QED BY <1>1, <1>2, <1>3 DEF r, n

(* The head of a queue is replaced.                                        *)
LEMMA QueueHead ==
  ASSUME NEW q \in Seq(Entry), q # <<>>, NEW e \in Entry
  PROVE  LET r == [q EXCEPT ![1] = e]
         IN /\ r \in Seq(Entry) /\ Len(r) = Len(q) /\ r[1] = e
            /\ \A i \in 2 .. Len(q) : r[i] = q[i]
            /\ Once(q) /\ (e \notin SeqSet(q) \/ e = Head(q)) =>
                 /\ Once(r)
                 /\ SeqSet(r) = (SeqSet(q) \ {Head(q)}) \cup {e}
<1> DEFINE r == [q EXCEPT ![1] = e]
<1>1. /\ Len(q) \in Nat \ {0} /\ DOMAIN q = 1 .. Len(q) /\ Head(q) = q[1]
      /\ r \in Seq(Entry) /\ Len(r) = Len(q) /\ DOMAIN r = 1 .. Len(q)
      /\ r[1] = e /\ \A i \in 2 .. Len(q) : r[i] = q[i]
  OBVIOUS
<1>2. \A i \in 1 .. Len(q) : i = 1 \/ i \in 2 .. Len(q) BY <1>1
<1>3. 1 \in DOMAIN q /\ \A i \in 2 .. Len(q) : i \in DOMAIN q /\ i # 1
  BY <1>1
<1> HIDE DEF r
<1>4. ASSUME Once(q), e \notin SeqSet(q) \/ e = Head(q)
      PROVE  Once(r) /\ SeqSet(r) = (SeqSet(q) \ {Head(q)}) \cup {e}
  <2>1. \A i \in 2 .. Len(q) : q[i] # e /\ q[i] # q[1]
    BY <1>1, <1>3, <1>4 DEF Once, SeqSet
  <2>2. Once(r) BY <1>1, <1>2, <1>3, <1>4, <2>1 DEF Once
  <2>3. SeqSet(r) \subseteq (SeqSet(q) \ {Head(q)}) \cup {e}
    BY <1>1, <1>2, <1>3, <2>1 DEF SeqSet
  <2>4. (SeqSet(q) \ {Head(q)}) \cup {e} \subseteq SeqSet(r)
    BY <1>1, <1>2, <1>3 DEF SeqSet
  <2> QED BY <2>2, <2>3, <2>4
<1> QED BY <1>1, <1>4 DEF r

(***************************************************************************)
(* The books: the ledger with the two counters of what was given.          *)
(***************************************************************************)

Books(W, D, C, writes, reads) ==
  /\ Ledger(W, D, C)
  /\ Counted(W, "WR", writes) /\ Counted(W, "RD", reads)

More(n, i, e, o) == IF Counts(i, e, o) THEN n + 1 ELSE n
Less(n, i, e, o) == IF Counts(i, e, o) THEN n - 1 ELSE n

Shift(W, V, i, x, j, y) ==
  /\ V \in [Slot -> SUBSET Entry]
  /\ \A k \in Slot : V[k] = (IF k = i THEN W[k] \ {x} ELSE W[k])
                              \cup (IF k = j THEN {y} ELSE {})

LEMMA PutBooks ==
  ASSUME NEW W, NEW D, NEW C, NEW nw, NEW nr, Books(W, D, C, nw, nr),
         NEW i \in Slot, NEW y \in Entry, y.num = C[y.op] + 1,
         NEW V, Put(W, V, i, y)
  PROVE  Books(V, D, [C EXCEPT ![y.op] = @ + 1],
               More(nw, i, y, "WR"), More(nr, i, y, "RD"))
<1>1. Ledger(V, D, [C EXCEPT ![y.op] = @ + 1]) BY PutLedger DEF Books
<1>2. \A k \in Slot : y \notin W[k]
  <2>1. y.op \in Op /\ C[y.op] \in Nat /\ y.num \in Nat
        /\ y.num \notin 1 .. C[y.op]
    BY DEF Entry, Books, Ledger
  <2>2. ~InSlot(W, y.op, y.num) BY <2>1 DEF Books, Ledger, Accounted
  <2> QED BY <2>2 DEF InSlot
<1> QED BY <1>1, <1>2, PutCounted DEF Books, More

LEMMA TakeBooks ==
  ASSUME NEW W, NEW D, NEW C, NEW nw, NEW nr, Books(W, D, C, nw, nr),
         NEW i \in Slot, NEW x \in Entry, x \in W[i],
         NEW U, Take(W, U, i, x)
  PROVE  /\ Books(U, D \cup {Cmd(x)}, C,
                  Less(nw, i, x, "WR"), Less(nr, i, x, "RD"))
         /\ Counts(i, x, "WR") => nw > 0
         /\ Counts(i, x, "RD") => nr > 0
<1>1. Ledger(U, D \cup {Cmd(x)}, C) BY TakeLedger DEF Books
<1>2. OnePlace(W) BY DEF Books, Ledger
<1> QED BY <1>1, <1>2, TakeCounted DEF Books, Less

LEMMA ShiftBooks ==
  ASSUME NEW W, NEW D, NEW C, NEW nw, NEW nr, Books(W, D, C, nw, nr),
         NEW i \in Slot, NEW x \in Entry, x \in W[i],
         NEW j \in Slot, NEW y \in Entry, SameCmd(x, y),
         NEW V, Shift(W, V, i, x, j, y)
  PROVE  Books(V, D, C, More(Less(nw, i, x, "WR"), j, y, "WR"),
                        More(Less(nr, i, x, "RD"), j, y, "RD"))
<1> DEFINE U == [k \in Slot |-> IF k = i THEN W[k] \ {x} ELSE W[k]]
<1>1. W \in [Slot -> SUBSET Entry] /\ OnePlace(W) BY DEF Books, Ledger
<1>2. Take(W, U, i, x) BY <1>1 DEF Take
<1>3. Put(U, V, j, y) BY DEF Put, Shift
<1>4. \A k \in Slot : y \notin U[k]
  <2> SUFFICES ASSUME NEW k \in Slot, y \in U[k] PROVE FALSE OBVIOUS
  <2>1. y \in W[k] /\ ~(k = i /\ y = x) OBVIOUS
  <2> QED BY <1>1, <2>1 DEF OnePlace
<1>5. Ledger(V, D, C) BY <1>2, <1>3, MoveLedger DEF Books
<1>6. Counted(U, "WR", Less(nw, i, x, "WR"))
      /\ Counted(U, "RD", Less(nr, i, x, "RD"))
  BY <1>1, <1>2, TakeCounted DEF Books, Less
<1> HIDE DEF U
<1>7. Counted(V, "WR", More(Less(nw, i, x, "WR"), j, y, "WR"))
      /\ Counted(V, "RD", More(Less(nr, i, x, "RD"), j, y, "RD"))
  BY <1>3, <1>4, <1>6, PutCounted DEF More
<1> QED BY <1>5, <1>7 DEF Books

(***************************************************************************)
(* The invariant, of a driver d that answered D                            *)
(***************************************************************************)

PlacesOf(d) ==
  <<SeqSet(d.pending_aw_q), d.req_port, SeqSet(d.pending_b_q),
    SeqSet(d.active_b), SeqSet(d.pending_r_q), SeqSet(d.active_r_q)>>

Accepted(d) ==
  [o \in Op |-> IF o = "WR" THEN d.observed_aw_count ELSE d.observed_ar_count]

Booked(d, D) ==
  Books(PlacesOf(d), D, Accepted(d), d.inflight_wr_count, d.inflight_rd_count)

AllOf(q, o) == \A i \in DOMAIN q : q[i].op = o

(* Writes and reads have their own queues; one response is on each channel.*)
Queued(d) ==
  /\ Once(d.pending_aw_q) /\ Once(d.pending_b_q) /\ Once(d.pending_r_q)
  /\ AllOf(d.pending_aw_q, "WR") /\ AllOf(d.pending_b_q, "WR")
  /\ AllOf(d.active_b, "WR")
  /\ AllOf(d.pending_r_q, "RD") /\ AllOf(d.active_r_q, "RD")
  /\ Len(d.active_b) <= 1 /\ Len(d.active_r_q) <= 1

(* Only the oldest address has beats, fewer than its burst unless it is    *)
(* answered locally; what the backend got is whole.                        *)
WritesWhole(d) ==
  /\ \A e \in d.req_port : ~e.pre /\ (e.op = "WR" => e.captured = e.beats)
  /\ \A i \in 2 .. Len(d.pending_aw_q) : d.pending_aw_q[i].captured = 0
  /\ \A i \in DOMAIN d.pending_aw_q :
       d.pending_aw_q[i].pre
         \/ d.pending_aw_q[i].captured < d.pending_aw_q[i].beats

(* The beat counter points at a beat of the burst on R.                    *)
ReadsWhole(d) ==
  /\ d.active_r_q = <<>> => d.active_r_beat_idx = 0
  /\ d.active_r_q # <<>> => d.active_r_beat_idx < d.active_r_q[1].beats

Within(n, limit) == limit > 0 => n <= limit

Limited(d) ==
  /\ Within(d.inflight_rd_count, d.cfg.ar_outstanding_limit)
  /\ Within(Len(d.pending_aw_q) + d.inflight_wr_count,
            d.cfg.aw_outstanding_limit)
  /\ Within(Len(d.pending_aw_q), d.cfg.aw_pending_depth)

DriverInv(d, D) ==
  d \in Driver /\ Booked(d, D) /\ Queued(d) /\ WritesWhole(d)
    /\ ReadsWhole(d) /\ Limited(d)

(* What the outputs promise of the next edge.                              *)
AwRoom(d) ==
  /\ limit_allows(Len(d.pending_aw_q) + d.inflight_wr_count,
                  d.cfg.aw_outstanding_limit)
  /\ limit_allows(Len(d.pending_aw_q), d.cfg.aw_pending_depth)

ArRoom(d) == limit_allows(d.inflight_rd_count, d.cfg.ar_outstanding_limit)

Ready(d) ==
  /\ d.awready => AwRoom(d)
  /\ d.arready => ArRoom(d)
  /\ d.wready => d.pending_aw_q # <<>>
  /\ d.rvalid => d.active_r_q # <<>>

Axi4Inv == DriverInv(drv, done) /\ Ready(drv)

LEMMA CfgFacts ==
  ASSUME NEW d \in Driver
  PROVE  /\ d.cfg \in Cfg
         /\ d.cfg.aw_outstanding_limit \in Int
         /\ d.cfg.ar_outstanding_limit \in Int
         /\ d.cfg.aw_pending_depth \in Int
  BY Axi4Assumption DEF Driver

LEMMA PlacesType ==
  ASSUME NEW d \in Driver
  PROVE  /\ PlacesOf(d) \in [Slot -> SUBSET Entry]
         /\ PlacesOf(d)[1] = SeqSet(d.pending_aw_q)
         /\ PlacesOf(d)[2] = d.req_port
         /\ PlacesOf(d)[3] = SeqSet(d.pending_b_q)
         /\ PlacesOf(d)[4] = SeqSet(d.active_b)
         /\ PlacesOf(d)[5] = SeqSet(d.pending_r_q)
         /\ PlacesOf(d)[6] = SeqSet(d.active_r_q)
         /\ \A k \in Slot : k = 1 \/ k = 2 \/ k = 3 \/ k = 4 \/ k = 5 \/ k = 6
<1>1. ASSUME NEW q \in Seq(Entry) PROVE SeqSet(q) \in SUBSET Entry
  BY <1>1 DEF SeqSet
<1>2. /\ SeqSet(d.pending_aw_q) \in SUBSET Entry
      /\ d.req_port \in SUBSET Entry
      /\ SeqSet(d.pending_b_q) \in SUBSET Entry
      /\ SeqSet(d.active_b) \in SUBSET Entry
      /\ SeqSet(d.pending_r_q) \in SUBSET Entry
      /\ SeqSet(d.active_r_q) \in SUBSET Entry
  <2>1. /\ d.pending_aw_q \in Seq(Entry) /\ d.pending_b_q \in Seq(Entry)
        /\ d.active_b \in Seq(Entry) /\ d.pending_r_q \in Seq(Entry)
        /\ d.active_r_q \in Seq(Entry) /\ d.req_port \in SUBSET Entry
    BY DEF Driver
  <2> QED BY <1>1, <2>1
<1>3. \A k \in Slot : k = 1 \/ k = 2 \/ k = 3 \/ k = 4 \/ k = 5 \/ k = 6
  BY DEF Slot
<1>4. PlacesOf(d) \in [Slot -> SUBSET Entry] BY <1>2, <1>3 DEF PlacesOf, Slot
<1> QED BY <1>3, <1>4 DEF PlacesOf

(* d2 leaves at least as much room as d and accepted the same commands.    *)
Easier(d, d2) ==
  /\ d2.cfg = d.cfg /\ d2.pending_aw_q = d.pending_aw_q
  /\ d2.inflight_wr_count <= d.inflight_wr_count
  /\ d2.inflight_rd_count <= d.inflight_rd_count
  /\ d2.observed_aw_count = d.observed_aw_count
  /\ d2.observed_ar_count = d.observed_ar_count

LEMMA DriverFields ==
  ASSUME NEW d \in Driver
  PROVE  /\ d.pending_aw_q \in Seq(Entry) /\ d.pending_b_q \in Seq(Entry)
         /\ d.active_b \in Seq(Entry) /\ d.pending_r_q \in Seq(Entry)
         /\ d.active_r_q \in Seq(Entry) /\ d.req_port \in SUBSET Entry
         /\ d.active_r_beat_idx \in Nat /\ d.rvalid \in BOOLEAN
         /\ d.inflight_rd_count \in Nat /\ d.inflight_wr_count \in Nat
         /\ d.observed_aw_count \in Nat /\ d.observed_ar_count \in Nat
         /\ d.w_data_buf_occupancy \in Nat
         /\ d.exclusive_reservations \in SUBSET Held
         /\ Len(d.pending_aw_q) \in Nat
<1>1. d.pending_aw_q \in Seq(Entry) BY DEF Driver
<1>2. Len(d.pending_aw_q) \in Nat BY <1>1
<1> QED BY <1>2 DEF Driver

LEMMA OneEntry ==
  ASSUME NEW q \in Seq(Entry), q # <<>>, Len(q) <= 1
  PROVE  /\ q = <<q[1]>> /\ q[1] \in Entry /\ SeqSet(q) = {q[1]}
         /\ q[1] \in SeqSet(q) /\ 1 \in DOMAIN q /\ Len(q) = 1
<1>1. Len(q) \in Nat /\ Len(q) # 0 /\ DOMAIN q = 1 .. Len(q)
  OBVIOUS
<1>3. Len(q) = 1 /\ DOMAIN q = 1 .. 1 /\ q[1] \in Entry /\ 1 \in DOMAIN q
  BY <1>1
<1>2. \A i \in 1 .. 1 : i = 1 OBVIOUS
<1> QED BY <1>2, <1>3 DEF SeqSet

LEMMA NoEntry == SeqSet(<<>>) = {} /\ Once(<<>>) /\ <<>> \in Seq(Entry)
                 /\ Len(<<>>) = 0 /\ \A o : AllOf(<<>>, o)
  BY DEF SeqSet, Once, AllOf

LEMMA Single ==
  ASSUME NEW e \in Entry
  PROVE  /\ <<e>> \in Seq(Entry) /\ SeqSet(<<e>>) = {e} /\ Len(<<e>>) = 1
         /\ <<e>> # <<>> /\ <<e>>[1] = e
         /\ \A o : AllOf(<<e>>, o) <=> e.op = o
<1>1. <<e>> \in Seq(Entry) /\ DOMAIN <<e>> = 1 .. 1 /\ <<e>>[1] = e
      /\ Len(<<e>>) = 1 /\ <<e>> # <<>>
  OBVIOUS
<1>2. \A i \in 1 .. 1 : i = 1 OBVIOUS
<1> QED BY <1>1, <1>2 DEF SeqSet, AllOf

(***************************************************************************)
(* The response channels                                                   *)
(***************************************************************************)

LEMMA RetireB ==
  ASSUME NEW d, NEW D, DriverInv(d, D), d.active_b # <<>>
  PROVE  /\ DriverInv(retire_b(d), D \cup {Cmd(d.active_b[1])})
         /\ Easier(d, retire_b(d)) /\ retire_b(d).active_b = <<>>
         /\ retire_b(d).active_r_q = d.active_r_q
         /\ retire_b(d).rvalid = d.rvalid
         /\ retire_b(d).active_r_beat_idx = d.active_r_beat_idx
<1> DEFINE x == d.active_b[1]
           n == IF x.pre THEN d.inflight_wr_count
                ELSE SatDec(d.inflight_wr_count)
           d2 == retire_b(d)
<1>1. d \in Driver BY DEF DriverInv
<1>2. /\ d2 = [d EXCEPT !.active_b = <<>>, !.inflight_wr_count = n]
      /\ n \in Nat /\ n <= d.inflight_wr_count
  BY <1>1, DriverFields DEF retire_b, SatDec
<1>3. /\ x \in Entry /\ SeqSet(d.active_b) = {x} /\ x.op = "WR"
  BY <1>1, DriverFields, OneEntry DEF DriverInv, Queued, AllOf
<1> HIDE DEF n, x, d2
<1>4. d2 \in Driver BY <1>1, <1>2, NoEntry, Zenon DEF Driver
<1>5. /\ d2.active_b = <<>> /\ d2.inflight_wr_count = n
      /\ d2.cfg = d.cfg /\ d2.pending_aw_q = d.pending_aw_q
      /\ d2.pending_b_q = d.pending_b_q /\ d2.pending_r_q = d.pending_r_q
      /\ d2.active_r_q = d.active_r_q /\ d2.rvalid = d.rvalid
      /\ d2.active_r_beat_idx = d.active_r_beat_idx
      /\ d2.inflight_rd_count = d.inflight_rd_count
      /\ d2.observed_aw_count = d.observed_aw_count
      /\ d2.observed_ar_count = d.observed_ar_count
      /\ d2.req_port = d.req_port
  BY <1>1, <1>2 DEF Driver
<1>6. Booked(d2, D \cup {Cmd(x)})
  <2>1. Take(PlacesOf(d), PlacesOf(d2), 4, x)
    <3> DEFINE W == PlacesOf(d)
               V == PlacesOf(d2)
    <3>1. /\ V \in [Slot -> SUBSET Entry]
          /\ V[1] = W[1] /\ V[2] = W[2] /\ V[3] = W[3] /\ V[4] = W[4] \ {x}
          /\ V[5] = W[5] /\ V[6] = W[6]
      BY <1>1, <1>3, <1>4, <1>5, PlacesType, NoEntry
    <3> HIDE DEF W, V
    <3> QED BY <1>1, <3>1, PlacesType DEF Take, W, V
  <2>2. x \in PlacesOf(d)[4] /\ 4 \in Slot BY <1>1, <1>3, PlacesType DEF Slot
  <2>3. /\ Books(PlacesOf(d2), D \cup {Cmd(x)}, Accepted(d),
                 Less(d.inflight_wr_count, 4, x, "WR"),
                 Less(d.inflight_rd_count, 4, x, "RD"))
        /\ Counts(4, x, "WR") => d.inflight_wr_count > 0
    BY <1>3, <2>1, <2>2, TakeBooks DEF DriverInv, Booked
  <2>4. Less(d.inflight_wr_count, 4, x, "WR") = n
    BY <1>1, <1>3, <2>3, DriverFields DEF Less, Counts, n, SatDec, x
  <2>5. Less(d.inflight_rd_count, 4, x, "RD") = d.inflight_rd_count
    BY <1>3 DEF Less, Counts
  <2>6. Accepted(d2) = Accepted(d) BY <1>5 DEF Accepted
  <2> QED BY <1>5, <2>3, <2>4, <2>5, <2>6 DEF Booked
<1>7. Queued(d2) BY <1>5, NoEntry DEF DriverInv, Queued
<1>8. WritesWhole(d2) BY <1>5 DEF DriverInv, WritesWhole
<1>9. ReadsWhole(d2) BY <1>5 DEF DriverInv, ReadsWhole
<1>10. Limited(d2)
  <2>1. Len(d.pending_aw_q) + n <= Len(d.pending_aw_q) + d.inflight_wr_count
    BY <1>1, <1>2, DriverFields
  <2>2. Len(d.pending_aw_q) + n \in Int /\ d.inflight_wr_count \in Int
        /\ Len(d.pending_aw_q) \in Int
    BY <1>1, <1>2, DriverFields
  <2> QED BY <1>1, <1>5, <2>1, <2>2, CfgFacts DEF DriverInv, Limited, Within
<1>11. Easier(d, d2) BY <1>1, <1>2, <1>5, DriverFields DEF Easier
<1> QED BY <1>4, <1>5, <1>6, <1>7, <1>8, <1>9, <1>10, <1>11
        DEF DriverInv, x, d2

load_b(d) ==
  [d EXCEPT !.active_b = <<Head(d.pending_b_q)>>, !.pending_b_q = Tail(@)]

LEMMA LoadB ==
  ASSUME NEW d, NEW D, DriverInv(d, D),
         d.active_b = <<>>, d.pending_b_q # <<>>
  PROVE  /\ DriverInv(load_b(d), D) /\ Easier(d, load_b(d))
         /\ load_b(d).active_r_q = d.active_r_q
         /\ load_b(d).rvalid = d.rvalid
         /\ load_b(d).active_r_beat_idx = d.active_r_beat_idx
<1> DEFINE d2 == load_b(d)
           x == Head(d.pending_b_q)
           q == Tail(d.pending_b_q)
           b == <<x>>
<1>1. d \in Driver BY DEF DriverInv
<1>2. /\ x \in Entry /\ x \in SeqSet(d.pending_b_q) /\ x.op = "WR"
      /\ q \in Seq(Entry) /\ Once(q) /\ SeqSet(q) = SeqSet(d.pending_b_q) \ {x}
      /\ AllOf(q, "WR")
  <2>1. /\ Len(d.pending_b_q) \in Nat \ {0} /\ Len(q) = Len(d.pending_b_q) - 1
        /\ q \in Seq(Entry)
        /\ \A i \in 1 .. Len(d.pending_b_q) - 1 : q[i] = d.pending_b_q[i + 1]
    BY <1>1, DriverFields, QueueTail
  <2>2. \A i \in DOMAIN q :
          i + 1 \in DOMAIN d.pending_b_q /\ q[i] = d.pending_b_q[i + 1]
    BY <1>1, <2>1, DriverFields
  <2>3. AllOf(q, "WR") BY <2>2 DEF DriverInv, Queued, AllOf
  <2> HIDE DEF q
  <2> QED BY <1>1, <2>3, DriverFields, QueueTail
          DEF DriverInv, Queued, AllOf, q
<1>3. b \in Seq(Entry) /\ SeqSet(b) = {x} /\ Len(b) <= 1 /\ AllOf(b, "WR")
  BY <1>2, Single
<1>4. d2 = [d EXCEPT !.active_b = b, !.pending_b_q = q] BY DEF load_b
<1> HIDE DEF b, x, q, d2
<1>5. d2 \in Driver BY <1>1, <1>2, <1>3, <1>4, Zenon DEF Driver
<1>6. /\ d2.active_b = b /\ d2.inflight_wr_count = d.inflight_wr_count
      /\ d2.cfg = d.cfg /\ d2.pending_aw_q = d.pending_aw_q
      /\ d2.pending_b_q = q /\ d2.pending_r_q = d.pending_r_q
      /\ d2.active_r_q = d.active_r_q /\ d2.rvalid = d.rvalid
      /\ d2.active_r_beat_idx = d.active_r_beat_idx
      /\ d2.inflight_rd_count = d.inflight_rd_count
      /\ d2.observed_aw_count = d.observed_aw_count
      /\ d2.observed_ar_count = d.observed_ar_count
      /\ d2.req_port = d.req_port
  BY <1>1, <1>4 DEF Driver
<1>7. Booked(d2, D)
  <2>1. Shift(PlacesOf(d), PlacesOf(d2), 3, x, 4, x)
    <3> DEFINE W == PlacesOf(d)
               V == PlacesOf(d2)
    <3>1. V \in [Slot -> SUBSET Entry] BY <1>5, PlacesType
    <3>2. V[1] = W[1] /\ V[2] = W[2] /\ V[5] = W[5] /\ V[6] = W[6]
      BY <1>1, <1>5, <1>6, PlacesType
    <3>3. V[3] = W[3] \ {x} BY <1>1, <1>2, <1>5, <1>6, PlacesType
    <3>4. V[4] = W[4] \cup {x}
      <4>1. V[4] = {x} BY <1>3, <1>5, <1>6, PlacesType
      <4>2. W[4] = {} BY <1>1, NoEntry, PlacesType
      <4> QED BY <4>1, <4>2
    <3> HIDE DEF W, V
    <3> QED BY <1>1, <3>1, <3>2, <3>3, <3>4, PlacesType DEF Shift, W, V
  <2>2. x \in PlacesOf(d)[3] /\ 3 \in Slot /\ 4 \in Slot /\ SameCmd(x, x)
    BY <1>1, <1>2, PlacesType DEF Slot, SameCmd
  <2>3. Books(PlacesOf(d2), D, Accepted(d),
              More(Less(d.inflight_wr_count, 3, x, "WR"), 4, x, "WR"),
              More(Less(d.inflight_rd_count, 3, x, "RD"), 4, x, "RD"))
    BY <1>2, <2>1, <2>2, ShiftBooks DEF DriverInv, Booked
  <2>4. More(Less(d.inflight_wr_count, 3, x, "WR"), 4, x, "WR")
          = d.inflight_wr_count
        /\ More(Less(d.inflight_rd_count, 3, x, "RD"), 4, x, "RD")
             = d.inflight_rd_count
    BY <1>1, DriverFields DEF Less, More, Counts
  <2>5. Accepted(d2) = Accepted(d) BY <1>6 DEF Accepted
  <2> QED BY <1>6, <2>3, <2>4, <2>5 DEF Booked
<1>8. Queued(d2) BY <1>2, <1>3, <1>6 DEF DriverInv, Queued
<1>9. WritesWhole(d2) BY <1>6 DEF DriverInv, WritesWhole
<1>10. ReadsWhole(d2) BY <1>6 DEF DriverInv, ReadsWhole
<1>11. Limited(d2) BY <1>6 DEF DriverInv, Limited
<1>12. Easier(d, d2) BY <1>1, <1>6, DriverFields DEF Easier
<1> QED BY <1>5, <1>6, <1>7, <1>8, <1>9, <1>10, <1>11, <1>12
        DEF DriverInv, d2

(* advance_write_rsp_channel: what is taken was answered, the next of the  *)
(* queue goes on the bus.                                                  *)
LEMMA WriteResponses ==
  ASSUME NEW d, NEW D, DriverInv(d, D), NEW in
  PROVE  LET d2 == advance_write_rsp_channel(d, in)
             D2 == D \cup (IF BTaken(d, in) THEN {Cmd(d.active_b[1])} ELSE {})
         IN /\ DriverInv(d2, D2) /\ Easier(d, d2)
            /\ d2.active_r_q = d.active_r_q /\ d2.rvalid = d.rvalid
            /\ d2.active_r_beat_idx = d.active_r_beat_idx
<1> DEFINE d1 == IF BTaken(d, in) THEN retire_b(d) ELSE d
           D2 == D \cup (IF BTaken(d, in) THEN {Cmd(d.active_b[1])} ELSE {})
           d2 == advance_write_rsp_channel(d, in)
<1>1. /\ DriverInv(d1, D2) /\ Easier(d, d1)
      /\ d1.active_r_q = d.active_r_q /\ d1.rvalid = d.rvalid
      /\ d1.active_r_beat_idx = d.active_r_beat_idx
  <2>1. CASE BTaken(d, in)
    <3>1. d.active_b # <<>> BY <2>1 DEF BTaken
    <3> QED BY <2>1, <3>1, RetireB
  <2>2. CASE ~BTaken(d, in)
    <3>1. d1 = d /\ D2 = D BY <2>2
    <3>2. Easier(d, d) BY DriverFields DEF Easier, DriverInv
    <3> QED BY <3>1, <3>2
  <2> QED BY <2>1, <2>2
<1>2. d2 = IF /\ d1.active_b = <<>> /\ d1.pending_b_q # <<>>
              /\ BeatDue(Head(d1.pending_b_q), in.bdue)
           THEN [d1 EXCEPT !.active_b = <<Head(d1.pending_b_q)>>,
                           !.pending_b_q = Tail(@)]
           ELSE d1
  BY DEF advance_write_rsp_channel
<1> HIDE DEF d1, D2, d2
<1>3. /\ DriverInv(d2, D2) /\ Easier(d1, d2)
      /\ d2.active_r_q = d1.active_r_q /\ d2.rvalid = d1.rvalid
      /\ d2.active_r_beat_idx = d1.active_r_beat_idx
  <2>1. CASE d2 = d1
    <3>1. Easier(d1, d1) BY <1>1, DriverFields DEF Easier, DriverInv
    <3> QED BY <1>1, <2>1, <3>1
  <2>2. CASE d2 # d1 BY <1>1, <1>2, <2>2, LoadB DEF load_b
  <2> QED BY <2>1, <2>2
<1>4. Easier(d, d2)
  BY <1>1, <1>3, DriverFields DEF Easier, DriverInv
<1> QED BY <1>1, <1>3, <1>4 DEF D2, d2

LEMMA NextBeat ==
  ASSUME NEW d, NEW D, DriverInv(d, D), d.active_r_q # <<>>, ~RLast(d)
  PROVE  /\ DriverInv(retire_r(d), D) /\ Easier(d, retire_r(d))
         /\ retire_r(d).active_r_q = d.active_r_q
         /\ retire_r(d).active_r_beat_idx = d.active_r_beat_idx + 1
<1> DEFINE d2 == retire_r(d)
           n == d.active_r_beat_idx + 1
<1>1. d \in Driver BY DEF DriverInv
<1>2. d2 = [d EXCEPT !.active_r_beat_idx = n] /\ n \in Nat
  BY <1>1, DriverFields DEF retire_r
<1>3. n < d.active_r_q[1].beats
  <2>1. d.active_r_q[1] \in Entry
    BY <1>1, DriverFields, OneEntry DEF DriverInv, Queued
  <2>2. d.active_r_q[1].beats \in Nat BY <2>1 DEF Entry
  <2> QED BY <1>2, <2>2 DEF RLast
<1> HIDE DEF d2, n
<1>4. d2 \in Driver BY <1>1, <1>2, Zenon DEF Driver
<1>5. /\ d2.active_b = d.active_b /\ d2.active_r_beat_idx = n
      /\ d2.cfg = d.cfg /\ d2.pending_aw_q = d.pending_aw_q
      /\ d2.pending_b_q = d.pending_b_q /\ d2.pending_r_q = d.pending_r_q
      /\ d2.active_r_q = d.active_r_q
      /\ d2.inflight_wr_count = d.inflight_wr_count
      /\ d2.inflight_rd_count = d.inflight_rd_count
      /\ d2.observed_aw_count = d.observed_aw_count
      /\ d2.observed_ar_count = d.observed_ar_count
      /\ d2.req_port = d.req_port
  BY <1>1, <1>2 DEF Driver
<1>6. Booked(d2, D) BY <1>5 DEF DriverInv, Booked, PlacesOf, Accepted
<1>7. Queued(d2) BY <1>5 DEF DriverInv, Queued
<1>8. WritesWhole(d2) BY <1>5 DEF DriverInv, WritesWhole
<1>9. ReadsWhole(d2) BY <1>3, <1>5 DEF ReadsWhole
<1>10. Limited(d2) BY <1>5 DEF DriverInv, Limited
<1>11. Easier(d, d2) BY <1>1, <1>5, DriverFields DEF Easier
<1> QED BY <1>4, <1>5, <1>6, <1>7, <1>8, <1>9, <1>10, <1>11
        DEF DriverInv, d2, n

LEMMA RetireR ==
  ASSUME NEW d, NEW D, DriverInv(d, D), d.active_r_q # <<>>, RLast(d)
  PROVE  /\ DriverInv(retire_r(d), D \cup {Cmd(d.active_r_q[1])})
         /\ Easier(d, retire_r(d)) /\ retire_r(d).active_r_q = <<>>
<1> DEFINE x == d.active_r_q[1]
           n == IF x.pre THEN d.inflight_rd_count
                ELSE SatDec(d.inflight_rd_count)
           d2 == retire_r(d)
<1>1. d \in Driver BY DEF DriverInv
<1>2. /\ d2 = [d EXCEPT !.active_r_q = <<>>, !.active_r_beat_idx = 0,
                        !.inflight_rd_count = n]
      /\ n \in Nat /\ n <= d.inflight_rd_count
  BY <1>1, DriverFields DEF retire_r, SatDec
<1>3. /\ x \in Entry /\ SeqSet(d.active_r_q) = {x} /\ x.op = "RD"
  BY <1>1, DriverFields, OneEntry DEF DriverInv, Queued, AllOf
<1> HIDE DEF n, x, d2
<1>4. d2 \in Driver BY <1>1, <1>2, NoEntry, Zenon DEF Driver
<1>5. /\ d2.active_r_q = <<>> /\ d2.inflight_rd_count = n
      /\ d2.cfg = d.cfg /\ d2.pending_aw_q = d.pending_aw_q
      /\ d2.pending_r_q = d.pending_r_q /\ d2.pending_b_q = d.pending_b_q
      /\ d2.active_b = d.active_b /\ d2.rvalid = d.rvalid
      /\ d2.active_r_beat_idx = 0
      /\ d2.inflight_wr_count = d.inflight_wr_count
      /\ d2.observed_aw_count = d.observed_aw_count
      /\ d2.observed_ar_count = d.observed_ar_count
      /\ d2.req_port = d.req_port
  BY <1>1, <1>2 DEF Driver
<1>6. Booked(d2, D \cup {Cmd(x)})
  <2>1. Take(PlacesOf(d), PlacesOf(d2), 6, x)
    <3> DEFINE W == PlacesOf(d)
               V == PlacesOf(d2)
    <3>1. /\ V \in [Slot -> SUBSET Entry]
          /\ V[1] = W[1] /\ V[2] = W[2] /\ V[3] = W[3] /\ V[4] = W[4]
          /\ V[5] = W[5] /\ V[6] = W[6] \ {x}
      BY <1>1, <1>3, <1>4, <1>5, PlacesType, NoEntry
    <3> HIDE DEF W, V
    <3> QED BY <1>1, <3>1, PlacesType DEF Take, W, V
  <2>2. x \in PlacesOf(d)[6] /\ 6 \in Slot BY <1>1, <1>3, PlacesType DEF Slot
  <2>3. /\ Books(PlacesOf(d2), D \cup {Cmd(x)}, Accepted(d),
                 Less(d.inflight_wr_count, 6, x, "WR"),
                 Less(d.inflight_rd_count, 6, x, "RD"))
        /\ Counts(6, x, "RD") => d.inflight_rd_count > 0
    BY <1>3, <2>1, <2>2, TakeBooks DEF DriverInv, Booked
  <2>4. Less(d.inflight_rd_count, 6, x, "RD") = n
    BY <1>1, <1>3, <2>3, DriverFields DEF Less, Counts, n, SatDec, x
  <2>5. Less(d.inflight_wr_count, 6, x, "WR") = d.inflight_wr_count
    BY <1>3 DEF Less, Counts
  <2>6. Accepted(d2) = Accepted(d) BY <1>5 DEF Accepted
  <2> QED BY <1>5, <2>3, <2>4, <2>5, <2>6 DEF Booked
<1>7. Queued(d2) BY <1>5, NoEntry DEF DriverInv, Queued
<1>8. WritesWhole(d2) BY <1>5 DEF DriverInv, WritesWhole
<1>9. ReadsWhole(d2) BY <1>5 DEF DriverInv, ReadsWhole
<1>10. Limited(d2)
  BY <1>1, <1>2, <1>5, CfgFacts, DriverFields DEF DriverInv, Limited, Within
<1>11. Easier(d, d2) BY <1>1, <1>2, <1>5, DriverFields DEF Easier
<1> QED BY <1>4, <1>5, <1>6, <1>7, <1>8, <1>9, <1>10, <1>11
        DEF DriverInv, x, d2

load_r(d) ==
  [d EXCEPT !.active_r_q = <<Head(d.pending_r_q)>>, !.pending_r_q = Tail(@)]

LEMMA LoadR ==
  ASSUME NEW d, NEW D, DriverInv(d, D),
         d.active_r_q = <<>>, d.pending_r_q # <<>>
  PROVE  /\ DriverInv(load_r(d), D) /\ Easier(d, load_r(d))
         /\ load_r(d).active_b = d.active_b
         /\ load_r(d).rvalid = d.rvalid
         /\ load_r(d).active_r_beat_idx = d.active_r_beat_idx
<1> DEFINE d2 == load_r(d)
           x == Head(d.pending_r_q)
           q == Tail(d.pending_r_q)
           b == <<x>>
<1>1. d \in Driver BY DEF DriverInv
<1>2. /\ x \in Entry /\ x \in SeqSet(d.pending_r_q) /\ x.op = "RD"
      /\ q \in Seq(Entry) /\ Once(q) /\ SeqSet(q) = SeqSet(d.pending_r_q) \ {x}
      /\ AllOf(q, "RD")
  <2>1. /\ Len(d.pending_r_q) \in Nat \ {0} /\ Len(q) = Len(d.pending_r_q) - 1
        /\ q \in Seq(Entry)
        /\ \A i \in 1 .. Len(d.pending_r_q) - 1 : q[i] = d.pending_r_q[i + 1]
    BY <1>1, DriverFields, QueueTail
  <2>2. \A i \in DOMAIN q :
          i + 1 \in DOMAIN d.pending_r_q /\ q[i] = d.pending_r_q[i + 1]
    BY <1>1, <2>1, DriverFields
  <2>3. AllOf(q, "RD") BY <2>2 DEF DriverInv, Queued, AllOf
  <2> HIDE DEF q
  <2> QED BY <1>1, <2>3, DriverFields, QueueTail
          DEF DriverInv, Queued, AllOf, q
<1>3. b \in Seq(Entry) /\ SeqSet(b) = {x} /\ Len(b) <= 1 /\ AllOf(b, "RD")
      /\ b[1] = x
  BY <1>2, Single
<1>4. d2 = [d EXCEPT !.active_r_q = b, !.pending_r_q = q] BY DEF load_r
<1> HIDE DEF b, x, q, d2
<1>5. d2 \in Driver BY <1>1, <1>2, <1>3, <1>4, Zenon DEF Driver
<1>6. /\ d2.active_r_q = b /\ d2.inflight_wr_count = d.inflight_wr_count
      /\ d2.cfg = d.cfg /\ d2.pending_aw_q = d.pending_aw_q
      /\ d2.pending_r_q = q /\ d2.pending_b_q = d.pending_b_q
      /\ d2.active_b = d.active_b /\ d2.rvalid = d.rvalid
      /\ d2.active_r_beat_idx = d.active_r_beat_idx
      /\ d2.inflight_rd_count = d.inflight_rd_count
      /\ d2.observed_aw_count = d.observed_aw_count
      /\ d2.observed_ar_count = d.observed_ar_count
      /\ d2.req_port = d.req_port
  BY <1>1, <1>4 DEF Driver
<1>7. Booked(d2, D)
  <2>1. Shift(PlacesOf(d), PlacesOf(d2), 5, x, 6, x)
    <3> DEFINE W == PlacesOf(d)
               V == PlacesOf(d2)
    <3>1. V \in [Slot -> SUBSET Entry] BY <1>5, PlacesType
    <3>2. V[1] = W[1] /\ V[2] = W[2] /\ V[3] = W[3] /\ V[4] = W[4]
      BY <1>1, <1>5, <1>6, PlacesType
    <3>3. V[5] = W[5] \ {x} BY <1>1, <1>2, <1>5, <1>6, PlacesType
    <3>4. V[6] = W[6] \cup {x}
      <4>1. V[6] = {x} BY <1>3, <1>5, <1>6, PlacesType
      <4>2. W[6] = {} BY <1>1, NoEntry, PlacesType
      <4> QED BY <4>1, <4>2
    <3> HIDE DEF W, V
    <3> QED BY <1>1, <3>1, <3>2, <3>3, <3>4, PlacesType DEF Shift, W, V
  <2>2. x \in PlacesOf(d)[5] /\ 5 \in Slot /\ 6 \in Slot /\ SameCmd(x, x)
    BY <1>1, <1>2, PlacesType DEF Slot, SameCmd
  <2>3. Books(PlacesOf(d2), D, Accepted(d),
              More(Less(d.inflight_wr_count, 5, x, "WR"), 6, x, "WR"),
              More(Less(d.inflight_rd_count, 5, x, "RD"), 6, x, "RD"))
    BY <1>2, <2>1, <2>2, ShiftBooks DEF DriverInv, Booked
  <2>4. More(Less(d.inflight_wr_count, 5, x, "WR"), 6, x, "WR")
          = d.inflight_wr_count
        /\ More(Less(d.inflight_rd_count, 5, x, "RD"), 6, x, "RD")
             = d.inflight_rd_count
    BY <1>1, DriverFields DEF Less, More, Counts
  <2>5. Accepted(d2) = Accepted(d) BY <1>6 DEF Accepted
  <2> QED BY <1>6, <2>3, <2>4, <2>5 DEF Booked
<1>8. Queued(d2) BY <1>2, <1>3, <1>6 DEF DriverInv, Queued
<1>9. WritesWhole(d2) BY <1>6 DEF DriverInv, WritesWhole
<1>10. ReadsWhole(d2)
  <2>1. d2.active_r_beat_idx = 0 BY <1>6 DEF DriverInv, ReadsWhole
  <2>2. 0 < x.beats BY <1>2 DEF Entry
  <2> QED BY <1>3, <1>6, <2>1, <2>2 DEF ReadsWhole
<1>11. Limited(d2) BY <1>6 DEF DriverInv, Limited
<1>12. Easier(d, d2) BY <1>1, <1>6, DriverFields DEF Easier
<1> QED BY <1>5, <1>6, <1>7, <1>8, <1>9, <1>10, <1>11, <1>12
        DEF DriverInv, d2

(* The outputs and the data buffer model are not part of the invariant.    *)
LEMMA OutputsFree ==
  ASSUME NEW d, NEW D, DriverInv(d, D), NEW d2 \in Driver,
         d2.cfg = d.cfg, d2.pending_aw_q = d.pending_aw_q,
         d2.pending_b_q = d.pending_b_q, d2.pending_r_q = d.pending_r_q,
         d2.active_b = d.active_b, d2.active_r_q = d.active_r_q,
         d2.active_r_beat_idx = d.active_r_beat_idx,
         d2.inflight_wr_count = d.inflight_wr_count,
         d2.inflight_rd_count = d.inflight_rd_count,
         d2.observed_aw_count = d.observed_aw_count,
         d2.observed_ar_count = d.observed_ar_count,
         d2.req_port = d.req_port
  PROVE  DriverInv(d2, D)
<1>1. Booked(d2, D) BY DEF DriverInv, Booked, PlacesOf, Accepted
<1>2. Queued(d2) BY DEF DriverInv, Queued
<1>3. WritesWhole(d2) BY DEF DriverInv, WritesWhole
<1>4. ReadsWhole(d2) BY DEF DriverInv, ReadsWhole
<1>5. Limited(d2) BY DEF DriverInv, Limited
<1> QED BY <1>1, <1>2, <1>3, <1>4, <1>5 DEF DriverInv

(* advance_read_rsp_channel: a beat stays until it is taken, then the next *)
(* one of the burst follows, and the burst is answered with its last.      *)
LEMMA ReadResponses ==
  ASSUME NEW d, NEW D, DriverInv(d, D), NEW in,
         d.rvalid => d.active_r_q # <<>>
  PROVE  LET d2 == advance_read_rsp_channel(d, in)
             D2 == D \cup (IF RBurstTaken(d, in)
                           THEN {Cmd(d.active_r_q[1])} ELSE {})
         IN /\ DriverInv(d2, D2) /\ Easier(d, d2)
            /\ d2.rvalid => d2.active_r_q # <<>>
            /\ d.rvalid /\ ~in.rready => d2 = d
            /\ d.rvalid /\ in.rready /\ ~RLast(d) =>
                 /\ d2.active_r_q = d.active_r_q
                 /\ d2.active_r_beat_idx = d.active_r_beat_idx + 1
<1> DEFINE r == IF RTaken(d, in) THEN retire_r(d) ELSE d
           f == fill_active_r_streams(r)
           v == f.active_r_q # <<>> /\ BeatDue(f.active_r_q[1], in.rdue)
           D2 == D \cup (IF RBurstTaken(d, in)
                         THEN {Cmd(d.active_r_q[1])} ELSE {})
           d2 == advance_read_rsp_channel(d, in)
<1>1. Easier(d, d) BY DriverFields DEF Easier, DriverInv
<1>2. CASE d.rvalid /\ ~in.rready
  <2>1. d2 = d BY <1>2 DEF advance_read_rsp_channel
  <2>2. D2 = D BY <1>2 DEF RBurstTaken, RTaken
  <2> QED BY <1>1, <1>2, <2>1, <2>2
<1>3. CASE ~(d.rvalid /\ ~in.rready)
  <2>1. d2 = [f EXCEPT !.rvalid = v] BY <1>3 DEF advance_read_rsp_channel
  <2>2. /\ DriverInv(r, D2) /\ Easier(d, r)
        /\ d.rvalid /\ in.rready /\ ~RLast(d) =>
             /\ r.active_r_q = d.active_r_q /\ r.active_r_q # <<>>
             /\ r.active_r_beat_idx = d.active_r_beat_idx + 1
    <3>1. CASE RTaken(d, in) /\ RLast(d)
      <4>1. d.active_r_q # <<>> BY <3>1 DEF RTaken
      <4>2. r = retire_r(d) /\ D2 = D \cup {Cmd(d.active_r_q[1])}
        BY <3>1 DEF RBurstTaken
      <4> QED BY <3>1, <4>1, <4>2, RetireR
    <3>2. CASE RTaken(d, in) /\ ~RLast(d)
      <4>1. d.active_r_q # <<>> BY <3>2 DEF RTaken
      <4>2. r = retire_r(d) /\ D2 = D
        BY <3>2 DEF RBurstTaken
      <4> QED BY <3>2, <4>1, <4>2, NextBeat
    <3>3. CASE ~RTaken(d, in)
      <4>1. r = d /\ D2 = D BY <3>3 DEF RBurstTaken
      <4> QED BY <1>1, <3>3, <4>1 DEF RTaken
    <3> QED BY <3>1, <3>2, <3>3
  <2>3. /\ DriverInv(f, D2) /\ Easier(r, f)
        /\ r.active_r_q # <<>> => f = r
    <3>1. CASE r.active_r_q # <<>> \/ r.pending_r_q = <<>>
      <4>1. f = r BY <3>1 DEF fill_active_r_streams
      <4>2. Easier(r, r) BY <2>2, DriverFields DEF Easier, DriverInv
      <4> QED BY <2>2, <4>1, <4>2
    <3>2. CASE r.active_r_q = <<>> /\ r.pending_r_q # <<>>
      <4>1. f = load_r(r) BY <3>2 DEF fill_active_r_streams, load_r
      <4> QED BY <2>2, <3>2, <4>1, LoadR
    <3> QED BY <3>1, <3>2
  <2>4. v \in BOOLEAN /\ (v => f.active_r_q # <<>>) OBVIOUS
  <2> HIDE DEF r, f, v, D2, d2
  <2>5. f \in Driver BY <2>3 DEF DriverInv
  <2>6. d2 \in Driver BY <2>1, <2>4, <2>5, Zenon DEF Driver
  <2>7. /\ d2.rvalid = v
        /\ d2.cfg = f.cfg /\ d2.pending_aw_q = f.pending_aw_q
        /\ d2.pending_b_q = f.pending_b_q /\ d2.pending_r_q = f.pending_r_q
        /\ d2.active_b = f.active_b /\ d2.active_r_q = f.active_r_q
        /\ d2.active_r_beat_idx = f.active_r_beat_idx
        /\ d2.inflight_wr_count = f.inflight_wr_count
        /\ d2.inflight_rd_count = f.inflight_rd_count
        /\ d2.observed_aw_count = f.observed_aw_count
        /\ d2.observed_ar_count = f.observed_ar_count
        /\ d2.req_port = f.req_port
    BY <2>1, <2>5 DEF Driver
  <2>8. DriverInv(d2, D2) BY <2>3, <2>6, <2>7, OutputsFree
  <2>9. Easier(d, d2)
    <3>1. d \in Driver /\ r \in Driver BY <2>2 DEF DriverInv
    <3>2. /\ d.inflight_wr_count \in Nat /\ r.inflight_wr_count \in Nat
          /\ f.inflight_wr_count \in Nat
          /\ d.inflight_rd_count \in Nat /\ r.inflight_rd_count \in Nat
          /\ f.inflight_rd_count \in Nat
      BY <2>5, <3>1, DriverFields
    <3>3. Easier(d, f) BY <2>2, <2>3, <3>2 DEF Easier
    <3> QED BY <2>7, <3>3 DEF Easier
  <2>10. /\ d2.rvalid => d2.active_r_q # <<>>
         /\ d.rvalid /\ in.rready /\ ~RLast(d) =>
              /\ d2.active_r_q = d.active_r_q
              /\ d2.active_r_beat_idx = d.active_r_beat_idx + 1
    BY <2>2, <2>3, <2>4, <2>7
  <2> QED BY <1>3, <2>8, <2>9, <2>10 DEF D2, d2
<1> QED BY <1>2, <1>3

(***************************************************************************)
(* Queueing and sending                                                    *)
(***************************************************************************)

LEMMA Registers ==
  ASSUME NEW d \in Driver, NEW e \in Entry
  PROVE  \A d2 \in {register_exclusive_reservation(d, e),
                    check_and_clear_exclusive_reservation(d, e),
                    invalidate_exclusive_reservations(d, e)} :
           \E R \in SUBSET Held : d2 = [d EXCEPT !.exclusive_reservations = R]
<1>1. d.exclusive_reservations \in SUBSET Held BY DriverFields
<1>2. Reservation(e) \in Held BY DEF Reservation, Held, Entry
<1> DEFINE r == d.exclusive_reservations
<1>3. {s \in r : ~SameKey(s, e)} \cup {Reservation(e)} \in SUBSET Held
  BY <1>1, <1>2
<1>4. {s \in r : ~SameKey(s, e)} \in SUBSET Held BY <1>1
<1>5. {s \in r : ~ranges_overlap(s, e)} \in SUBSET Held BY <1>1
<1> QED BY <1>3, <1>4, <1>5 DEF register_exclusive_reservation,
          check_and_clear_exclusive_reservation,
          invalidate_exclusive_reservations

(* The bus side is the same; nothing but the reservations differs.         *)
SameBus(d, d2) ==
  /\ d2.cfg = d.cfg /\ d2.active_b = d.active_b
  /\ d2.active_r_q = d.active_r_q
  /\ d2.active_r_beat_idx = d.active_r_beat_idx /\ d2.rvalid = d.rvalid
  /\ d2.observed_aw_count = d.observed_aw_count
  /\ d2.observed_ar_count = d.observed_ar_count
  /\ d2.awready = d.awready /\ d2.wready = d.wready /\ d2.arready = d.arready

SameCounts(d, d2) ==
  /\ d2.inflight_wr_count = d.inflight_wr_count
  /\ d2.inflight_rd_count = d.inflight_rd_count
  /\ d2.req_port = d.req_port

SameQueues(d, d2) ==
  d2.pending_b_q = d.pending_b_q /\ d2.pending_r_q = d.pending_r_q

Alike(d, d2) ==
  /\ SameBus(d, d2) /\ SameCounts(d, d2) /\ SameQueues(d, d2)
  /\ d2.pending_aw_q = d.pending_aw_q

LEMMA ReservationsFree ==
  ASSUME NEW d \in Driver, NEW R \in SUBSET Held,
         NEW d2, d2 = [d EXCEPT !.exclusive_reservations = R]
  PROVE  d2 \in Driver /\ Alike(d, d2)
<1>1. d2 \in Driver BY Zenon DEF Driver
<1>2. Alike(d, d2) BY DEF Driver, Alike, SameBus, SameCounts, SameQueues
<1> QED BY <1>1, <1>2

(* complete appends to the queue of the entry's direction.                 *)
LEMMA Completes ==
  ASSUME NEW d \in Driver, NEW e \in Entry
  PROVE  LET d2 == complete(d, e)
         IN /\ d2 \in Driver /\ SameBus(d, d2) /\ SameCounts(d, d2)
            /\ d2.pending_aw_q = d.pending_aw_q
            /\ d2.pending_r_q = IF e.op = "RD" THEN Append(d.pending_r_q, e)
                                ELSE d.pending_r_q
            /\ d2.pending_b_q = IF e.op = "WR" THEN Append(d.pending_b_q, e)
                                ELSE d.pending_b_q
<1> DEFINE d1 == IF e.op = "RD" /\ e.excl /\ ~e.pre
                 THEN register_exclusive_reservation(d, e) ELSE d
           d2 == complete(d, e)
<1>1. d1 \in Driver /\ Alike(d, d1)
  <2>1. Alike(d, d) BY DEF Alike, SameBus, SameCounts, SameQueues
  <2>2. /\ register_exclusive_reservation(d, e) \in Driver
        /\ Alike(d, register_exclusive_reservation(d, e))
    BY Registers, ReservationsFree
  <2> QED BY <2>1, <2>2
<1>2. e.op = "RD" \/ e.op = "WR" BY DEF Entry, Op
<1>3. CASE e.op = "RD"
  <2> DEFINE q == Append(d1.pending_r_q, e)
  <2>1. d2 = [d1 EXCEPT !.pending_r_q = q] BY <1>3 DEF complete
  <2>2. q \in Seq(Entry) BY <1>1, DriverFields, QueueAppend
  <2> HIDE DEF d1, d2, q
  <2>3. d2 \in Driver BY <1>1, <2>1, <2>2, Zenon DEF Driver
  <2>4. /\ d2.pending_r_q = q /\ d2.pending_b_q = d1.pending_b_q
        /\ SameBus(d1, d2) /\ SameCounts(d1, d2)
        /\ d2.pending_aw_q = d1.pending_aw_q
    BY <1>1, <2>1 DEF Driver, SameBus, SameCounts
  <2> QED BY <1>1, <1>3, <2>3, <2>4
          DEF d2, q, Alike, SameBus, SameCounts, SameQueues
<1>4. CASE e.op = "WR"
  <2> DEFINE q == Append(d1.pending_b_q, e)
  <2>1. d2 = [d1 EXCEPT !.pending_b_q = q] BY <1>4 DEF complete
  <2>2. q \in Seq(Entry) BY <1>1, DriverFields, QueueAppend
  <2> HIDE DEF d1, d2, q
  <2>3. d2 \in Driver BY <1>1, <2>1, <2>2, Zenon DEF Driver
  <2>4. /\ d2.pending_b_q = q /\ d2.pending_r_q = d1.pending_r_q
        /\ SameBus(d1, d2) /\ SameCounts(d1, d2)
        /\ d2.pending_aw_q = d1.pending_aw_q
    BY <1>1, <2>1 DEF Driver, SameBus, SameCounts
  <2> QED BY <1>1, <1>4, <2>3, <2>4
          DEF d2, q, Alike, SameBus, SameCounts, SameQueues
<1> QED BY <1>2, <1>3, <1>4

(* issue_request counts the entry and sends it.                            *)
LEMMA Issues ==
  ASSUME NEW d \in Driver, NEW e \in Entry
  PROVE  LET d2 == issue_request(d, e)
         IN /\ d2 \in Driver /\ SameBus(d, d2) /\ SameQueues(d, d2)
            /\ d2.pending_aw_q = d.pending_aw_q
            /\ d2.req_port = d.req_port \cup {e}
            /\ d2.inflight_rd_count =
                 IF e.op = "RD" THEN d.inflight_rd_count + 1
                 ELSE d.inflight_rd_count
            /\ d2.inflight_wr_count =
                 IF e.op = "WR" THEN d.inflight_wr_count + 1
                 ELSE d.inflight_wr_count
<1> DEFINE d2 == issue_request(d, e)
           P == d.req_port \cup {e}
<1>1. P \in SUBSET Entry BY DriverFields
<1>2. e.op = "RD" \/ e.op = "WR" BY DEF Entry, Op
<1>3. CASE e.op = "RD"
  <2> DEFINE n == d.inflight_rd_count + 1
  <2>0. n \in Nat BY DriverFields
  <2>1. d2 = [d EXCEPT !.inflight_rd_count = n, !.req_port = P]
    BY <1>3 DEF issue_request
  <2> HIDE DEF d2, P, n
  <2>2. d2 \in Driver BY <1>1, <2>0, <2>1, Zenon DEF Driver
  <2>3. /\ d2.inflight_rd_count = n /\ d2.req_port = P
        /\ d2.inflight_wr_count = d.inflight_wr_count
        /\ d2.pending_aw_q = d.pending_aw_q
        /\ SameBus(d, d2) /\ SameQueues(d, d2)
    BY <2>1 DEF Driver, SameBus, SameQueues
  <2> QED BY <1>3, <2>2, <2>3 DEF d2, P, n
<1>4. CASE e.op = "WR"
  <2> DEFINE n == d.inflight_wr_count + 1
  <2>0. n \in Nat BY DriverFields
  <2>1. d2 = [d EXCEPT !.inflight_wr_count = n, !.req_port = P]
    BY <1>4 DEF issue_request
  <2> HIDE DEF d2, P, n
  <2>2. d2 \in Driver BY <1>1, <2>0, <2>1, Zenon DEF Driver
  <2>3. /\ d2.inflight_wr_count = n /\ d2.req_port = P
        /\ d2.inflight_rd_count = d.inflight_rd_count
        /\ d2.pending_aw_q = d.pending_aw_q
        /\ SameBus(d, d2) /\ SameQueues(d, d2)
    BY <2>1 DEF Driver, SameBus, SameQueues
  <2> QED BY <1>4, <2>2, <2>3 DEF d2, P, n
<1> QED BY <1>2, <1>3, <1>4

(***************************************************************************)
(* The address and data channels                                           *)
(***************************************************************************)

LEMMA Built ==
  ASSUME NEW k \in Kind, NEW n \in Nat \ {0}
  PROVE  LET e == build_addr_entry(k, n)
         IN /\ e \in Entry /\ e.op = k.op /\ e.num = n /\ e.captured = 0
            /\ e.pre <=> k.resp # "OKAY"
  BY Axi4Assumption DEF build_addr_entry, Entry, Op

(* A new command is in no place yet.                                       *)
LEMMA Unseen ==
  ASSUME NEW d, NEW D, DriverInv(d, D), NEW e \in Entry,
         e.num = Accepted(d)[e.op] + 1
  PROVE  \A k \in Slot : e \notin PlacesOf(d)[k]
<1>1. e.op \in Op /\ Accepted(d)[e.op] \in Nat /\ e.num \in Nat
      /\ e.num \notin 1 .. Accepted(d)[e.op]
  BY DEF Entry, DriverInv, Booked, Books, Ledger
<1>2. ~InSlot(PlacesOf(d), e.op, e.num)
  BY <1>1 DEF DriverInv, Booked, Books, Ledger, Accounted
<1> QED BY <1>2 DEF InSlot

LEMMA CaptureAw ==
  ASSUME NEW d, NEW D, DriverInv(d, D), AwRoom(d),
         NEW k \in Kind, k.op = "WR"
  PROVE  LET d2 == capture_aw(d, k)
         IN /\ DriverInv(d2, D)
            /\ d2.cfg = d.cfg /\ d2.rvalid = d.rvalid
            /\ d2.active_r_q = d.active_r_q
            /\ d2.active_r_beat_idx = d.active_r_beat_idx
            /\ d2.inflight_rd_count = d.inflight_rd_count
            /\ d2.pending_aw_q # <<>>
            /\ d.pending_aw_q # <<>> =>
                 Head(d2.pending_aw_q) = Head(d.pending_aw_q)
<1> DEFINE d2 == capture_aw(d, k)
           n == d.observed_aw_count + 1
           e == build_addr_entry(k, n)
           p == d.pending_aw_q
           q == Append(p, e)
<1>1. d \in Driver BY DEF DriverInv
<1>2. n \in Nat \ {0} /\ p \in Seq(Entry) /\ Len(p) \in Nat
  BY <1>1, DriverFields
<1>3. e \in Entry /\ e.op = "WR" /\ e.num = n /\ e.captured = 0
  BY <1>2, Built
<1>4. e.num = Accepted(d)[e.op] + 1 BY <1>3 DEF Accepted, Op
<1>5. k # None BY DEF None
<1>6. d2 = [d EXCEPT !.observed_aw_count = n, !.pending_aw_q = q]
  BY <1>5 DEF capture_aw
<1> HIDE DEF d2, n, e, p
<1>7. e \notin SeqSet(p)
  BY <1>1, <1>3, <1>4, Unseen, PlacesType DEF Slot, p
<1>8. /\ q \in Seq(Entry) /\ SeqSet(q) = SeqSet(p) \cup {e}
      /\ Len(q) = Len(p) + 1
      /\ \A i \in 1 .. Len(p) : q[i] = p[i]
      /\ q[Len(p) + 1] = e /\ Once(q)
      /\ DOMAIN p = 1 .. Len(p) /\ DOMAIN q = 1 .. Len(p) + 1
      /\ q # <<>> /\ (p # <<>> => Head(q) = Head(p))
  BY <1>2, <1>3, <1>7, QueueAppend DEF DriverInv, Queued, p
<1> HIDE DEF q
<1>9. d2 \in Driver BY <1>1, <1>2, <1>6, <1>8, Zenon DEF Driver
<1>10. /\ d2.pending_aw_q = q /\ d2.observed_aw_count = n
       /\ d2.cfg = d.cfg /\ d2.rvalid = d.rvalid
       /\ d2.active_b = d.active_b /\ d2.active_r_q = d.active_r_q
       /\ d2.active_r_beat_idx = d.active_r_beat_idx
       /\ d2.observed_ar_count = d.observed_ar_count
       /\ SameCounts(d, d2) /\ SameQueues(d, d2)
  BY <1>1, <1>6 DEF Driver, SameCounts, SameQueues
<1>11. \A i \in DOMAIN q : i \in 1 .. Len(p) \/ i = Len(p) + 1
  BY <1>2, <1>8
<1>12. Booked(d2, D)
  <2>1. Put(PlacesOf(d), PlacesOf(d2), 1, e)
    <3> DEFINE W == PlacesOf(d)
               V == PlacesOf(d2)
    <3>1. V \in [Slot -> SUBSET Entry] BY <1>9, PlacesType
    <3>2. /\ V[2] = W[2] /\ V[3] = W[3] /\ V[4] = W[4] /\ V[5] = W[5]
          /\ V[6] = W[6]
      BY <1>1, <1>9, <1>10, PlacesType DEF SameCounts, SameQueues
    <3>3. V[1] = W[1] \cup {e} BY <1>1, <1>8, <1>9, <1>10, PlacesType DEF p
    <3> HIDE DEF W, V
    <3> QED BY <1>1, <3>1, <3>2, <3>3, PlacesType DEF Put, W, V
  <2>2. Books(PlacesOf(d2), D, [Accepted(d) EXCEPT ![e.op] = @ + 1],
              More(d.inflight_wr_count, 1, e, "WR"),
              More(d.inflight_rd_count, 1, e, "RD"))
    BY <1>3, <1>4, <2>1, PutBooks DEF DriverInv, Booked, Slot
  <2>3. More(d.inflight_wr_count, 1, e, "WR") = d.inflight_wr_count
        /\ More(d.inflight_rd_count, 1, e, "RD") = d.inflight_rd_count
    BY DEF More, Counts
  <2>4. Accepted(d2) = [Accepted(d) EXCEPT ![e.op] = @ + 1]
    BY <1>3, <1>10 DEF Accepted, Op, n
  <2> QED BY <1>10, <2>2, <2>3, <2>4 DEF Booked, SameCounts
<1>13. Queued(d2)
  <2>1. AllOf(q, "WR") BY <1>3, <1>8, <1>11 DEF DriverInv, Queued, AllOf, p
  <2> QED BY <1>8, <1>10, <2>1 DEF DriverInv, Queued, SameQueues
<1>14. WritesWhole(d2)
  <2>1. \A i \in 2 .. Len(q) : q[i].captured = 0
    <3> SUFFICES ASSUME NEW i \in 2 .. Len(q) PROVE q[i].captured = 0
      OBVIOUS
    <3>1. i \in 2 .. Len(p) \/ i = Len(p) + 1 BY <1>2, <1>8
    <3>2. CASE i \in 2 .. Len(p)
      <4>1. i \in 1 .. Len(p) BY <3>2
      <4> QED BY <1>8, <3>2, <4>1 DEF DriverInv, WritesWhole, p
    <3> QED BY <1>3, <1>8, <3>1, <3>2
  <2>2. \A i \in DOMAIN q : q[i].pre \/ q[i].captured < q[i].beats
    <3>1. 0 < e.beats BY <1>3 DEF Entry
    <3> QED BY <1>3, <1>8, <1>11, <3>1 DEF DriverInv, WritesWhole, p
  <2> QED BY <1>10, <2>1, <2>2 DEF DriverInv, WritesWhole, SameCounts
<1>15. ReadsWhole(d2) BY <1>10 DEF DriverInv, ReadsWhole
<1>16. Limited(d2)
  <2>1. /\ d.cfg.aw_outstanding_limit \in Int /\ d.cfg.aw_pending_depth \in Int
        /\ d.inflight_wr_count \in Nat
    BY <1>1, CfgFacts, DriverFields
  <2> QED BY <1>2, <1>8, <1>10, <2>1
          DEF DriverInv, Limited, Within, AwRoom, limit_allows, SameCounts, p
<1> QED BY <1>8, <1>9, <1>10, <1>12, <1>13, <1>14, <1>15, <1>16
        DEF DriverInv, SameCounts, d2, p

LEMMA BeatFacts ==
  ASSUME NEW h \in Entry, NEW last \in BOOLEAN
  PROVE  LET e == WithBeat(h, last)
         IN /\ e \in Entry /\ SameCmd(h, e) /\ e.op = h.op
            /\ h.pre => e.pre
            /\ last /\ h.captured < h.beats /\ ~e.pre => e.captured = e.beats
            /\ ~last /\ h.captured < h.beats =>
                 e.pre \/ e.captured < e.beats
<1> DEFINE n == h.captured + 1
           short == last /\ n < h.beats
           wrong == short \/ (~last /\ n = h.beats)
           b == IF short THEN n ELSE h.beats
           pre == h.pre \/ wrong
           r == IF wrong THEN "SLVERR" ELSE h.resp
           e == WithBeat(h, last)
<1>1. /\ h.captured \in Nat /\ h.beats \in Nat \ {0} /\ h.pre \in BOOLEAN
      /\ h.resp \in {"OKAY", "SLVERR", "DECERR", "EXOKAY"}
  BY DEF Entry
<1>2. /\ n \in Nat \ {0} /\ b \in Nat \ {0} /\ pre \in BOOLEAN
      /\ r \in {"OKAY", "SLVERR", "DECERR", "EXOKAY"}
  BY <1>1
<1>3. e = [h EXCEPT !.captured = n, !.beats = b, !.pre = pre, !.resp = r]
  BY DEF WithBeat
<1>4. /\ h.pre => pre
      /\ last /\ h.captured < h.beats /\ ~pre => n = b
      /\ ~last /\ h.captured < h.beats => pre \/ n < b
  BY <1>1
<1> HIDE DEF n, b, pre, r, e, wrong, short
<1>5. e \in Entry BY <1>2, <1>3, Zenon DEF Entry
<1>6. /\ e.op = h.op /\ e.num = h.num /\ e.captured = n /\ e.beats = b
      /\ e.pre = pre
  BY <1>3 DEF Entry
<1> QED BY <1>4, <1>5, <1>6 DEF SameCmd, e

(* The oldest address and its entry after a beat.                          *)
LEMMA HeadFacts ==
  ASSUME NEW d, NEW D, DriverInv(d, D), d.pending_aw_q # <<>>
  PROVE  LET h == Head(d.pending_aw_q)
         IN /\ h \in Entry /\ h.op = "WR" /\ h = d.pending_aw_q[1]
            /\ h \in PlacesOf(d)[1]
            /\ h.pre \/ h.captured < h.beats
<1>1. d \in Driver /\ d.pending_aw_q \in Seq(Entry)
  BY DriverFields DEF DriverInv
<1>2. /\ Head(d.pending_aw_q) \in Entry /\ 1 \in DOMAIN d.pending_aw_q
      /\ Head(d.pending_aw_q) = d.pending_aw_q[1]
      /\ Head(d.pending_aw_q) \in SeqSet(d.pending_aw_q)
  BY <1>1, QueueTail
<1> QED BY <1>1, <1>2, PlacesType
        DEF DriverInv, Queued, AllOf, WritesWhole

(* A command of one place is in no other, nor is another entry of it.      *)
LEMMA Elsewhere ==
  ASSUME NEW d, NEW D, DriverInv(d, D), NEW i \in Slot,
         NEW x \in PlacesOf(d)[i], NEW y, SameCmd(x, y)
  PROVE  \A k \in Slot : y \in PlacesOf(d)[k] => k = i /\ y = x
  BY DEF DriverInv, Booked, Books, Ledger, OnePlace

LEMMA DataBeat ==
  ASSUME NEW d, NEW D, DriverInv(d, D), d.pending_aw_q # <<>>,
         Head(d.pending_aw_q).captured < Head(d.pending_aw_q).beats
  PROVE  LET d2 == capture_w(d, "data")
         IN /\ DriverInv(d2, D) /\ d2.cfg = d.cfg /\ d2.rvalid = d.rvalid
            /\ d2.active_r_q = d.active_r_q
            /\ d2.active_r_beat_idx = d.active_r_beat_idx
            /\ d2.inflight_rd_count = d.inflight_rd_count
<1> DEFINE d2 == capture_w(d, "data")
           p == d.pending_aw_q
           h == Head(p)
           e == WithBeat(h, FALSE)
           q == [p EXCEPT ![1] = e]
<1>1. d \in Driver BY DEF DriverInv
<1>2. p \in Seq(Entry) /\ Len(p) \in Nat /\ DOMAIN p = 1 .. Len(p)
  BY <1>1, DriverFields
<1>3. h \in Entry /\ h.op = "WR" /\ h = p[1] /\ h \in PlacesOf(d)[1]
  BY HeadFacts
<1>4. e \in Entry /\ SameCmd(h, e) /\ e.op = "WR"
      /\ (e.pre \/ e.captured < e.beats)
  BY <1>3, BeatFacts
<1>5. d2 = [d EXCEPT !.pending_aw_q = q] BY DEF capture_w
<1>6. e \notin SeqSet(p) \/ e = h
  <2>1. 1 \in Slot BY DEF Slot
  <2>2. e \in PlacesOf(d)[1] => e = h
    <3> HIDE DEF h, e
    <3> QED BY <1>3, <1>4, <2>1, Elsewhere
  <2> QED BY <1>1, <2>2, PlacesType
<1> HIDE DEF d2, h, e, p
<1>7. /\ q \in Seq(Entry) /\ Len(q) = Len(p) /\ q[1] = e
      /\ DOMAIN q = 1 .. Len(p) /\ q # <<>>
      /\ \A i \in 2 .. Len(p) : q[i] = p[i]
      /\ Once(q) /\ SeqSet(q) = (SeqSet(p) \ {h}) \cup {e}
  BY <1>2, <1>4, <1>6, QueueHead DEF DriverInv, Queued, p, h
<1> HIDE DEF q
<1>8. d2 \in Driver BY <1>1, <1>5, <1>7, Zenon DEF Driver
<1>9. /\ d2.pending_aw_q = q
      /\ SameBus(d, d2) /\ SameCounts(d, d2) /\ SameQueues(d, d2)
  BY <1>1, <1>5 DEF Driver, SameBus, SameCounts, SameQueues
<1>10. \A i \in 1 .. Len(p) : i = 1 \/ i \in 2 .. Len(p) BY <1>2
<1>11. \A i \in 2 .. Len(p) : i \in DOMAIN p BY <1>2
<1>12. Booked(d2, D)
  <2>1. Shift(PlacesOf(d), PlacesOf(d2), 1, h, 1, e)
    <3> DEFINE W == PlacesOf(d)
               V == PlacesOf(d2)
    <3>1. V \in [Slot -> SUBSET Entry] BY <1>8, PlacesType
    <3>2. /\ V[2] = W[2] /\ V[3] = W[3] /\ V[4] = W[4] /\ V[5] = W[5]
          /\ V[6] = W[6]
      BY <1>1, <1>8, <1>9, PlacesType DEF SameBus, SameCounts, SameQueues
    <3>3. V[1] = (W[1] \ {h}) \cup {e}
      BY <1>1, <1>7, <1>8, <1>9, PlacesType DEF p
    <3> HIDE DEF W, V
    <3> QED BY <1>1, <3>1, <3>2, <3>3, PlacesType DEF Shift, W, V
  <2>2. Books(PlacesOf(d2), D, Accepted(d),
              More(Less(d.inflight_wr_count, 1, h, "WR"), 1, e, "WR"),
              More(Less(d.inflight_rd_count, 1, h, "RD"), 1, e, "RD"))
    BY <1>3, <1>4, <2>1, ShiftBooks DEF DriverInv, Booked, Slot
  <2>3. Accepted(d2) = Accepted(d) BY <1>9 DEF Accepted, SameBus
  <2> QED BY <1>9, <2>2, <2>3 DEF Booked, SameCounts, More, Less, Counts
<1>13. Queued(d2)
  <2>1. AllOf(q, "WR")
    BY <1>4, <1>7, <1>10, <1>11 DEF DriverInv, Queued, AllOf, p
  <2> QED BY <1>7, <1>9, <2>1 DEF DriverInv, Queued, SameBus, SameQueues
<1>14. WritesWhole(d2)
  <2>1. \A i \in 2 .. Len(q) : q[i].captured = 0
    BY <1>7 DEF DriverInv, WritesWhole, p
  <2>2. \A i \in DOMAIN q : q[i].pre \/ q[i].captured < q[i].beats
    BY <1>4, <1>7, <1>10, <1>11 DEF DriverInv, WritesWhole, p
  <2> QED BY <1>9, <2>1, <2>2 DEF DriverInv, WritesWhole, SameCounts
<1>15. ReadsWhole(d2) BY <1>9 DEF DriverInv, ReadsWhole, SameBus
<1>16. Limited(d2)
  BY <1>7, <1>9 DEF DriverInv, Limited, SameBus, SameCounts, p
<1> QED BY <1>8, <1>9, <1>12, <1>13, <1>14, <1>15, <1>16
        DEF DriverInv, SameBus, SameCounts, d2

(* finish_write answers the burst locally or sends it.                     *)
LEMMA Finishes ==
  ASSUME NEW d \in Driver, NEW e \in Entry, e.op = "WR"
  PROVE  LET e1 == Resolved(d, e)
             d2 == finish_write(d, e)
         IN /\ e1 \in Entry /\ SameCmd(e, e1) /\ e1.op = "WR"
            /\ ~e1.pre => e1 = e
            /\ d2 \in Driver /\ SameBus(d, d2)
            /\ d2.pending_aw_q = d.pending_aw_q
            /\ e1.pre => /\ SameCounts(d, d2)
                         /\ d2.pending_b_q = Append(d.pending_b_q, e1)
                         /\ d2.pending_r_q = d.pending_r_q
            /\ ~e1.pre => /\ SameQueues(d, d2)
                          /\ d2.req_port = d.req_port \cup {e1}
                          /\ d2.inflight_rd_count = d.inflight_rd_count
                          /\ d2.inflight_wr_count = d.inflight_wr_count + 1
<1> DEFINE d1 == IF e.excl /\ ~e.pre
                 THEN check_and_clear_exclusive_reservation(d, e) ELSE d
           e1 == Resolved(d, e)
           db == invalidate_exclusive_reservations(d1, e)
           d2 == finish_write(d, e)
<1>1. e1 \in Entry /\ SameCmd(e, e1) /\ e1.op = "WR" /\ (~e1.pre => e1 = e)
  <2>1. CASE e1 = e BY <2>1 DEF SameCmd
  <2>2. CASE e1 # e
    <3>1. e1 = [e EXCEPT !.pre = TRUE, !.resp = "OKAY"]
      BY <2>2 DEF Resolved
    <3> HIDE DEF e1
    <3>2. e1 \in Entry BY <3>1, Zenon DEF Entry
    <3>3. e1.op = e.op /\ e1.num = e.num /\ e1.pre = TRUE
      BY <3>1 DEF Entry
    <3> QED BY <3>2, <3>3 DEF SameCmd
  <2> QED BY <2>1, <2>2
<1>2. d1 \in Driver /\ Alike(d, d1)
  <2>1. Alike(d, d) BY DEF Alike, SameBus, SameCounts, SameQueues
  <2>2. /\ check_and_clear_exclusive_reservation(d, e) \in Driver
        /\ Alike(d, check_and_clear_exclusive_reservation(d, e))
    BY Registers, ReservationsFree
  <2> QED BY <2>1, <2>2
<1> HIDE DEF d1
<1>3. db \in Driver /\ Alike(d1, db) BY <1>2, Registers, ReservationsFree
<1>4. d2 = IF e1.pre THEN complete(d1, e1) ELSE issue_request(db, e1)
  BY DEF finish_write, d1
<1> HIDE DEF e1, db, d2
<1>5. CASE e1.pre
  <2>1. /\ d2 \in Driver /\ SameBus(d1, d2) /\ SameCounts(d1, d2)
        /\ d2.pending_aw_q = d1.pending_aw_q
        /\ d2.pending_r_q = d1.pending_r_q
        /\ d2.pending_b_q = Append(d1.pending_b_q, e1)
    BY <1>1, <1>2, <1>4, <1>5, Completes
  <2> QED BY <1>1, <1>2, <1>5, <2>1
          DEF Alike, SameBus, SameCounts, SameQueues, e1, d2
<1>6. CASE ~e1.pre
  <2>1. /\ d2 \in Driver /\ SameBus(db, d2) /\ SameQueues(db, d2)
        /\ d2.pending_aw_q = db.pending_aw_q
        /\ d2.req_port = db.req_port \cup {e1}
        /\ d2.inflight_rd_count = db.inflight_rd_count
        /\ d2.inflight_wr_count = db.inflight_wr_count + 1
    BY <1>1, <1>3, <1>4, <1>6, Issues
  <2> QED BY <1>1, <1>2, <1>3, <1>6, <2>1
          DEF Alike, SameBus, SameCounts, SameQueues, e1, d2
<1> QED BY <1>5, <1>6

LEMMA LastBeat ==
  ASSUME NEW d, NEW D, DriverInv(d, D), d.pending_aw_q # <<>>
  PROVE  LET d2 == capture_w(d, "last")
         IN /\ DriverInv(d2, D) /\ d2.cfg = d.cfg /\ d2.rvalid = d.rvalid
            /\ d2.active_r_q = d.active_r_q
            /\ d2.active_r_beat_idx = d.active_r_beat_idx
            /\ d2.inflight_rd_count = d.inflight_rd_count
<1> DEFINE p == d.pending_aw_q
           h == Head(p)
           e == WithBeat(h, TRUE)
           q == Tail(p)
           d0 == [d EXCEPT !.pending_aw_q = q]
           e1 == Resolved(d0, e)
           d2 == capture_w(d, "last")
<1>1. d \in Driver BY DEF DriverInv
<1>2. p \in Seq(Entry) /\ Len(p) \in Nat /\ DOMAIN p = 1 .. Len(p)
  BY <1>1, DriverFields
<1>3. h \in Entry /\ h.op = "WR" /\ h \in PlacesOf(d)[1]
      /\ (h.pre \/ h.captured < h.beats)
  BY HeadFacts
<1>4. e \in Entry /\ SameCmd(h, e) /\ e.op = "WR"
      /\ (~e.pre => e.captured = e.beats)
  BY <1>3, BeatFacts
<1>5. d2 = finish_write(d0, e) BY DEF capture_w
<1>6. /\ q \in Seq(Entry) /\ Len(q) = Len(p) - 1 /\ DOMAIN q = 1 .. Len(p) - 1
      /\ \A i \in 1 .. Len(p) - 1 : q[i] = p[i + 1]
      /\ Once(q) /\ SeqSet(q) = SeqSet(p) \ {h} /\ Len(p) \in Nat \ {0}
  BY <1>2, QueueTail DEF DriverInv, Queued
<1> HIDE DEF p, h, e, q
<1>7. d0 \in Driver BY <1>1, <1>6, Zenon DEF Driver
<1>8. /\ d0.pending_aw_q = q
      /\ SameBus(d, d0) /\ SameCounts(d, d0) /\ SameQueues(d, d0)
  BY <1>1 DEF Driver, SameBus, SameCounts, SameQueues
<1> HIDE DEF d0, e1, d2
<1>9. /\ e1 \in Entry /\ SameCmd(h, e1) /\ e1.op = "WR" /\ (~e1.pre => e1 = e)
      /\ d2 \in Driver /\ SameBus(d, d2) /\ d2.pending_aw_q = q
      /\ e1.pre => /\ SameCounts(d, d2)
                   /\ d2.pending_b_q = Append(d.pending_b_q, e1)
                   /\ d2.pending_r_q = d.pending_r_q
      /\ ~e1.pre => /\ SameQueues(d, d2)
                    /\ d2.req_port = d.req_port \cup {e1}
                    /\ d2.inflight_rd_count = d.inflight_rd_count
                    /\ d2.inflight_wr_count = d.inflight_wr_count + 1
  BY <1>4, <1>5, <1>7, <1>8, Finishes
     DEF SameCmd, SameBus, SameCounts, SameQueues, e1
<1>10. \A i \in 1 .. Len(p) - 1 : i + 1 \in 2 .. Len(p) /\ i + 1 \in DOMAIN p
  BY <1>2
<1>11. AllOf(q, "WR") BY <1>6, <1>10 DEF DriverInv, Queued, AllOf, p
<1>12. /\ \A i \in 2 .. Len(q) : q[i].captured = 0
       /\ \A i \in DOMAIN q : q[i].pre \/ q[i].captured < q[i].beats
  <2>1. \A i \in 2 .. Len(q) : i \in 1 .. Len(p) - 1 BY <1>2, <1>6
  <2> QED BY <1>6, <1>10, <2>1 DEF DriverInv, WritesWhole, p
<1>13. \A k \in Slot : e1 \in PlacesOf(d)[k] => k = 1 /\ e1 = h
  <2>1. 1 \in Slot BY DEF Slot
  <2> QED BY <1>3, <1>9, <2>1, Elsewhere
<1>14. Accepted(d2) = Accepted(d) BY <1>9 DEF Accepted, SameBus
<1>15. d.inflight_wr_count \in Nat /\ d.inflight_rd_count \in Nat
  BY <1>1, DriverFields
<1>16. CASE e1.pre
  <2> DEFINE b == Append(d.pending_b_q, e1)
  <2>1. e1 \notin SeqSet(d.pending_b_q)
    <3>1. 3 \in Slot BY DEF Slot
    <3>2. e1 \notin PlacesOf(d)[3] BY <1>13, <3>1
    <3> QED BY <1>1, <3>2, PlacesType
  <2>2. SeqSet(b) = SeqSet(d.pending_b_q) \cup {e1} /\ Once(b)
        /\ b \in Seq(Entry) /\ AllOf(b, "WR")
    <3>1. \A i \in DOMAIN b :
            \/ i \in DOMAIN d.pending_b_q /\ b[i] = d.pending_b_q[i]
            \/ b[i] = e1
      BY <1>1, <1>9, DriverFields
    <3>2. AllOf(b, "WR") BY <1>9, <3>1 DEF DriverInv, Queued, AllOf
    <3> QED BY <1>1, <1>9, <2>1, <3>2, DriverFields, QueueAppend
            DEF DriverInv, Queued
  <2> HIDE DEF b
  <2>3. d2.pending_b_q = b /\ d2.pending_r_q = d.pending_r_q
        /\ SameCounts(d, d2)
    BY <1>9, <1>16 DEF b
  <2>4. Booked(d2, D)
    <3>1. Shift(PlacesOf(d), PlacesOf(d2), 1, h, 3, e1)
      <4> DEFINE W == PlacesOf(d)
                 V == PlacesOf(d2)
      <4>1. V \in [Slot -> SUBSET Entry] BY <1>9, PlacesType
      <4>2. V[2] = W[2] /\ V[4] = W[4] /\ V[5] = W[5] /\ V[6] = W[6]
        BY <1>1, <1>9, <2>3, PlacesType DEF SameBus, SameCounts
      <4>3. V[1] = W[1] \ {h} BY <1>1, <1>6, <1>9, PlacesType DEF p
      <4>4. V[3] = W[3] \cup {e1} BY <1>1, <1>9, <2>2, <2>3, PlacesType
      <4> HIDE DEF W, V
      <4> QED BY <1>1, <4>1, <4>2, <4>3, <4>4, PlacesType DEF Shift, W, V
    <3>2. Books(PlacesOf(d2), D, Accepted(d),
                More(Less(d.inflight_wr_count, 1, h, "WR"), 3, e1, "WR"),
                More(Less(d.inflight_rd_count, 1, h, "RD"), 3, e1, "RD"))
      BY <1>3, <1>9, <3>1, ShiftBooks DEF DriverInv, Booked, Slot
    <3> QED BY <1>14, <1>16, <2>3, <3>2
            DEF Booked, SameCounts, More, Less, Counts
  <2>5. Queued(d2)
    BY <1>6, <1>9, <1>11, <2>2, <2>3 DEF DriverInv, Queued, SameBus
  <2>6. WritesWhole(d2)
    BY <1>9, <1>12, <2>3 DEF DriverInv, WritesWhole, SameCounts
  <2>7. ReadsWhole(d2) BY <1>9 DEF DriverInv, ReadsWhole, SameBus
  <2>8. Limited(d2)
    BY <1>1, <1>6, <1>9, <1>15, <2>3, CfgFacts
       DEF DriverInv, Limited, Within, SameBus, SameCounts, p
  <2> QED BY <1>9, <2>3, <2>4, <2>5, <2>6, <2>7, <2>8
          DEF DriverInv, SameBus, SameCounts, d2
<1>17. CASE ~e1.pre
  <2>1. /\ SameQueues(d, d2) /\ d2.req_port = d.req_port \cup {e1}
        /\ d2.inflight_rd_count = d.inflight_rd_count
        /\ d2.inflight_wr_count = d.inflight_wr_count + 1
        /\ e1.captured = e1.beats /\ ~e1.pre
    BY <1>4, <1>9, <1>17
  <2>2. Booked(d2, D)
    <3>1. Shift(PlacesOf(d), PlacesOf(d2), 1, h, 2, e1)
      <4> DEFINE W == PlacesOf(d)
                 V == PlacesOf(d2)
      <4>1. V \in [Slot -> SUBSET Entry] BY <1>9, PlacesType
      <4>2. V[3] = W[3] /\ V[4] = W[4] /\ V[5] = W[5] /\ V[6] = W[6]
        BY <1>1, <1>9, <2>1, PlacesType DEF SameBus, SameQueues
      <4>3. V[1] = W[1] \ {h} BY <1>1, <1>6, <1>9, PlacesType DEF p
      <4>4. V[2] = W[2] \cup {e1} BY <1>1, <1>9, <2>1, PlacesType
      <4> HIDE DEF W, V
      <4> QED BY <1>1, <4>1, <4>2, <4>3, <4>4, PlacesType DEF Shift, W, V
    <3>2. Books(PlacesOf(d2), D, Accepted(d),
                More(Less(d.inflight_wr_count, 1, h, "WR"), 2, e1, "WR"),
                More(Less(d.inflight_rd_count, 1, h, "RD"), 2, e1, "RD"))
      BY <1>3, <1>9, <3>1, ShiftBooks DEF DriverInv, Booked, Slot
    <3> QED BY <1>9, <1>14, <2>1, <3>2 DEF Booked, More, Less, Counts
  <2>3. Queued(d2)
    BY <1>6, <1>9, <1>11, <2>1 DEF DriverInv, Queued, SameBus, SameQueues
  <2>4. WritesWhole(d2)
    BY <1>9, <1>12, <2>1 DEF DriverInv, WritesWhole
  <2>5. ReadsWhole(d2) BY <1>9 DEF DriverInv, ReadsWhole, SameBus
  <2>6. Limited(d2)
    BY <1>1, <1>6, <1>9, <1>15, <2>1, CfgFacts
       DEF DriverInv, Limited, Within, SameBus, p
  <2> QED BY <1>9, <2>1, <2>2, <2>3, <2>4, <2>5, <2>6
          DEF DriverInv, SameBus, d2
<1> QED BY <1>16, <1>17

(* An address read: its command is answered locally or sent.               *)
LEMMA CaptureAr ==
  ASSUME NEW d, NEW D, DriverInv(d, D), ArRoom(d),
         NEW k \in Kind, k.op = "RD"
  PROVE  LET d2 == capture_ar(d, k)
         IN /\ DriverInv(d2, D) /\ d2.rvalid = d.rvalid
            /\ d2.active_r_q = d.active_r_q
            /\ d2.active_r_beat_idx = d.active_r_beat_idx
<1> DEFINE n == d.observed_ar_count + 1
           e == build_addr_entry(k, n)
           d1 == [d EXCEPT !.observed_ar_count = n]
           d2 == capture_ar(d, k)
<1>1. d \in Driver BY DEF DriverInv
<1>2. n \in Nat \ {0} BY <1>1, DriverFields
<1>3. e \in Entry /\ e.op = "RD" /\ e.num = n BY <1>2, Built
<1>4. e.num = Accepted(d)[e.op] + 1 BY <1>3 DEF Accepted, Op
<1>5. k # None BY DEF None
<1>6. d2 = IF e.pre THEN complete(d1, e) ELSE issue_request(d1, e)
  BY <1>5 DEF capture_ar
<1> HIDE DEF n, e
<1>7. d1 \in Driver BY <1>1, <1>2, Zenon DEF Driver
<1>8. /\ d1.observed_ar_count = n /\ d1.observed_aw_count = d.observed_aw_count
      /\ d1.cfg = d.cfg /\ d1.pending_aw_q = d.pending_aw_q
      /\ d1.active_b = d.active_b /\ d1.active_r_q = d.active_r_q
      /\ d1.active_r_beat_idx = d.active_r_beat_idx /\ d1.rvalid = d.rvalid
      /\ SameCounts(d, d1) /\ SameQueues(d, d1)
  BY <1>1 DEF Driver, SameCounts, SameQueues
<1> HIDE DEF d1, d2
<1>9. \A i \in Slot : e \notin PlacesOf(d)[i] BY <1>3, <1>4, Unseen
<1>10. d.inflight_wr_count \in Nat /\ d.inflight_rd_count \in Nat
       /\ d.cfg.ar_outstanding_limit \in Int
  BY <1>1, CfgFacts, DriverFields
<1>11. CASE e.pre
  <2> DEFINE r == Append(d.pending_r_q, e)
  <2>1. /\ d2 \in Driver /\ SameBus(d1, d2) /\ SameCounts(d, d2)
        /\ d2.pending_aw_q = d.pending_aw_q
        /\ d2.pending_b_q = d.pending_b_q /\ d2.pending_r_q = r
    <3>1. d2 = complete(d1, e) BY <1>6, <1>11
    <3>2. /\ d2 \in Driver /\ SameBus(d1, d2) /\ SameCounts(d1, d2)
          /\ d2.pending_aw_q = d1.pending_aw_q
          /\ d2.pending_b_q = d1.pending_b_q
          /\ d2.pending_r_q = Append(d1.pending_r_q, e)
      BY <1>3, <1>7, <3>1, Completes
    <3> QED BY <1>8, <3>2 DEF SameCounts, SameQueues
  <2>2. e \notin SeqSet(d.pending_r_q)
    BY <1>1, <1>9, PlacesType DEF Slot
  <2>3. SeqSet(r) = SeqSet(d.pending_r_q) \cup {e} /\ Once(r)
        /\ r \in Seq(Entry) /\ AllOf(r, "RD")
    <3>1. \A i \in DOMAIN r :
            \/ i \in DOMAIN d.pending_r_q /\ r[i] = d.pending_r_q[i]
            \/ r[i] = e
      BY <1>1, <1>3, DriverFields
    <3>2. AllOf(r, "RD") BY <1>3, <3>1 DEF DriverInv, Queued, AllOf
    <3> QED BY <1>1, <1>3, <2>2, <3>2, DriverFields, QueueAppend
            DEF DriverInv, Queued
  <2> HIDE DEF r
  <2>4. Booked(d2, D)
    <3>1. Put(PlacesOf(d), PlacesOf(d2), 5, e)
      <4> DEFINE W == PlacesOf(d)
                 V == PlacesOf(d2)
      <4>1. V \in [Slot -> SUBSET Entry] BY <2>1, PlacesType
      <4>2. V[1] = W[1] /\ V[2] = W[2] /\ V[3] = W[3] /\ V[4] = W[4]
            /\ V[6] = W[6]
        BY <1>1, <1>8, <2>1, PlacesType DEF SameBus, SameCounts
      <4>3. V[5] = W[5] \cup {e} BY <1>1, <2>1, <2>3, PlacesType
      <4> HIDE DEF W, V
      <4> QED BY <1>1, <4>1, <4>2, <4>3, PlacesType DEF Put, W, V
    <3>2. Books(PlacesOf(d2), D, [Accepted(d) EXCEPT ![e.op] = @ + 1],
                More(d.inflight_wr_count, 5, e, "WR"),
                More(d.inflight_rd_count, 5, e, "RD"))
      BY <1>3, <1>4, <3>1, PutBooks DEF DriverInv, Booked, Slot
    <3>3. Accepted(d2) = [Accepted(d) EXCEPT ![e.op] = @ + 1]
      BY <1>3, <1>8, <2>1 DEF Accepted, Op, SameBus, n
    <3> QED BY <1>11, <2>1, <3>2, <3>3 DEF Booked, SameCounts, More, Counts
  <2>5. Queued(d2)
    BY <1>8, <2>1, <2>3 DEF DriverInv, Queued, SameBus
  <2>6. WritesWhole(d2) BY <2>1 DEF DriverInv, WritesWhole, SameCounts
  <2>7. ReadsWhole(d2) BY <1>8, <2>1 DEF DriverInv, ReadsWhole, SameBus
  <2>8. Limited(d2)
    BY <1>8, <2>1 DEF DriverInv, Limited, SameBus, SameCounts
  <2> QED BY <1>8, <2>1, <2>4, <2>5, <2>6, <2>7, <2>8
          DEF DriverInv, SameBus, d2
<1>12. CASE ~e.pre
  <2>1. /\ d2 \in Driver /\ SameBus(d1, d2) /\ SameQueues(d, d2)
        /\ d2.pending_aw_q = d.pending_aw_q
        /\ d2.req_port = d.req_port \cup {e}
        /\ d2.inflight_rd_count = d.inflight_rd_count + 1
        /\ d2.inflight_wr_count = d.inflight_wr_count
    BY <1>3, <1>6, <1>7, <1>8, <1>12, Issues DEF SameCounts, SameQueues
  <2>2. Booked(d2, D)
    <3>1. Put(PlacesOf(d), PlacesOf(d2), 2, e)
      <4> DEFINE W == PlacesOf(d)
                 V == PlacesOf(d2)
      <4>1. V \in [Slot -> SUBSET Entry] BY <2>1, PlacesType
      <4>2. V[1] = W[1] /\ V[3] = W[3] /\ V[4] = W[4] /\ V[5] = W[5]
            /\ V[6] = W[6]
        BY <1>1, <1>8, <2>1, PlacesType DEF SameBus, SameQueues
      <4>3. V[2] = W[2] \cup {e} BY <1>1, <2>1, PlacesType
      <4> HIDE DEF W, V
      <4> QED BY <1>1, <4>1, <4>2, <4>3, PlacesType DEF Put, W, V
    <3>2. Books(PlacesOf(d2), D, [Accepted(d) EXCEPT ![e.op] = @ + 1],
                More(d.inflight_wr_count, 2, e, "WR"),
                More(d.inflight_rd_count, 2, e, "RD"))
      BY <1>3, <1>4, <3>1, PutBooks DEF DriverInv, Booked, Slot
    <3>3. Accepted(d2) = [Accepted(d) EXCEPT ![e.op] = @ + 1]
      BY <1>3, <1>8, <2>1 DEF Accepted, Op, SameBus, n
    <3> QED BY <1>3, <1>12, <2>1, <3>2, <3>3 DEF Booked, More, Counts
  <2>3. Queued(d2)
    BY <1>8, <2>1 DEF DriverInv, Queued, SameBus, SameQueues
  <2>4. WritesWhole(d2)
    BY <1>3, <1>12, <2>1 DEF DriverInv, WritesWhole
  <2>5. ReadsWhole(d2) BY <1>8, <2>1 DEF DriverInv, ReadsWhole, SameBus
  <2>6. Limited(d2)
    BY <1>8, <1>10, <2>1
       DEF DriverInv, Limited, Within, ArRoom, limit_allows, SameBus
  <2> QED BY <1>8, <2>1, <2>2, <2>3, <2>4, <2>5, <2>6
          DEF DriverInv, SameBus, d2
<1> QED BY <1>11, <1>12

(***************************************************************************)
(* The steps                                                               *)
(***************************************************************************)

(* The backend hands a command back: it moves to its response queue.       *)
Returned(e) == [e EXCEPT !.resp = IF e.excl THEN "EXOKAY" ELSE "OKAY"]

LEMMA AnswerStep ==
  ASSUME NEW d, NEW D, DriverInv(d, D), Ready(d), NEW e \in d.req_port
  PROVE  LET d2 == complete([d EXCEPT !.req_port = @ \ {e}], Returned(e))
         IN DriverInv(d2, D) /\ Ready(d2) /\ SameBus(d, d2)
            /\ d2.pending_aw_q = d.pending_aw_q
<1> DEFINE y == Returned(e)
           P == d.req_port \ {e}
           d1 == [d EXCEPT !.req_port = P]
           d2 == complete(d1, y)
<1>1. d \in Driver BY DEF DriverInv
<1>2. e \in Entry /\ ~e.pre /\ P \in SUBSET Entry
  BY <1>1, DriverFields DEF DriverInv, WritesWhole
<1>3. y \in Entry /\ SameCmd(e, y) /\ y.op = e.op /\ ~y.pre
  <2> DEFINE r == IF e.excl THEN "EXOKAY" ELSE "OKAY"
  <2>1. r \in {"OKAY", "SLVERR", "DECERR", "EXOKAY"} OBVIOUS
  <2>2. y = [e EXCEPT !.resp = r] BY DEF Returned
  <2> HIDE DEF r, y
  <2>3. y \in Entry BY <1>2, <2>1, <2>2, Zenon DEF Entry
  <2>4. y.op = e.op /\ y.num = e.num /\ y.pre = e.pre
    BY <1>2, <2>2 DEF Entry
  <2> QED BY <1>2, <2>3, <2>4 DEF SameCmd
<1> HIDE DEF y, P
<1>4. d1 \in Driver BY <1>1, <1>2, Zenon DEF Driver
<1>5. /\ d1.req_port = P /\ d1.pending_aw_q = d.pending_aw_q
      /\ d1.inflight_wr_count = d.inflight_wr_count
      /\ d1.inflight_rd_count = d.inflight_rd_count
      /\ SameBus(d, d1) /\ SameQueues(d, d1)
  BY <1>1 DEF Driver, SameBus, SameQueues
<1> HIDE DEF d1
<1>6. /\ d2 \in Driver /\ SameBus(d1, d2) /\ SameCounts(d1, d2)
      /\ d2.pending_aw_q = d1.pending_aw_q
      /\ d2.pending_r_q = IF y.op = "RD" THEN Append(d1.pending_r_q, y)
                          ELSE d1.pending_r_q
      /\ d2.pending_b_q = IF y.op = "WR" THEN Append(d1.pending_b_q, y)
                          ELSE d1.pending_b_q
  BY <1>3, <1>4, Completes
<1> HIDE DEF d2
<1>7. SameBus(d, d2) BY <1>5, <1>6 DEF SameBus
<1>8. /\ d2.req_port = P /\ d2.pending_aw_q = d.pending_aw_q
      /\ d2.inflight_wr_count = d.inflight_wr_count
      /\ d2.inflight_rd_count = d.inflight_rd_count
  BY <1>5, <1>6 DEF SameCounts
<1>9. e \in PlacesOf(d)[2] /\ 2 \in Slot BY <1>1, PlacesType DEF Slot
<1>10. \A k \in Slot : y \in PlacesOf(d)[k] => k = 2
  BY <1>3, <1>9, Elsewhere
<1>11. d.inflight_wr_count \in Nat /\ d.inflight_rd_count \in Nat
  BY <1>1, DriverFields
<1>12. Accepted(d2) = Accepted(d) BY <1>7 DEF Accepted, SameBus
<1>13. Ready(d2)
  BY <1>7, <1>8 DEF Ready, AwRoom, ArRoom, SameBus
<1>14. WritesWhole(d2)
  BY <1>8 DEF DriverInv, WritesWhole, P
<1>15. ReadsWhole(d2) BY <1>7 DEF DriverInv, ReadsWhole, SameBus
<1>16. Limited(d2) BY <1>7, <1>8 DEF DriverInv, Limited, SameBus
<1>17. e.op = "RD" \/ e.op = "WR" BY <1>2 DEF Entry, Op
<1>18. CASE e.op = "RD"
  <2> DEFINE q == Append(d.pending_r_q, y)
  <2>1. d2.pending_r_q = q /\ d2.pending_b_q = d.pending_b_q
    BY <1>3, <1>5, <1>6, <1>18 DEF SameQueues
  <2>2. y \notin SeqSet(d.pending_r_q)
    BY <1>1, <1>10, PlacesType DEF Slot
  <2>3. SeqSet(q) = SeqSet(d.pending_r_q) \cup {y} /\ Once(q)
        /\ q \in Seq(Entry) /\ AllOf(q, "RD")
    <3>1. \A i \in DOMAIN q :
            \/ i \in DOMAIN d.pending_r_q /\ q[i] = d.pending_r_q[i]
            \/ q[i] = y
      BY <1>1, <1>3, DriverFields
    <3>2. AllOf(q, "RD") BY <1>3, <1>18, <3>1 DEF DriverInv, Queued, AllOf
    <3> QED BY <1>1, <1>3, <2>2, <3>2, DriverFields, QueueAppend
            DEF DriverInv, Queued
  <2> HIDE DEF q
  <2>4. Shift(PlacesOf(d), PlacesOf(d2), 2, e, 5, y)
    <3> DEFINE W == PlacesOf(d)
               V == PlacesOf(d2)
    <3>1. V \in [Slot -> SUBSET Entry] BY <1>6, PlacesType
    <3>2. V[1] = W[1] /\ V[3] = W[3] /\ V[4] = W[4] /\ V[6] = W[6]
      BY <1>1, <1>6, <1>7, <1>8, <2>1, PlacesType DEF SameBus
    <3>3. V[2] = W[2] \ {e} BY <1>1, <1>6, <1>8, PlacesType DEF P
    <3>4. V[5] = W[5] \cup {y} BY <1>1, <1>6, <2>1, <2>3, PlacesType
    <3> HIDE DEF W, V
    <3> QED BY <1>1, <3>1, <3>2, <3>3, <3>4, PlacesType DEF Shift, W, V
  <2>5. Books(PlacesOf(d2), D, Accepted(d),
              More(Less(d.inflight_wr_count, 2, e, "WR"), 5, y, "WR"),
              More(Less(d.inflight_rd_count, 2, e, "RD"), 5, y, "RD"))
    BY <1>2, <1>3, <1>9, <2>4, ShiftBooks DEF DriverInv, Booked, Slot
  <2>6. Booked(d2, D)
    BY <1>2, <1>3, <1>8, <1>11, <1>12, <2>5 DEF Booked, More, Less, Counts
  <2>7. Queued(d2)
    BY <1>7, <1>8, <2>1, <2>3 DEF DriverInv, Queued, SameBus
  <2> QED BY <1>6, <1>7, <1>8, <1>13, <1>14, <1>15, <1>16, <2>6, <2>7
          DEF DriverInv, d2, d1, P, y
<1>19. CASE e.op = "WR"
  <2> DEFINE q == Append(d.pending_b_q, y)
  <2>1. d2.pending_b_q = q /\ d2.pending_r_q = d.pending_r_q
    BY <1>3, <1>5, <1>6, <1>19 DEF SameQueues
  <2>2. y \notin SeqSet(d.pending_b_q)
    BY <1>1, <1>10, PlacesType DEF Slot
  <2>3. SeqSet(q) = SeqSet(d.pending_b_q) \cup {y} /\ Once(q)
        /\ q \in Seq(Entry) /\ AllOf(q, "WR")
    <3>1. \A i \in DOMAIN q :
            \/ i \in DOMAIN d.pending_b_q /\ q[i] = d.pending_b_q[i]
            \/ q[i] = y
      BY <1>1, <1>3, DriverFields
    <3>2. AllOf(q, "WR") BY <1>3, <1>19, <3>1 DEF DriverInv, Queued, AllOf
    <3> QED BY <1>1, <1>3, <2>2, <3>2, DriverFields, QueueAppend
            DEF DriverInv, Queued
  <2> HIDE DEF q
  <2>4. Shift(PlacesOf(d), PlacesOf(d2), 2, e, 3, y)
    <3> DEFINE W == PlacesOf(d)
               V == PlacesOf(d2)
    <3>1. V \in [Slot -> SUBSET Entry] BY <1>6, PlacesType
    <3>2. V[1] = W[1] /\ V[5] = W[5] /\ V[4] = W[4] /\ V[6] = W[6]
      BY <1>1, <1>6, <1>7, <1>8, <2>1, PlacesType DEF SameBus
    <3>3. V[2] = W[2] \ {e} BY <1>1, <1>6, <1>8, PlacesType DEF P
    <3>4. V[3] = W[3] \cup {y} BY <1>1, <1>6, <2>1, <2>3, PlacesType
    <3> HIDE DEF W, V
    <3> QED BY <1>1, <3>1, <3>2, <3>3, <3>4, PlacesType DEF Shift, W, V
  <2>5. Books(PlacesOf(d2), D, Accepted(d),
              More(Less(d.inflight_wr_count, 2, e, "WR"), 3, y, "WR"),
              More(Less(d.inflight_rd_count, 2, e, "RD"), 3, y, "RD"))
    BY <1>2, <1>3, <1>9, <2>4, ShiftBooks DEF DriverInv, Booked, Slot
  <2>6. Booked(d2, D)
    BY <1>2, <1>3, <1>8, <1>11, <1>12, <2>5 DEF Booked, More, Less, Counts
  <2>7. Queued(d2)
    BY <1>7, <1>8, <2>1, <2>3 DEF DriverInv, Queued, SameBus
  <2> QED BY <1>6, <1>7, <1>8, <1>13, <1>14, <1>15, <1>16, <2>6, <2>7
          DEF DriverInv, d2, d1, P, y
<1> QED BY <1>17, <1>18, <1>19

(* What the manager may present to a driver d.                             *)
Allowed(d, in) ==
  /\ in.aw = None \/ (in.aw \in Kind /\ in.aw.op = "WR" /\ AwRoom(d))
  /\ in.ar = None \/ (in.ar \in Kind /\ in.ar.op = "RD" /\ ArRoom(d))
  /\ \/ in.w = "none"
     \/ in.w = "last" /\ d.pending_aw_q # <<>>
     \/ /\ in.w = "data" /\ d.pending_aw_q # <<>>
        /\ Head(d.pending_aw_q).captured < Head(d.pending_aw_q).beats

(* The captures of an edge, and the outputs computed from them.            *)
LEMMA CaptureSteps ==
  ASSUME NEW d, NEW D, DriverInv(d, D), NEW in, Allowed(d, in),
         d.rvalid => d.active_r_q # <<>>
  PROVE  LET d2 == drive_accept_outputs(captures(d, in))
         IN /\ DriverInv(d2, D) /\ Ready(d2) /\ d2.rvalid = d.rvalid
            /\ d2.active_r_q = d.active_r_q
            /\ d2.active_r_beat_idx = d.active_r_beat_idx
<1> DEFINE a == capture_aw(d, in.aw)
           w == capture_w(a, in.w)
           r == capture_ar(w, in.ar)
           occ == CASE in.w = "last" -> 0
                    [] in.w = "data" -> r.w_data_buf_occupancy + 1
                    [] OTHER -> IF r.w_data_buf_occupancy > 0
                                THEN r.w_data_buf_occupancy - 1 ELSE 0
           o == advance_w_data_buffer_model(r, in.w)
           aw == can_accept_aw(o)
           wr == can_accept_w(o)
           ar == can_accept_ar(o)
           d2 == drive_accept_outputs(o)
<1>1. /\ DriverInv(a, D) /\ a.cfg = d.cfg /\ a.rvalid = d.rvalid
      /\ a.active_r_q = d.active_r_q
      /\ a.active_r_beat_idx = d.active_r_beat_idx
      /\ a.inflight_rd_count = d.inflight_rd_count
      /\ d.pending_aw_q # <<>> =>
           /\ a.pending_aw_q # <<>>
           /\ Head(a.pending_aw_q) = Head(d.pending_aw_q)
  <2>1. CASE in.aw = None
    <3>1. a = d BY <2>1 DEF capture_aw
    <3> QED BY <3>1
  <2>2. CASE in.aw # None
    <3>1. in.aw \in Kind /\ in.aw.op = "WR" /\ AwRoom(d)
      BY <2>2 DEF Allowed
    <3> QED BY <3>1, CaptureAw
  <2> QED BY <2>1, <2>2
<1> HIDE DEF a
<1>2. /\ DriverInv(w, D) /\ w.cfg = d.cfg /\ w.rvalid = d.rvalid
      /\ w.active_r_q = d.active_r_q
      /\ w.active_r_beat_idx = d.active_r_beat_idx
      /\ w.inflight_rd_count = d.inflight_rd_count
  <2>1. CASE in.w = "none"
    <3>1. w = a BY <2>1 DEF capture_w
    <3> QED BY <1>1, <3>1
  <2>2. CASE in.w = "last"
    <3>1. a.pending_aw_q # <<>> BY <1>1, <2>2 DEF Allowed
    <3> QED BY <1>1, <2>2, <3>1, LastBeat
  <2>3. CASE in.w = "data"
    <3>1. a.pending_aw_q # <<>>
          /\ Head(a.pending_aw_q).captured < Head(a.pending_aw_q).beats
      BY <1>1, <2>3 DEF Allowed
    <3> QED BY <1>1, <2>3, <3>1, DataBeat
  <2> QED BY <2>1, <2>2, <2>3 DEF Allowed
<1> HIDE DEF w
<1>3. /\ DriverInv(r, D) /\ r.rvalid = d.rvalid
      /\ r.active_r_q = d.active_r_q
      /\ r.active_r_beat_idx = d.active_r_beat_idx
  <2>1. CASE in.ar = None
    <3>1. r = w BY <2>1 DEF capture_ar
    <3> QED BY <1>2, <3>1
  <2>2. CASE in.ar # None
    <3>1. in.ar \in Kind /\ in.ar.op = "RD" /\ ArRoom(w)
      BY <1>2, <2>2 DEF Allowed, ArRoom
    <3> QED BY <1>2, <3>1, CaptureAr
  <2> QED BY <2>1, <2>2
<1> HIDE DEF r
<1>4. r \in Driver BY <1>3 DEF DriverInv
<1>5. occ \in Nat
  <2>1. r.w_data_buf_occupancy \in Nat BY <1>4, DriverFields
  <2> QED BY <2>1
<1>6. o = [r EXCEPT !.w_data_buf_occupancy = occ]
  BY DEF advance_w_data_buffer_model
<1> HIDE DEF occ, o
<1>7. o \in Driver BY <1>4, <1>5, <1>6, Zenon DEF Driver
<1>8. DriverInv(o, D) /\ Alike(r, o)
  <2>1. Alike(r, o)
    BY <1>4, <1>6 DEF Driver, Alike, SameBus, SameCounts, SameQueues
  <2> QED BY <1>3, <1>7, <2>1, OutputsFree
          DEF Alike, SameBus, SameCounts, SameQueues
<1>9. d2 = [o EXCEPT !.awready = aw, !.wready = wr, !.arready = ar]
      /\ aw \in BOOLEAN /\ wr \in BOOLEAN /\ ar \in BOOLEAN
  BY DEF drive_accept_outputs, can_accept_aw, can_accept_w, can_accept_ar
<1>10. /\ aw => AwRoom(o)
       /\ ar => ArRoom(o)
       /\ wr => o.pending_aw_q # <<>>
  BY DEF can_accept_aw, can_accept_w, can_accept_ar, AwRoom, ArRoom
<1> HIDE DEF aw, wr, ar, d2
<1>11. d2 \in Driver BY <1>7, <1>9, Zenon DEF Driver
<1>12. /\ d2.awready = aw /\ d2.wready = wr /\ d2.arready = ar
       /\ d2.cfg = o.cfg /\ d2.pending_aw_q = o.pending_aw_q
       /\ d2.pending_b_q = o.pending_b_q /\ d2.pending_r_q = o.pending_r_q
       /\ d2.active_b = o.active_b /\ d2.active_r_q = o.active_r_q
       /\ d2.active_r_beat_idx = o.active_r_beat_idx /\ d2.rvalid = o.rvalid
       /\ d2.inflight_wr_count = o.inflight_wr_count
       /\ d2.inflight_rd_count = o.inflight_rd_count
       /\ d2.observed_aw_count = o.observed_aw_count
       /\ d2.observed_ar_count = o.observed_ar_count
       /\ d2.req_port = o.req_port
  BY <1>7, <1>9 DEF Driver
<1>13. DriverInv(d2, D) BY <1>8, <1>11, <1>12, OutputsFree
<1>14. Ready(d2)
  <2>1. d2.rvalid = d.rvalid /\ d2.active_r_q = d.active_r_q
    BY <1>3, <1>8, <1>12 DEF Alike, SameBus
  <2> QED BY <1>10, <1>12, <2>1 DEF Ready, AwRoom, ArRoom
<1>15. captures(d, in) = o BY DEF captures, o, r, w, a
<1> QED BY <1>3, <1>8, <1>12, <1>13, <1>14, <1>15 DEF Alike, SameBus, d2

(* What the manager may present was announced by the outputs, and the      *)
(* responses of the edge leave it possible.                                *)
LEMMA InputAllowed ==
  ASSUME NEW d, NEW D, DriverInv(d, D), Easier(drv, d), Axi4Inv,
         NEW in \in Input(BOOLEAN, Due)
  PROVE  Allowed(d, in)
<1>1. drv \in Driver /\ d \in Driver BY DEF Axi4Inv, DriverInv
<1>2. /\ d.inflight_wr_count \in Nat /\ drv.inflight_wr_count \in Nat
      /\ d.inflight_rd_count \in Nat /\ drv.inflight_rd_count \in Nat
      /\ Len(drv.pending_aw_q) \in Nat
      /\ drv.cfg \in Cfg
      /\ drv.cfg.aw_outstanding_limit \in Int
      /\ drv.cfg.ar_outstanding_limit \in Int
  BY <1>1, DriverFields, CfgFacts
<1>3. drv.awready => AwRoom(d)
  BY <1>2 DEF Axi4Inv, Ready, AwRoom, limit_allows, Easier
<1>4. drv.arready => ArRoom(d)
  BY <1>2 DEF Axi4Inv, Ready, ArRoom, limit_allows, Easier
<1>5. /\ in.aw \in Address("WR", drv.awready
                                   /\ drv.observed_aw_count < drv.cfg.max_wr)
      /\ in.ar \in Address("RD", drv.arready
                                   /\ drv.observed_ar_count < drv.cfg.max_rd)
      /\ in.w \in Beat
  BY DEF Input
<1>6. drv.cfg.kind \subseteq Kind BY <1>2 DEF Kind
<1>7. in.aw = None \/ (in.aw \in Kind /\ in.aw.op = "WR" /\ AwRoom(d))
  BY <1>3, <1>5, <1>6 DEF Address
<1>8. in.ar = None \/ (in.ar \in Kind /\ in.ar.op = "RD" /\ ArRoom(d))
  BY <1>4, <1>5, <1>6 DEF Address
<1>9. CASE ~drv.wready BY <1>5, <1>7, <1>8, <1>9 DEF Allowed, Beat
<1>10. CASE drv.wready
  <2> DEFINE e == Head(drv.pending_aw_q)
  <2>1. drv.pending_aw_q # <<>> /\ d.pending_aw_q = drv.pending_aw_q
    BY <1>10 DEF Axi4Inv, Ready, Easier
  <2>2. e \in Entry BY <1>1, <2>1, DriverFields, QueueTail
  <2>3. e.captured \in Nat /\ e.beats \in Nat BY <2>2 DEF Entry
  <2> HIDE DEF e
  <2>4. in.w = "none" \/ in.w = "last"
        \/ /\ in.w = "data"
           /\ e.captured + 1 < e.beats \/ e.captured < e.beats
    BY <1>5, <1>10 DEF Beat, e
  <2>5. in.w = "none" \/ in.w = "last"
        \/ (in.w = "data" /\ e.captured < e.beats)
    BY <2>3, <2>4
  <2> QED BY <1>7, <1>8, <2>1, <2>5 DEF Allowed, e
<1> QED BY <1>9, <1>10

LEMMA EdgeStep ==
  ASSUME Axi4Inv, NEW in \in Input(BOOLEAN, Due), Edge(in)
  PROVE  /\ Axi4Inv'
         /\ RBurstWhole
<1> DEFINE DB == done \cup (IF BTaken(drv, in)
                            THEN {Cmd(drv.active_b[1])} ELSE {})
           b == advance_write_rsp_channel(drv, in)
           DR == DB \cup (IF RBurstTaken(b, in)
                          THEN {Cmd(b.active_r_q[1])} ELSE {})
           r == advance_read_rsp_channel(b, in)
<1>1. DriverInv(drv, done) /\ Ready(drv) BY DEF Axi4Inv
<1>2. /\ DriverInv(b, DB) /\ Easier(drv, b)
      /\ b.active_r_q = drv.active_r_q /\ b.rvalid = drv.rvalid
      /\ b.active_r_beat_idx = drv.active_r_beat_idx
  BY <1>1, WriteResponses
<1>3. done' = DR
  BY <1>2 DEF Edge, RBurstTaken, RTaken, RLast
<1> HIDE DEF DB, b
<1>4. /\ DriverInv(r, DR) /\ Easier(b, r)
      /\ r.rvalid => r.active_r_q # <<>>
      /\ b.rvalid /\ ~in.rready => r = b
      /\ b.rvalid /\ in.rready /\ ~RLast(b) =>
           /\ r.active_r_q = b.active_r_q
           /\ r.active_r_beat_idx = b.active_r_beat_idx + 1
  <2>1. b.rvalid => b.active_r_q # <<>> BY <1>1, <1>2 DEF Ready
  <2> QED BY <1>2, <2>1, ReadResponses
<1>5. drv' = drive_accept_outputs(captures(r, in))
  BY DEF Edge, responses, r, b
<1> HIDE DEF DR, r
<1>6. Easier(drv, r)
  <2>1. drv \in Driver /\ b \in Driver /\ r \in Driver
    BY <1>1, <1>2, <1>4 DEF DriverInv
  <2>2. /\ drv.inflight_wr_count \in Nat /\ b.inflight_wr_count \in Nat
        /\ r.inflight_wr_count \in Nat
        /\ drv.inflight_rd_count \in Nat /\ b.inflight_rd_count \in Nat
        /\ r.inflight_rd_count \in Nat
    BY <2>1, DriverFields
  <2> QED BY <1>2, <1>4, <2>2 DEF Easier
<1>7. Allowed(r, in) BY <1>4, <1>6, InputAllowed
<1>8. /\ DriverInv(drv', DR) /\ Ready(drv') /\ drv'.rvalid = r.rvalid
      /\ drv'.active_r_q = r.active_r_q
      /\ drv'.active_r_beat_idx = r.active_r_beat_idx
  BY <1>4, <1>5, <1>7, CaptureSteps
<1>9. Axi4Inv' BY <1>3, <1>8 DEF Axi4Inv
<1>10. RBurstWhole
  <2> SUFFICES ASSUME drv.rvalid
               PROVE  LET e == drv.active_r_q[1]
                          idx == drv.active_r_beat_idx
                      IN \/ /\ drv'.rvalid /\ drv'.active_r_beat_idx = idx
                            /\ drv'.active_r_q = drv.active_r_q
                         \/ /\ idx + 1 < e.beats
                            /\ drv'.active_r_beat_idx = idx + 1
                            /\ drv'.active_r_q = drv.active_r_q
                         \/ idx + 1 = e.beats /\ Cmd(e) \in done'
                              /\ Cmd(e) \notin done
    BY DEF RBurstWhole
  <2> DEFINE e == drv.active_r_q[1]
             idx == drv.active_r_beat_idx
  <2>1. drv.active_r_q # <<>> BY <1>1 DEF Ready
  <2>2. drv \in Driver BY <1>1 DEF DriverInv
  <2>3. e \in Entry /\ e \in PlacesOf(drv)[6]
    BY <1>1, <2>1, <2>2, DriverFields, OneEntry, PlacesType
       DEF DriverInv, Queued
  <2>4. idx \in Nat /\ e.beats \in Nat /\ idx < e.beats
    BY <1>1, <2>1, <2>2, <2>3, DriverFields DEF DriverInv, ReadsWhole, Entry
  <2>5. Cmd(e) \notin done
    <3>1. e.op \in Op /\ e.num \in Nat /\ 6 \in Slot BY <2>3 DEF Entry, Slot
    <3>2. InSlot(PlacesOf(drv), e.op, e.num) BY <2>3, <3>1 DEF InSlot
    <3>3. ~InDone(done, e.op, e.num)
      BY <1>1, <3>1, <3>2 DEF DriverInv, Booked, Books, Ledger, Accounted
    <3>4. Cmd(e).op = e.op /\ Cmd(e).num = e.num BY DEF Cmd
    <3> QED BY <3>3, <3>4 DEF InDone
  <2>6. CASE ~in.rready BY <1>2, <1>4, <1>8, <2>6
  <2>7. CASE in.rready /\ ~RLast(drv)
    <3>1. idx + 1 < e.beats BY <2>4, <2>7 DEF RLast
    <3>2. ~RLast(b) BY <1>2, <2>7 DEF RLast
    <3> QED BY <1>2, <1>4, <1>8, <2>7, <3>1, <3>2
  <2>8. CASE in.rready /\ RLast(drv)
    <3>1. idx + 1 = e.beats BY <2>4, <2>8 DEF RLast
    <3>2. Cmd(e) \in done'
      BY <2>8 DEF Edge, RBurstTaken, RTaken
    <3> QED BY <2>5, <3>1, <3>2
  <2> QED BY <2>6, <2>7, <2>8
<1> QED BY <1>9, <1>10

(* Nothing is anywhere in a driver that was just reset.                    *)
LEMMA IdleInv ==
  ASSUME NEW c \in Cfg
  PROVE  DriverInv(Idle(c), {}) /\ Ready(Idle(c))
<1> DEFINE d == Idle(c)
<1>1. /\ d.cfg = c /\ d.pending_aw_q = <<>> /\ d.pending_b_q = <<>>
      /\ d.pending_r_q = <<>> /\ d.active_b = <<>> /\ d.active_r_q = <<>>
      /\ d.active_r_beat_idx = 0 /\ d.req_port = {}
      /\ d.inflight_rd_count = 0 /\ d.inflight_wr_count = 0
      /\ d.observed_aw_count = 0 /\ d.observed_ar_count = 0
      /\ d.rvalid = FALSE /\ d.awready = FALSE /\ d.wready = FALSE
      /\ d.arready = FALSE
  BY DEF Idle
<1>2. d \in Driver BY NoEntry, Zenon DEF Idle, Driver
<1> HIDE DEF d
<1>3. Booked(d, {})
  <2> DEFINE W == PlacesOf(d)
  <2>1. W \in [Slot -> SUBSET Entry] /\ \A k \in Slot : W[k] = {}
    BY <1>1, <1>2, NoEntry, PlacesType
  <2>2. Accepted(d) \in [Op -> Nat] /\ \A o \in Op : Accepted(d)[o] = 0
    BY <1>1 DEF Accepted
  <2> HIDE DEF W
  <2>3. Ledger(W, {}, Accepted(d))
    BY <2>1, <2>2 DEF Ledger, OnePlace, Accounted, InSlot, InDone
  <2>4. \A o : Counted(W, o, 0)
    <3>1. \A o : Given(W, o) = {} BY <2>1 DEF Given, Slot
    <3>2. IsFiniteSet({}) /\ Cardinality({}) = 0 BY FS_EmptySet
    <3> QED BY <3>1, <3>2 DEF Counted
  <2> QED BY <1>1, <2>3, <2>4 DEF Booked, Books, W
<1>4. Queued(d) BY <1>1, NoEntry DEF Queued
<1>5. WritesWhole(d)
  <2>1. DOMAIN <<>> = {} /\ 2 .. Len(<<>>) = {} OBVIOUS
  <2> QED BY <1>1, <2>1 DEF WritesWhole
<1>6. ReadsWhole(d) BY <1>1 DEF ReadsWhole
<1>7. Limited(d) BY <1>1, <1>2, NoEntry, CfgFacts DEF Limited, Within
<1>8. Ready(d) BY <1>1 DEF Ready
<1> QED BY <1>2, <1>3, <1>4, <1>5, <1>6, <1>7, <1>8 DEF DriverInv, d

(***************************************************************************)
(* What the invariant says                                                 *)
(***************************************************************************)

LEMMA PlaceOfWaiting ==
  ASSUME drv \in Driver
  PROVE  /\ Places = PlacesOf(drv) /\ DOMAIN Places = Slot
         /\ \A e : e \in Waiting <=> \E i \in Slot : e \in PlacesOf(drv)[i]
<1>1. Places = PlacesOf(drv) BY DEF Places, PlacesOf
<1>2. DOMAIN Places = Slot BY <1>1, PlacesType
<1>3. SeqSet(Places) = {PlacesOf(drv)[i] : i \in Slot}
  BY <1>1, <1>2 DEF SeqSet
<1> QED BY <1>1, <1>2, <1>3 DEF Waiting

(* The outputs' tests and the reasons they are given, at any time.         *)
LEMMA ReasonsTrue ==
  ASSUME NEW d
  PROVE  /\ can_accept_aw(d) <=> get_aw_block_reason(d) = "NONE"
         /\ can_accept_ar(d) <=> get_ar_block_reason(d) = "NONE"
         /\ can_accept_w(d) <=> get_w_block_reason(d) = "NONE"
  BY DEF can_accept_aw, can_accept_ar, can_accept_w,
         get_aw_block_reason, get_ar_block_reason, get_w_block_reason

LEMMA InvLimits ==
  ASSUME Axi4Inv
  PROVE  LimitsExact
<1> DEFINE W == PlacesOf(drv)
<1>1. drv \in Driver BY DEF Axi4Inv, DriverInv
<1>2. ASSUME NEW o \in Op PROVE {e \in Backed : e.op = o} = Given(W, o)
  <2>1. \A e \in Waiting : e \in Entry BY <1>1, PlaceOfWaiting, PlacesType
  <2>2. \A e \in Waiting : e \notin SeqSet(drv.pending_aw_q)
                             <=> \E i \in 2 .. 6 : e \in W[i]
    <3> SUFFICES ASSUME NEW e \in Waiting
                 PROVE  e \notin W[1] <=> \E i \in 2 .. 6 : e \in W[i]
      BY <1>1, PlacesType
    <3>1. PICK k \in Slot : e \in W[k] BY <1>1, PlaceOfWaiting
    <3>2. \A i \in 2 .. 6 : i \in Slot /\ i # 1 BY DEF Slot
    <3>3. 1 \in Slot /\ (k # 1 => k \in 2 .. 6) BY DEF Slot
    <3>4. \A i, j \in Slot : e \in W[i] /\ e \in W[j] => i = j
      BY DEF Axi4Inv, DriverInv, Booked, Books, Ledger, OnePlace, SameCmd
    <3> QED BY <3>1, <3>2, <3>3, <3>4
  <2>3. \A e \in Entry : (\E i \in 2 .. 6 : e \in W[i]) => e \in Waiting
    <3>1. \A i \in 2 .. 6 : i \in Slot BY DEF Slot
    <3> QED BY <1>1, <3>1, PlaceOfWaiting
  <2> QED BY <2>1, <2>2, <2>3 DEF Backed, Given
<1>3. /\ drv.inflight_rd_count = Cardinality(Given(W, "RD"))
      /\ drv.inflight_wr_count = Cardinality(Given(W, "WR"))
  BY DEF Axi4Inv, DriverInv, Booked, Books, Counted
<1>4. OutstandingExact
  <2>1. "RD" \in Op /\ "WR" \in Op BY DEF Op
  <2>2. Limited(drv) BY DEF Axi4Inv, DriverInv
  <2> QED BY <1>2, <1>3, <2>1, <2>2 DEF OutstandingExact, Limited, Within
<1>5. ReadyExplained BY ReasonsTrue DEF ReadyExplained
<1> QED BY <1>4, <1>5 DEF LimitsExact

LEMMA InvAnswered ==
  ASSUME Axi4Inv
  PROVE  AnsweredOnce
<1> DEFINE W == PlacesOf(drv)
           C == Accepted(drv)
<1>1. drv \in Driver /\ Ledger(W, done, C)
  BY DEF Axi4Inv, DriverInv, Booked, Books
<1>2. \A e \in Waiting : e \in Entry BY <1>1, PlaceOfWaiting, PlacesType
<1>3. \A e : Cmd(e).op = e.op /\ Cmd(e).num = e.num BY DEF Cmd
<1>4. ASSUME NEW e \in Waiting
      PROVE  e.op \in Op /\ e.num \in Nat /\ InSlot(W, e.op, e.num)
  BY <1>1, <1>2, PlaceOfWaiting DEF Entry, InSlot
<1>5. {Cmd(e) : e \in Waiting} \cap done = {}
  <2> SUFFICES ASSUME NEW e \in Waiting, Cmd(e) \in done PROVE FALSE
    OBVIOUS
  <2>1. InDone(done, e.op, e.num) BY <1>3 DEF InDone
  <2> QED BY <1>1, <1>4, <2>1 DEF Ledger, Accounted
<1>6. ASSUME NEW e \in Waiting
      PROVE  Cardinality({i \in DOMAIN Places : e \in Places[i]}) = 1
  <2>1. PICK k \in Slot : e \in W[k] BY <1>1, PlaceOfWaiting
  <2>2. \A i \in Slot : e \in W[i] => i = k
    BY <1>1, <2>1 DEF Ledger, OnePlace, SameCmd
  <2>3. {i \in DOMAIN Places : e \in Places[i]} = {k}
    BY <1>1, <2>1, <2>2, PlaceOfWaiting
  <2> QED BY <2>3, FS_Singleton
<1>7. ASSUME NEW o \in Op
      PROVE  {c.num : c \in {x \in {Cmd(e) : e \in Waiting} \cup done :
                               x.op = o}} = 1 .. C[o]
  <2> DEFINE S == {c.num : c \in {x \in {Cmd(e) : e \in Waiting} \cup done :
                                    x.op = o}}
  <2>1. \A n \in Nat : InSlot(W, o, n) \/ InDone(done, o, n) <=> n \in 1 .. C[o]
    BY <1>1 DEF Ledger, Accounted
  <2>2. ASSUME NEW n \in S PROVE n \in 1 .. C[o]
    <3>1. PICK c \in {Cmd(e) : e \in Waiting} \cup done : c.op = o /\ c.num = n
      OBVIOUS
    <3>2. CASE c \in {Cmd(e) : e \in Waiting}
      BY <1>3, <1>4, <2>1, <3>1, <3>2
    <3>3. CASE c \in done
      <4>1. InDone(done, o, n) BY <3>1, <3>3 DEF InDone
      <4>2. n \in Nat BY <1>1, <3>1, <3>3 DEF Ledger, Accounted
      <4> QED BY <2>1, <4>1, <4>2
    <3> QED BY <3>1, <3>2, <3>3
  <2>3. ASSUME NEW n \in 1 .. C[o] PROVE n \in S
    <3>1. n \in Nat BY <1>1 DEF Ledger
    <3>2. CASE InSlot(W, o, n)
      <4>1. PICK i \in Slot : \E e \in W[i] : e.op = o /\ e.num = n
        BY <3>2 DEF InSlot
      <4>2. PICK e \in W[i] : e.op = o /\ e.num = n BY <4>1
      <4>3. e \in Waiting BY <1>1, <4>2, PlaceOfWaiting
      <4> QED BY <1>3, <4>2, <4>3
    <3>3. CASE InDone(done, o, n) BY <3>3 DEF InDone
    <3> QED BY <2>1, <3>1, <3>2, <3>3
  <2> QED BY <2>2, <2>3
<1>8. C["WR"] = drv.observed_aw_count /\ C["RD"] = drv.observed_ar_count
      /\ "WR" \in Op /\ "RD" \in Op
  BY DEF Accepted, Op
<1> QED BY <1>5, <1>6, <1>7, <1>8 DEF AnsweredOnce

(***************************************************************************)
(* The theorems                                                            *)
(***************************************************************************)

LEMMA Axi4Init ==
  ASSUME Init
  PROVE  Axi4Inv
  BY IdleInv DEF Init, Axi4Inv

LEMMA Axi4Reset ==
  ASSUME Axi4Inv, Reset
  PROVE  Axi4Inv' /\ RBurstWhole
<1>1. drv.cfg \in Cfg BY CfgFacts DEF Axi4Inv, DriverInv
<1>2. Axi4Inv' BY <1>1, IdleInv DEF Reset, Axi4Inv
<1>3. RBurstWhole BY DEF Reset, RBurstWhole
<1> QED BY <1>2, <1>3

LEMMA Axi4Answer ==
  ASSUME Axi4Inv, NEW e \in drv.req_port, Answer(e)
  PROVE  Axi4Inv' /\ RBurstWhole
<1>1. drv' = complete([drv EXCEPT !.req_port = @ \ {e}], Returned(e))
      /\ done' = done
  BY DEF Answer, Returned
<1>2. DriverInv(drv', done) /\ Ready(drv') /\ SameBus(drv, drv')
  BY <1>1, AnswerStep DEF Axi4Inv
<1>3. Axi4Inv' BY <1>1, <1>2 DEF Axi4Inv
<1>4. RBurstWhole BY <1>2 DEF RBurstWhole, SameBus
<1> QED BY <1>3, <1>4

LEMMA InvWritesWhole ==
  ASSUME Axi4Inv
  PROVE  WriteDataWhole
  BY DEF Axi4Inv, DriverInv, WritesWhole, Ready, WriteDataWhole

LEMMA Axi4Next ==
  ASSUME Axi4Inv, [Next]_vars
  PROVE  Axi4Inv' /\ [RBurstWhole]_vars
<1>1. CASE \E in \in Input(BOOLEAN, Due) : Edge(in) BY <1>1, EdgeStep
<1>2. CASE \E e \in drv.req_port : Answer(e) BY <1>2, Axi4Answer
<1>3. CASE Reset BY <1>3, Axi4Reset
<1>4. CASE UNCHANGED vars
  <2>1. Axi4Inv' BY <1>4 DEF vars, Axi4Inv
  <2> QED BY <1>4, <2>1
<1> QED BY <1>1, <1>2, <1>3, <1>4 DEF Next

THEOREM Axi4Invariant == Spec => []Axi4Inv
<1>1. Init => Axi4Inv BY Axi4Init
<1>2. Axi4Inv /\ [Next]_vars => Axi4Inv' BY Axi4Next
<1> QED BY <1>1, <1>2, PTL DEF Spec

(* The counters that decide readiness are exact, and the outstanding       *)
(* limits hold, although a ready output was tested an edge before the      *)
(* address it lets in; the reasons reported for a low output are true.     *)
THEOREM LimitsAreExact == Spec => []LimitsExact
<1>1. Axi4Inv => LimitsExact BY InvLimits
<1> QED BY <1>1, Axi4Invariant, PTL

(* Every accepted command is in exactly one queue, register or with the    *)
(* backend until it is answered on the bus, once; only a reset forgets it. *)
THEOREM CommandsAnsweredOnce == Spec => []AnsweredOnce
<1>1. Axi4Inv => AnsweredOnce BY InvAnswered
<1> QED BY <1>1, Axi4Invariant, PTL

(* However the manager places WLAST, the backend gets writes with all of   *)
(* their beats, and on R a burst's beats follow each other to the last,    *)
(* each held until taken, before another burst.                            *)
THEOREM BurstsAreWhole == Spec => BurstsWhole
<1>1. Axi4Inv => WriteDataWhole BY InvWritesWhole
<1>2. Axi4Inv /\ [Next]_vars => Axi4Inv' /\ [RBurstWhole]_vars
  BY Axi4Next
<1>3. Axi4Inv' => WriteDataWhole' BY <1>1, PTL
<1>4. Axi4Inv /\ [Next]_vars => [WriteDataWhole' /\ RBurstWhole]_vars
  BY <1>2, <1>3
<1> QED BY <1>4, Axi4Invariant, PTL DEF Spec, BurstsWhole

(***************************************************************************)
(* The exclusive monitor                                                   *)
(***************************************************************************)

Calm(d, d2) ==
  /\ d2.req_port = d.req_port
  /\ d2.exclusive_reservations = d.exclusive_reservations

(* No reservation outlives a write that is sent over it, and an exclusive  *)
(* write is sent on a reservation that is gone with it.                    *)
Watched(d, d2) ==
  \A e \in d2.req_port \ d.req_port : e.op = "WR" =>
    /\ \A s \in d2.exclusive_reservations : ~ranges_overlap(s, e)
    /\ e.excl => /\ Reservation(e) \in d.exclusive_reservations
                 /\ Reservation(e) \notin d2.exclusive_reservations

LEMMA CalmWrite ==
  ASSUME NEW d, NEW D, DriverInv(d, D), NEW in
  PROVE  Calm(d, advance_write_rsp_channel(d, in))
<1> DEFINE d1 == IF BTaken(d, in) THEN retire_b(d) ELSE d
<1>1. d \in Driver BY DEF DriverInv
<1>2. d1 \in Driver /\ Calm(d, d1)
  <2>1. CASE BTaken(d, in)
    <3>1. retire_b(d) \in Driver BY <2>1, RetireB DEF BTaken, DriverInv
    <3>2. Calm(d, retire_b(d)) BY <1>1 DEF retire_b, Driver, Calm
    <3> QED BY <2>1, <3>1, <3>2
  <2>2. CASE ~BTaken(d, in) BY <1>1, <2>2 DEF Calm
  <2> QED BY <2>1, <2>2
<1>3. \/ advance_write_rsp_channel(d, in) = d1
      \/ advance_write_rsp_channel(d, in) =
           [d1 EXCEPT !.active_b = <<Head(d1.pending_b_q)>>,
                      !.pending_b_q = Tail(@)]
  BY DEF advance_write_rsp_channel
<1> HIDE DEF d1
<1>4. Calm(d1, [d1 EXCEPT !.active_b = <<Head(d1.pending_b_q)>>,
                          !.pending_b_q = Tail(@)])
  BY <1>2 DEF Driver, Calm
<1> QED BY <1>2, <1>3, <1>4 DEF Calm

LEMMA CalmRead ==
  ASSUME NEW d, NEW D, DriverInv(d, D), NEW in,
         d.rvalid => d.active_r_q # <<>>
  PROVE  Calm(d, advance_read_rsp_channel(d, in))
<1> DEFINE r == IF RTaken(d, in) THEN retire_r(d) ELSE d
           f == fill_active_r_streams(r)
           v == f.active_r_q # <<>> /\ BeatDue(f.active_r_q[1], in.rdue)
<1>1. d \in Driver BY DEF DriverInv
<1>2. (\E D2 : DriverInv(r, D2)) /\ Calm(d, r)
  <2>1. CASE RTaken(d, in)
    <3>1. d.active_r_q # <<>> BY <2>1 DEF RTaken
    <3>2. \E D2 : DriverInv(retire_r(d), D2)
      <4>1. CASE RLast(d) BY <3>1, <4>1, RetireR
      <4>2. CASE ~RLast(d) BY <3>1, <4>2, NextBeat
      <4> QED BY <4>1, <4>2
    <3>3. Calm(d, retire_r(d)) BY <1>1 DEF retire_r, Driver, Calm
    <3> QED BY <2>1, <3>2, <3>3
  <2>2. CASE ~RTaken(d, in)
    <3>1. Calm(d, d) BY DEF Calm
    <3> QED BY <2>2, <3>1
  <2> QED BY <2>1, <2>2
<1> HIDE DEF r
<1>3. r \in Driver BY <1>2 DEF DriverInv
<1>4. f \in Driver /\ Calm(r, f)
  <2>1. CASE r.active_r_q # <<>> \/ r.pending_r_q = <<>>
    <3>1. f = r BY <2>1 DEF fill_active_r_streams
    <3> QED BY <1>3, <3>1 DEF Calm
  <2>2. CASE r.active_r_q = <<>> /\ r.pending_r_q # <<>>
    <3>1. f = load_r(r) BY <2>2 DEF fill_active_r_streams, load_r
    <3>2. load_r(r) \in Driver BY <1>2, <2>2, LoadR DEF DriverInv
    <3>3. Calm(r, load_r(r)) BY <1>3 DEF load_r, Driver, Calm
    <3> QED BY <3>1, <3>2, <3>3
  <2> QED BY <2>1, <2>2
<1>5. \/ advance_read_rsp_channel(d, in) = d
      \/ advance_read_rsp_channel(d, in) = [f EXCEPT !.rvalid = v]
  BY DEF advance_read_rsp_channel, r
<1> HIDE DEF f, v
<1>6. Calm(f, [f EXCEPT !.rvalid = v]) BY <1>4 DEF Driver, Calm
<1> QED BY <1>2, <1>4, <1>5, <1>6 DEF Calm

LEMMA ReservationKept ==
  ASSUME NEW d \in Driver, NEW e \in Entry
  PROVE  /\ (e.pre \/ e.op = "WR") /\ e.pre \in BOOLEAN =>
              complete(d, e).exclusive_reservations = d.exclusive_reservations
         /\ issue_request(d, e).exclusive_reservations
              = d.exclusive_reservations
<1>1. e.op = "RD" \/ e.op = "WR" BY DEF Entry, Op
<1>2. ASSUME e.pre \/ e.op = "WR", e.pre \in BOOLEAN
      PROVE  complete(d, e).exclusive_reservations = d.exclusive_reservations
  <2>1. CASE e.op = "RD"
    <3>1. complete(d, e) = [d EXCEPT !.pending_r_q = Append(@, e)]
      BY <1>2, <2>1 DEF complete
    <3> QED BY <3>1 DEF Driver
  <2>2. CASE e.op = "WR"
    <3>1. complete(d, e) = [d EXCEPT !.pending_b_q = Append(@, e)]
      BY <1>2, <2>2 DEF complete
    <3> QED BY <3>1 DEF Driver
  <2> QED BY <1>1, <2>1, <2>2
<1>3. issue_request(d, e).exclusive_reservations = d.exclusive_reservations
  <2>1. CASE e.op = "RD" BY <2>1 DEF issue_request, Driver
  <2>2. CASE e.op = "WR" BY <2>2 DEF issue_request, Driver
  <2> QED BY <1>1, <2>1, <2>2
<1> QED BY <1>2, <1>3

(* The burst that a last beat completes.                                   *)
LEMMA FinishWatched ==
  ASSUME NEW d \in Driver, NEW e \in Entry, e.op = "WR"
  PROVE  Watched(d, finish_write(d, e))
<1> DEFINE d1 == IF e.excl /\ ~e.pre
                 THEN check_and_clear_exclusive_reservation(d, e) ELSE d
           e1 == Resolved(d, e)
           db == invalidate_exclusive_reservations(d1, e)
           d2 == finish_write(d, e)
<1>1. /\ e1 \in Entry /\ (~e1.pre => e1 = e)
      /\ e1.pre => d2.req_port = d.req_port
      /\ ~e1.pre => d2.req_port = d.req_port \cup {e1}
  BY Finishes DEF SameCounts
<1>2. CASE e1.pre BY <1>1, <1>2 DEF Watched
<1>3. CASE ~e1.pre
  <2>1. e1 = e /\ ~e.pre BY <1>1, <1>3
  <2>2. ~ExclusiveFails(d, e)
    <3>1. CASE ExclusiveFails(d, e)
      <4>1. e1.pre = TRUE BY <2>1, <3>1 DEF Resolved, Entry
      <4> QED BY <1>3, <4>1
    <3> QED BY <3>1
  <2>3. d2 = issue_request(db, e) BY <1>3, <2>1 DEF finish_write
  <2>4. /\ check_and_clear_exclusive_reservation(d, e) \in Driver
        /\ check_and_clear_exclusive_reservation(d, e).exclusive_reservations
             = {s \in d.exclusive_reservations : ~SameKey(s, e)}
    <3>1. /\ check_and_clear_exclusive_reservation(d, e) \in Driver
          /\ Alike(d, check_and_clear_exclusive_reservation(d, e))
      BY Registers, ReservationsFree
    <3> QED BY <3>1 DEF check_and_clear_exclusive_reservation, Driver
  <2>5. d1 \in Driver /\ (e.excl => d1.exclusive_reservations
             = {s \in d.exclusive_reservations : ~SameKey(s, e)})
    BY <2>1, <2>4
  <2> HIDE DEF d1, e1, d2
  <2>6. /\ db \in Driver
        /\ db.exclusive_reservations
             = {s \in d1.exclusive_reservations : ~ranges_overlap(s, e)}
    <3>1. db \in Driver /\ Alike(d1, db)
      BY <2>5, Registers, ReservationsFree
    <3> QED BY <2>5, <3>1 DEF invalidate_exclusive_reservations, Driver
  <2> HIDE DEF db
  <2>7. d2.exclusive_reservations = db.exclusive_reservations
    BY <2>3, <2>6, ReservationKept
  <2>8. e.excl => /\ Reservation(e) \in d.exclusive_reservations
                  /\ Reservation(e) \notin d2.exclusive_reservations
    <3>1. SameKey(Reservation(e), e) BY DEF SameKey, Reservation
    <3> QED BY <2>2, <2>5, <2>6, <2>7, <3>1 DEF ExclusiveFails
  <2>9. \A s \in d2.exclusive_reservations : ~ranges_overlap(s, e)
    BY <2>6, <2>7
  <2> QED BY <1>1, <1>3, <2>1, <2>8, <2>9 DEF Watched, d2
<1> QED BY <1>2, <1>3

LEMMA CaptureWatched ==
  ASSUME NEW d, NEW D, DriverInv(d, D), NEW in, Allowed(d, in)
  PROVE  Watched(d, drive_accept_outputs(captures(d, in)))
<1> DEFINE a == capture_aw(d, in.aw)
           w == capture_w(a, in.w)
           r == capture_ar(w, in.ar)
           o == advance_w_data_buffer_model(r, in.w)
           d2 == drive_accept_outputs(o)
<1>1. /\ DriverInv(a, D)
      /\ Calm(d, a) /\ a.cfg = d.cfg
      /\ a.inflight_rd_count = d.inflight_rd_count
      /\ d.pending_aw_q # <<>> =>
           /\ a.pending_aw_q # <<>>
           /\ Head(a.pending_aw_q) = Head(d.pending_aw_q)
  <2>1. CASE in.aw = None
    <3>1. a = d BY <2>1 DEF capture_aw
    <3> QED BY <3>1 DEF Calm
  <2>2. CASE in.aw # None
    <3>1. in.aw \in Kind /\ in.aw.op = "WR" /\ AwRoom(d)
      BY <2>2 DEF Allowed
    <3>2. Calm(d, a) BY <2>2 DEF capture_aw, Calm, DriverInv, Driver
    <3> HIDE DEF a
    <3> QED BY <3>1, <3>2, CaptureAw DEF a
  <2> QED BY <2>1, <2>2
<1> HIDE DEF a
<1>2. a \in Driver BY <1>1 DEF DriverInv
<1>3. /\ DriverInv(w, D) /\ Watched(a, w) /\ w.cfg = d.cfg
      /\ w.inflight_rd_count = d.inflight_rd_count
  <2>1. CASE in.w = "none"
    <3>1. w = a BY <2>1 DEF capture_w
    <3> QED BY <1>1, <3>1 DEF Watched
  <2>2. CASE in.w = "last"
    <3>1. a.pending_aw_q # <<>> BY <1>1, <2>2 DEF Allowed
    <3>2. DriverInv(w, D) /\ w.cfg = a.cfg
          /\ w.inflight_rd_count = a.inflight_rd_count
      BY <1>1, <2>2, <3>1, LastBeat
    <3>3. Watched(a, w)
      <4> DEFINE e == WithBeat(Head(a.pending_aw_q), TRUE)
                 q == Tail(a.pending_aw_q)
                 d0 == [a EXCEPT !.pending_aw_q = q]
      <4>1. w = finish_write(d0, e) BY <2>2 DEF capture_w
      <4>2. e \in Entry /\ e.op = "WR" BY <1>1, <3>1, HeadFacts, BeatFacts
      <4>3. q \in Seq(Entry) BY <1>2, <3>1, DriverFields, QueueTail
      <4> HIDE DEF e, q
      <4>4. d0 \in Driver BY <1>2, <4>3, Zenon DEF Driver
      <4>5. Calm(a, d0) BY <1>2 DEF Calm, Driver
      <4> HIDE DEF d0
      <4>6. Watched(d0, w) BY <4>1, <4>2, <4>4, FinishWatched
      <4> QED BY <4>5, <4>6 DEF Watched, Calm
    <3> QED BY <1>1, <3>2, <3>3
  <2>3. CASE in.w = "data"
    <3>1. a.pending_aw_q # <<>>
          /\ Head(a.pending_aw_q).captured < Head(a.pending_aw_q).beats
      BY <1>1, <2>3 DEF Allowed
    <3>2. DriverInv(w, D) /\ w.cfg = a.cfg
          /\ w.inflight_rd_count = a.inflight_rd_count
      BY <1>1, <2>3, <3>1, DataBeat
    <3>3. w.req_port = a.req_port BY <1>2, <2>3 DEF capture_w, Driver
    <3> QED BY <1>1, <3>2, <3>3 DEF Watched
  <2> QED BY <2>1, <2>2, <2>3 DEF Allowed
<1> HIDE DEF w
<1>4. w \in Driver BY <1>3 DEF DriverInv
<1>5. /\ r \in Driver /\ r.exclusive_reservations = w.exclusive_reservations
      /\ \A e \in r.req_port : e \in w.req_port \/ e.op # "WR"
  <2>1. CASE in.ar = None
    <3>1. r = w BY <2>1 DEF capture_ar
    <3> QED BY <1>4, <3>1
  <2>2. CASE in.ar # None
    <3>1. in.ar \in Kind /\ in.ar.op = "RD" /\ ArRoom(w)
      BY <1>3, <2>2 DEF Allowed, ArRoom
    <3>2. r \in Driver BY <1>3, <3>1, CaptureAr DEF DriverInv
    <3> DEFINE n == w.observed_ar_count + 1
               e == build_addr_entry(in.ar, n)
               d1 == [w EXCEPT !.observed_ar_count = n]
    <3>3. n \in Nat \ {0} BY <1>4, DriverFields
    <3>4. e \in Entry /\ e.op = "RD" /\ e.pre \in BOOLEAN
      BY <3>1, <3>3, Built DEF Entry
    <3>5. r = IF e.pre THEN complete(d1, e) ELSE issue_request(d1, e)
      BY <2>2 DEF capture_ar
    <3> HIDE DEF n, e, r
    <3>6. d1 \in Driver BY <1>4, <3>3, Zenon DEF Driver
    <3>7. Calm(w, d1) BY <1>4 DEF Calm, Driver
    <3> HIDE DEF d1
    <3>8. CASE e.pre
      <4>1. SameCounts(d1, r)
        <5>1. SameCounts(d1, complete(d1, e)) BY <3>4, <3>6, Completes
        <5> QED BY <3>5, <3>8, <5>1
      <4>2. r.exclusive_reservations = d1.exclusive_reservations
        <5>1. complete(d1, e).exclusive_reservations
                = d1.exclusive_reservations
          BY <3>4, <3>6, <3>8, ReservationKept
        <5> QED BY <3>5, <3>8, <5>1
      <4> QED BY <3>2, <3>7, <4>1, <4>2 DEF Calm, SameCounts
    <3>9. CASE ~e.pre
      <4>1. r.req_port = d1.req_port \cup {e}
        <5>1. issue_request(d1, e).req_port = d1.req_port \cup {e}
          BY <3>4, <3>6, Issues
        <5> QED BY <3>5, <3>9, <5>1
      <4>2. r.exclusive_reservations = d1.exclusive_reservations
        <5>1. issue_request(d1, e).exclusive_reservations
                = d1.exclusive_reservations
          BY <3>4, <3>6, ReservationKept
        <5> QED BY <3>5, <3>9, <5>1
      <4> QED BY <3>2, <3>4, <3>7, <4>1, <4>2 DEF Calm
    <3> QED BY <3>8, <3>9
  <2> QED BY <2>1, <2>2
<1> HIDE DEF r
<1>6. Calm(r, d2)
  BY <1>5 DEF Calm, Driver, advance_w_data_buffer_model, drive_accept_outputs
<1>7. captures(d, in) = o BY DEF captures, r, w, a
<1> HIDE DEF d2, o
<1>8. Watched(d, d2) BY <1>1, <1>3, <1>5, <1>6 DEF Watched, Calm
<1> QED BY <1>7, <1>8 DEF d2

LEMMA EdgeWatched ==
  ASSUME Axi4Inv, NEW in \in Input(BOOLEAN, Due), Edge(in)
  PROVE  Watched(drv, drv')
<1> DEFINE b == advance_write_rsp_channel(drv, in)
           r == advance_read_rsp_channel(b, in)
<1>1. DriverInv(drv, done) /\ Ready(drv) BY DEF Axi4Inv
<1>2. /\ \E D : DriverInv(b, D)
      /\ Easier(drv, b) /\ Calm(drv, b)
      /\ b.active_r_q = drv.active_r_q /\ b.rvalid = drv.rvalid
  BY <1>1, WriteResponses, CalmWrite
<1> HIDE DEF b
<1>3. PICK DB : DriverInv(b, DB) BY <1>2
<1>4. b.rvalid => b.active_r_q # <<>> BY <1>1, <1>2 DEF Ready
<1>5. (\E D : DriverInv(r, D)) /\ Easier(b, r) /\ Calm(b, r)
  BY <1>3, <1>4, ReadResponses, CalmRead
<1>6. drv' = drive_accept_outputs(captures(r, in))
  BY DEF Edge, responses, r, b
<1> HIDE DEF r
<1>7. PICK DR : DriverInv(r, DR) BY <1>5
<1>8. Easier(drv, r)
  <2>1. drv \in Driver /\ b \in Driver /\ r \in Driver
    BY <1>1, <1>3, <1>7 DEF DriverInv
  <2>2. /\ drv.inflight_wr_count \in Nat /\ b.inflight_wr_count \in Nat
        /\ r.inflight_wr_count \in Nat
        /\ drv.inflight_rd_count \in Nat /\ b.inflight_rd_count \in Nat
        /\ r.inflight_rd_count \in Nat
    BY <2>1, DriverFields
  <2> QED BY <1>2, <1>5, <2>2 DEF Easier
<1>9. Allowed(r, in) BY <1>7, <1>8, InputAllowed
<1>10. Watched(r, drv') BY <1>6, <1>7, <1>9, CaptureWatched
<1> QED BY <1>2, <1>5, <1>10 DEF Watched, Calm

LEMMA ExclStep ==
  ASSUME Axi4Inv, sent_over = {}, [ExclNext]_exclVars
  PROVE  sent_over' = {} /\ [ReservationUsedOnce]_exclVars
<1>1. CASE ExclNext
  <2>1. Watched(drv, drv')
    <3>1. CASE \E in \in Input(BOOLEAN, Due) : Edge(in)
      BY <3>1, EdgeWatched
    <3>2. CASE \E e \in drv.req_port : Answer(e)
      <4>1. PICK e \in drv.req_port : Answer(e) BY <3>2
      <4>2. drv'.req_port \subseteq drv.req_port
        <5> DEFINE d1 == [drv EXCEPT !.req_port = @ \ {e}]
        <5>1. drv \in Driver /\ e \in Entry
          BY DriverFields DEF Axi4Inv, DriverInv
        <5>2. drv' = complete(d1, Returned(e)) BY <4>1 DEF Answer, Returned
        <5>3. d1 \in Driver /\ d1.req_port = drv.req_port \ {e}
          <6>1. drv.req_port \ {e} \in SUBSET Entry BY <5>1, DriverFields
          <6>2. d1 \in Driver BY <5>1, <6>1, Zenon DEF Driver
          <6> QED BY <5>1, <6>2 DEF Driver
        <5> HIDE DEF d1
        <5>4. Returned(e) \in Entry
          <6> DEFINE x == IF e.excl THEN "EXOKAY" ELSE "OKAY"
          <6>1. x \in {"OKAY", "SLVERR", "DECERR", "EXOKAY"} OBVIOUS
          <6>2. Returned(e) = [e EXCEPT !.resp = x] BY DEF Returned
          <6> HIDE DEF x
          <6> QED BY <5>1, <6>1, <6>2, Zenon DEF Entry
        <5>5. SameCounts(d1, complete(d1, Returned(e)))
          BY <5>3, <5>4, Completes
        <5> QED BY <5>2, <5>3, <5>5 DEF SameCounts
      <4> QED BY <4>2 DEF Watched
    <3>3. CASE Reset BY <3>3 DEF Reset, Idle, Watched
    <3> QED BY <1>1, <3>1, <3>2, <3>3 DEF ExclNext, Next
  <2>2. \A s \in Kept : \A e \in Sent : ~ranges_overlap(s, e)
    BY <2>1 DEF Watched, Kept, Sent
  <2>3. sent_over' = {} BY <1>1, <2>2 DEF ExclNext
  <2>4. ReservationUsedOnce BY <2>1 DEF ReservationUsedOnce, Watched, Sent
  <2> QED BY <2>3, <2>4
<1>2. CASE UNCHANGED exclVars BY <1>2 DEF exclVars
<1> QED BY <1>1, <1>2

(* A reservation never outlives a write to its bytes, and an exclusive     *)
(* write reaches the backend only on a reservation that it uses up.        *)
THEOREM ExclusiveWritesSound == ExclSpec => ExclusiveSound
<1>1. ExclInit => Axi4Inv /\ NoneSentOver
  BY Axi4Init DEF ExclInit, NoneSentOver
<1>2. Axi4Inv /\ [ExclNext]_exclVars => Axi4Inv'
  BY Axi4Next DEF ExclNext, exclVars
<1>3. Axi4Inv /\ NoneSentOver /\ [ExclNext]_exclVars => NoneSentOver'
  BY ExclStep DEF NoneSentOver
<1>4. Axi4Inv /\ NoneSentOver /\ [ExclNext]_exclVars
        => [NoneSentOver' /\ ReservationUsedOnce]_exclVars
  BY <1>3, ExclStep DEF NoneSentOver
<1> QED BY <1>1, <1>2, <1>3, <1>4, PTL DEF ExclSpec, ExclusiveSound

(***************************************************************************)
(* The port's FIFOs: which numbers a stream has at the backend, in order.  *)
(***************************************************************************)

(* q lists the numbers of S in rising order.                               *)
Lists(q, S) ==
  /\ q \in Seq(Nat) /\ S = SeqSet(q)
  /\ \A i, j \in 1 .. Len(q) : i < j => q[i] < q[j]

(* What Axi4Driver's InOrder makes of a set of numbers.                    *)
Listed(S) ==
  [i \in 1 .. Cardinality(S) |->
     CHOOSE n \in S : Cardinality({m \in S : m <= n}) = i]

LEMMA ListBelow ==
  ASSUME NEW q, NEW S, Lists(q, S), NEW i \in 0 .. Len(q)
  PROVE  Cardinality({q[j] : j \in 1 .. i}) = i
<1> DEFINE T == {q[j] : j \in 1 .. i}
           f == [j \in 1 .. i |-> q[j]]
<1>1. i \in Nat /\ Len(q) \in Nat /\ i <= Len(q) BY DEF Lists
<1>2. \A j \in 1 .. i : j \in 1 .. Len(q) BY <1>1
<1>3. \A j \in 1 .. Len(q) : q[j] \in Nat BY DEF Lists
<1>4. \A j, k \in 1 .. i : q[j] = q[k] => j = k
  <2> SUFFICES ASSUME NEW j \in 1 .. i, NEW k \in 1 .. i, q[j] = q[k], j # k
               PROVE  FALSE
    OBVIOUS
  <2>1. j \in Int /\ k \in Int /\ (j < k \/ k < j) BY <1>1
  <2>2. j \in 1 .. Len(q) /\ k \in 1 .. Len(q) BY <1>2
  <2>3. q[j] < q[k] \/ q[k] < q[j] BY <2>1, <2>2 DEF Lists
  <2>4. q[j] \in Nat /\ q[k] \in Nat BY <1>3, <2>2
  <2> QED BY <2>3, <2>4
<1>5. f \in [1 .. i -> T] /\ \A j \in 1 .. i : f[j] = q[j] OBVIOUS
<1>6. \A t \in T : \E j \in 1 .. i : f[j] = t BY <1>5
<1> HIDE DEF f, T
<1>7. f \in Injection(1 .. i, T)
  <2>1. \A j, k \in 1 .. i : f[j] = f[k] => j = k BY <1>4, <1>5
  <2> QED BY <1>5, <2>1, Zenon DEF Injection, IsInjective
<1>8. f \in Surjection(1 .. i, T) BY <1>5, <1>6 DEF Surjection
<1>9. ExistsBijection(1 .. i, T)
  BY <1>7, <1>8 DEF ExistsBijection, Bijection
<1> QED BY <1>1, <1>9, FS_CountingElements DEF T

(* The list of a set of numbers is the only one.                           *)
LEMMA ListIsListed ==
  ASSUME NEW q, NEW S, Lists(q, S)
  PROVE  Listed(S) = q
<1> DEFINE n == Len(q)
           Upto(m) == Cardinality({k \in S : k <= m})
<1>1. /\ n \in Nat /\ DOMAIN q = 1 .. n
      /\ \A j \in 1 .. n : q[j] \in Nat
  BY DEF Lists
<1>2. S = {q[j] : j \in 1 .. n} BY <1>1 DEF Lists, SeqSet
<1>3. Cardinality(S) = n
  <2>1. n \in 0 .. Len(q) BY <1>1
  <2> HIDE DEF n
  <2> QED BY <1>2, <2>1, ListBelow
<1>4. ASSUME NEW i \in 1 .. n PROVE Upto(q[i]) = i
  <2>1. i \in 0 .. n /\ i \in Nat BY <1>1
  <2>2. {k \in S : k <= q[i]} = {q[j] : j \in 1 .. i}
    <3>1. ASSUME NEW j \in 1 .. n PROVE q[j] <= q[i] <=> j <= i
      <4>1. j \in Int /\ i \in Int /\ q[i] \in Int /\ q[j] \in Int BY <1>1
      <4>2. (j < i => q[j] < q[i]) /\ (i < j => q[i] < q[j]) BY DEF Lists
      <4>3. j = i => q[j] = q[i] OBVIOUS
      <4> HIDE DEF n
      <4> QED BY <4>1, <4>2, <4>3
    <3>2. \A j \in 1 .. n : j <= i <=> j \in 1 .. i BY <1>1
    <3>3. \A j \in 1 .. i : j \in 1 .. n BY <1>1
    <3> QED BY <1>2, <3>1, <3>2, <3>3
  <2> QED BY <2>1, <2>2, ListBelow
<1>5. ASSUME NEW i \in 1 .. n
      PROVE  (CHOOSE m \in S : Upto(m) = i) = q[i]
  <2>1. q[i] \in S /\ Upto(q[i]) = i BY <1>2, <1>4
  <2>2. \A m \in S : Upto(m) = i => m = q[i] BY <1>2, <1>4
  <2> HIDE DEF Upto
  <2> QED BY <2>1, <2>2
<1>6. Listed(S) = [i \in 1 .. n |-> q[i]]
  <2>1. Listed(S) = [i \in 1 .. n |-> CHOOSE m \in S : Upto(m) = i]
    BY <1>3 DEF Listed
  <2> HIDE DEF Upto
  <2> QED BY <1>5, <2>1
<1>7. q = [i \in 1 .. n |-> q[i]] BY <1>1 DEF Lists
<1> QED BY <1>6, <1>7

LEMMA EmptyList == Lists(<<>>, {})
<1>1. <<>> \in Seq(Nat) /\ Len(<<>>) = 0 /\ 1 .. 0 = {} /\ DOMAIN <<>> = {}
  OBVIOUS
<1> QED BY <1>1 DEF Lists, SeqSet

(* The least number is the first of the list.                              *)
LEMMA ListTail ==
  ASSUME NEW q, NEW S, Lists(q, S), NEW n \in S, \A m \in S : n <= m
  PROVE  q # <<>> /\ Lists(Tail(q), S \ {n})
<1>1. /\ Len(q) \in Nat /\ DOMAIN q = 1 .. Len(q)
      /\ \A j \in 1 .. Len(q) : q[j] \in Nat
  BY DEF Lists
<1>2. PICK k \in 1 .. Len(q) : q[k] = n BY <1>1 DEF Lists, SeqSet
<1>3. q # <<>> /\ Len(q) >= 1 BY <1>1, <1>2
<1> DEFINE r == Tail(q)
<1>4. /\ r \in Seq(Nat) /\ Len(r) = Len(q) - 1 /\ DOMAIN r = 1 .. Len(q) - 1
      /\ \A j \in 1 .. Len(q) - 1 : r[j] = q[j + 1]
  BY <1>3 DEF Lists
<1>5. q[1] = n
  <2>1. 1 \in 1 .. Len(q) /\ q[1] \in S /\ (k = 1 \/ 1 < k)
    BY <1>1, <1>2 DEF Lists, SeqSet
  <2>2. k # 1 => q[1] < n BY <1>2, <2>1 DEF Lists
  <2>3. n <= q[1] /\ n \in Nat /\ q[1] \in Nat BY <1>1, <1>2, <2>1
  <2> QED BY <1>2, <2>1, <2>2, <2>3
<1> HIDE DEF r
<1>6. \A j \in 1 .. Len(q) - 1 : j + 1 \in 1 .. Len(q) /\ 1 < j + 1
  BY <1>1
<1>7. SeqSet(r) = S \ {n}
  <2>1. ASSUME NEW j \in 1 .. Len(q) - 1 PROVE r[j] \in S \ {n}
    <3>1. j + 1 \in 1 .. Len(q) /\ r[j] = q[j + 1] BY <1>4, <1>6
    <3>2. q[1] < q[j + 1] /\ q[j + 1] \in Nat /\ q[1] \in Nat
      BY <1>1, <1>3, <1>6, <3>1 DEF Lists
    <3>3. q[j + 1] \in S BY <1>1, <3>1 DEF Lists, SeqSet
    <3> QED BY <1>5, <3>1, <3>2, <3>3
  <2>2. ASSUME NEW m \in S \ {n} PROVE \E j \in 1 .. Len(q) - 1 : r[j] = m
    <3>1. PICK i \in 1 .. Len(q) : q[i] = m BY <1>1 DEF Lists, SeqSet
    <3>2. i - 1 \in 1 .. Len(q) - 1 /\ (i - 1) + 1 = i
      BY <1>1, <1>5, <3>1
    <3>3. r[i - 1] = q[i] BY <1>4, <3>2
    <3> QED BY <3>1, <3>2, <3>3
  <2>3. SeqSet(r) = {r[j] : j \in 1 .. Len(q) - 1} BY <1>4 DEF SeqSet
  <2> QED BY <2>1, <2>2, <2>3
<1>8. \A i, j \in 1 .. Len(r) : i < j => r[i] < r[j]
  <2> SUFFICES ASSUME NEW i \in 1 .. Len(q) - 1, NEW j \in 1 .. Len(q) - 1,
                      i < j
               PROVE  r[i] < r[j]
    BY <1>4
  <2>1. i + 1 \in 1 .. Len(q) /\ j + 1 \in 1 .. Len(q) /\ i + 1 < j + 1
    BY <1>1
  <2>2. r[i] = q[i + 1] /\ r[j] = q[j + 1] BY <1>4
  <2> QED BY <2>1, <2>2 DEF Lists
<1> QED BY <1>3, <1>4, <1>7, <1>8 DEF Lists, r

(* A number above all others is the last of the list.                      *)
LEMMA ListAppend ==
  ASSUME NEW q, NEW S, Lists(q, S), NEW n \in Nat, \A m \in S : m < n
  PROVE  Lists(Append(q, n), S \cup {n})
<1> DEFINE r == Append(q, n)
<1>1. /\ Len(q) \in Nat /\ DOMAIN q = 1 .. Len(q)
      /\ r \in Seq(Nat) /\ Len(r) = Len(q) + 1 /\ DOMAIN r = 1 .. Len(q) + 1
      /\ \A j \in 1 .. Len(q) : r[j] = q[j]
      /\ r[Len(q) + 1] = n
  BY DEF Lists
<1> HIDE DEF r
<1>2. \A j \in 1 .. Len(q) + 1 : j \in 1 .. Len(q) \/ j = Len(q) + 1
  BY <1>1
<1>3. SeqSet(r) = S \cup {n} BY <1>1, <1>2 DEF SeqSet, Lists
<1>4. \A j \in 1 .. Len(q) : q[j] < n BY <1>1 DEF Lists, SeqSet
<1>5. \A i, j \in 1 .. Len(r) : i < j => r[i] < r[j]
  <2> SUFFICES ASSUME NEW i \in 1 .. Len(q) + 1, NEW j \in 1 .. Len(q) + 1,
                      i < j
               PROVE  r[i] < r[j]
    BY <1>1
  <2>1. i \in 1 .. Len(q) BY <1>1
  <2>2. CASE j \in 1 .. Len(q) BY <1>1, <2>1, <2>2 DEF Lists
  <2>3. CASE j = Len(q) + 1 BY <1>1, <1>4, <2>1, <2>3
  <2> QED BY <1>2, <2>2, <2>3
<1> QED BY <1>1, <1>3, <1>5 DEF Lists, r

(* The numbers that stream s has in S: those of its commands that the      *)
(* backend was given.                                                      *)
Nums(S, s) == {e.num : e \in {f \in S : ~f.pre /\ SameStream(f, s)}}

(* A set of numbers loses its least one, or gains one above all, or not.   *)
Leaves(S, T) ==
  T = S \/ \E n \in S : (\A m \in S : n <= m) /\ T = S \ {n}

Joins(S, T) ==
  T = S \/ \E n \in 1 .. MaxWr + MaxRd : (\A m \in S : m < n) /\ T = S \cup {n}

(* Of one stream, what is in S was accepted before what is in T.           *)
Ahead(S, T) ==
  \A e \in S : \A f \in T :
    ~e.pre /\ ~f.pre /\ SameStream(e, f) => e.num < f.num

Rising(q) ==
  \A i, j \in DOMAIN q :
    i < j /\ ~q[i].pre /\ ~q[j].pre /\ SameStream(q[i], q[j])
      => q[i].num < q[j].num

(* A response channel: A on the bus, q waiting for it, Q at the backend.   *)
Channel(A, q, Q) ==
  Ahead(A, SeqSet(q) \cup Q) /\ Ahead(SeqSet(q), Q) /\ Rising(q)

LEMMA NumsPlain ==
  ASSUME NEW S, NEW e, e.pre, NEW s
  PROVE  Nums(S \cup {e}, s) = Nums(S, s)
  BY DEF Nums

LEMMA NumsMoved ==
  ASSUME NEW S, NEW e, NEW f, SameStream(e, f), e.num = f.num, ~e.pre, ~f.pre,
         NEW s
  PROVE  Nums(S \cup {e}, s) = Nums(S \cup {f}, s)
<1>1. SameStream(e, s) <=> SameStream(f, s) BY DEF SameStream
<1> QED BY <1>1 DEF Nums

LEMMA NumsJoin ==
  ASSUME NEW S, NEW e, e.num \in 1 .. MaxWr + MaxRd, Ahead(S, {e}), ~e.pre,
         NEW s
  PROVE  Joins(Nums(S, s), Nums(S \cup {e}, s))
<1>1. CASE SameStream(e, s)
  <2>1. Nums(S \cup {e}, s) = Nums(S, s) \cup {e.num} BY <1>1 DEF Nums
  <2>2. \A m \in Nums(S, s) : m < e.num
    BY <1>1 DEF Nums, Ahead, SameStream
  <2> QED BY <2>1, <2>2 DEF Joins
<1>2. CASE ~SameStream(e, s)
  <2>1. Nums(S \cup {e}, s) = Nums(S, s) BY <1>2 DEF Nums
  <2> QED BY <2>1 DEF Joins
<1> QED BY <1>1, <1>2

LEMMA NumsLeave ==
  ASSUME NEW S \in SUBSET Entry, NEW e \in Entry, Ahead({e}, S), NEW s
  PROVE  Leaves(Nums(S \cup {e}, s), Nums(S, s))
<1>1. CASE SameStream(e, s) /\ ~e.pre
  <2>1. Nums(S \cup {e}, s) = Nums(S, s) \cup {e.num} BY <1>1 DEF Nums
  <2>2. \A m \in Nums(S, s) : e.num < m /\ m \in Nat
    BY <1>1 DEF Nums, Ahead, SameStream, Entry
  <2>3. e.num \in Nat BY DEF Entry
  <2>4. Nums(S, s) = Nums(S \cup {e}, s) \ {e.num} BY <2>1, <2>2, <2>3
  <2>5. \A m \in Nums(S \cup {e}, s) : e.num <= m BY <2>1, <2>2, <2>3
  <2> QED BY <2>1, <2>4, <2>5 DEF Leaves
<1>2. CASE ~(SameStream(e, s) /\ ~e.pre)
  <2>1. Nums(S \cup {e}, s) = Nums(S, s) BY <1>2 DEF Nums
  <2> QED BY <2>1 DEF Leaves
<1> QED BY <1>1, <1>2

LEMMA ChannelRetire ==
  ASSUME NEW A, NEW q, NEW Q, Channel(A, q, Q)
  PROVE  Channel({}, q, Q)
  BY DEF Channel, Ahead

LEMMA ChannelLoad ==
  ASSUME NEW q \in Seq(Entry), NEW Q, Channel({}, q, Q), q # <<>>
  PROVE  Channel({Head(q)}, Tail(q), Q)
<1> DEFINE r == Tail(q)
<1>1. /\ Head(q) = q[1] /\ 1 \in DOMAIN q /\ DOMAIN q = 1 .. Len(q)
      /\ Len(q) \in Nat \ {0} /\ DOMAIN r = 1 .. Len(q) - 1
      /\ \A i \in 1 .. Len(q) - 1 : r[i] = q[i + 1]
  OBVIOUS
<1> HIDE DEF r
<1>2. \A i \in DOMAIN r : /\ i + 1 \in DOMAIN q /\ 1 < i + 1
                          /\ r[i] = q[i + 1]
  BY <1>1
<1>3. Ahead({Head(q)}, SeqSet(r))
  BY <1>1, <1>2 DEF Channel, Rising, Ahead, SeqSet
<1>4. Ahead({Head(q)}, Q) BY <1>1 DEF Channel, Ahead, SeqSet
<1>5. Ahead(SeqSet(r), Q) BY <1>2 DEF Channel, Ahead, SeqSet
<1>6. Rising(r)
  <2> SUFFICES ASSUME NEW i \in DOMAIN r, NEW j \in DOMAIN r, i < j,
                      ~r[i].pre, ~r[j].pre, SameStream(r[i], r[j])
               PROVE  r[i].num < r[j].num
    BY DEF Rising
  <2>1. i + 1 < j + 1 BY <1>1
  <2> QED BY <1>2, <2>1 DEF Channel, Rising
<1> QED BY <1>3, <1>4, <1>5, <1>6 DEF Channel, Ahead, r

(* A response comes: none of its stream waits, on the bus or at the        *)
(* backend, unless in its order.                                           *)
LEMMA ChannelAppend ==
  ASSUME NEW A, NEW q \in Seq(Entry), NEW Q, Channel(A, q, Q),
         NEW e \in Entry, Ahead(A, {e}), Ahead(SeqSet(q), {e}),
         NEW R \in SUBSET Q, Ahead({e}, R)
  PROVE  Channel(A, Append(q, e), R)
<1> DEFINE r == Append(q, e)
<1>1. /\ SeqSet(r) = SeqSet(q) \cup {e}
      /\ \A i \in 1 .. Len(q) : r[i] = q[i]
      /\ r[Len(q) + 1] = e
      /\ Len(q) \in Nat /\ DOMAIN r = 1 .. Len(q) + 1
      /\ DOMAIN q = 1 .. Len(q)
  BY QueueAppend
<1> HIDE DEF r
<1>2. Ahead(A, SeqSet(r) \cup R) BY <1>1 DEF Channel, Ahead
<1>3. Ahead(SeqSet(r), R) BY <1>1 DEF Channel, Ahead
<1>4. Rising(r)
  <2> SUFFICES ASSUME NEW i \in DOMAIN r, NEW j \in DOMAIN r, i < j,
                      ~r[i].pre, ~r[j].pre, SameStream(r[i], r[j])
               PROVE  r[i].num < r[j].num
    BY DEF Rising
  <2>1. i \in 1 .. Len(q) /\ (j \in 1 .. Len(q) \/ j = Len(q) + 1) BY <1>1
  <2>2. CASE j \in 1 .. Len(q) BY <1>1, <2>1, <2>2 DEF Channel, Rising
  <2>3. CASE j = Len(q) + 1
    <3>1. r[i] = q[i] /\ r[j] = e /\ q[i] \in SeqSet(q)
      BY <1>1, <2>1, <2>3 DEF SeqSet
    <3> QED BY <3>1 DEF Ahead
  <2> QED BY <2>1, <2>2, <2>3
<1> QED BY <1>2, <1>3, <1>4 DEF Channel, r

LEMMA ChannelIssue ==
  ASSUME NEW A, NEW q, NEW Q, Channel(A, q, Q), NEW e,
         Ahead(A, {e}), Ahead(SeqSet(q), {e})
  PROVE  Channel(A, q, Q \cup {e})
  BY DEF Channel, Ahead

(* What the driver has taken beyond the address queue, answered or not.    *)
Out(d) ==
  d.req_port \cup SeqSet(d.pending_b_q) \cup SeqSet(d.active_b)
    \cup SeqSet(d.pending_r_q) \cup SeqSet(d.active_r_q)

(* Addresses wait in the order they came, all newer than the writes of S.  *)
Addresses(p, S) ==
  /\ \A i, j \in DOMAIN p : i < j => p[i].num < p[j].num
  /\ \A i \in DOMAIN p : \A f \in S : f.op = "WR" => f.num < p[i].num

Ordered(d) ==
  /\ Channel(SeqSet(d.active_b), d.pending_b_q, d.req_port)
  /\ Channel(SeqSet(d.active_r_q), d.pending_r_q, d.req_port)
  /\ Addresses(d.pending_aw_q, Out(d))

SameOut(d, d2) ==
  /\ d2.req_port = d.req_port
  /\ d2.pending_b_q = d.pending_b_q /\ d2.active_b = d.active_b
  /\ d2.pending_r_q = d.pending_r_q /\ d2.active_r_q = d.active_r_q

(* Nothing of the order changes for the streams of the other direction.    *)
Moves(d, d2, o) ==
  \A s : /\ Leaves(Nums(Out(d), s), Nums(Out(d2), s))
         /\ s.op # o => Nums(Out(d2), s) = Nums(Out(d), s)

LEMMA OrderSame ==
  ASSUME NEW d, NEW d2, Ordered(d), SameOut(d, d2),
         d2.pending_aw_q = d.pending_aw_q
  PROVE  Ordered(d2) /\ Out(d2) = Out(d)
<1>1. Out(d2) = Out(d) BY DEF SameOut, Out
<1> QED BY <1>1 DEF Ordered, SameOut

LEMMA OutTypes ==
  ASSUME NEW d, NEW D, DriverInv(d, D)
  PROVE  /\ Out(d) \in SUBSET Entry
         /\ \A e \in SeqSet(d.pending_b_q) \cup SeqSet(d.active_b)
                       \cup SeqSet(d.pending_aw_q) : e.op = "WR"
         /\ \A e \in SeqSet(d.pending_r_q) \cup SeqSet(d.active_r_q) :
              e.op = "RD"
         /\ \A e \in d.req_port : ~e.pre
<1>1. d \in Driver BY DEF DriverInv
<1>2. Out(d) \in SUBSET Entry
  <2>1. ASSUME NEW q \in Seq(Entry) PROVE SeqSet(q) \in SUBSET Entry
    BY <2>1 DEF SeqSet
  <2>2. /\ d.pending_b_q \in Seq(Entry) /\ d.active_b \in Seq(Entry)
        /\ d.pending_r_q \in Seq(Entry) /\ d.active_r_q \in Seq(Entry)
        /\ d.req_port \in SUBSET Entry
    BY <1>1, DriverFields
  <2> QED BY <2>1, <2>2 DEF Out
<1> QED BY <1>2 DEF DriverInv, Queued, AllOf, SeqSet, WritesWhole

LEMMA NumsOther ==
  ASSUME NEW S, NEW e, NEW s, ~SameStream(e, s)
  PROVE  Nums(S \cup {e}, s) = Nums(S, s)
  BY DEF Nums

(* An answer that is taken was the oldest of its stream.                   *)
LEMMA LeaveOut ==
  ASSUME NEW S \in SUBSET Entry, NEW x \in Entry, Ahead({x}, S),
         NEW d, NEW d2, Out(d) = S \cup {x}, Out(d2) = S
  PROVE  Moves(d, d2, x.op)
<1> SUFFICES ASSUME NEW s
             PROVE  /\ Leaves(Nums(Out(d), s), Nums(Out(d2), s))
                    /\ s.op # x.op => Nums(Out(d2), s) = Nums(Out(d), s)
  BY DEF Moves
<1>1. Leaves(Nums(S \cup {x}, s), Nums(S, s)) BY NumsLeave
<1>2. s.op # x.op => ~SameStream(x, s) BY DEF SameStream
<1> QED BY <1>1, <1>2, NumsOther

LEMMA OrderRetireB ==
  ASSUME NEW d, NEW D, DriverInv(d, D), Ordered(d), d.active_b # <<>>
  PROVE  Ordered(retire_b(d)) /\ Moves(d, retire_b(d), "WR")
<1> DEFINE x == d.active_b[1]
           d2 == retire_b(d)
           S == d.req_port \cup SeqSet(d.pending_b_q)
                  \cup SeqSet(d.pending_r_q) \cup SeqSet(d.active_r_q)
<1>1. d \in Driver BY DEF DriverInv
<1>2. SeqSet(d.active_b) = {x} /\ x \in Entry
  BY <1>1, DriverFields, OneEntry DEF DriverInv, Queued
<1>3. /\ d2.active_b = <<>> /\ d2.req_port = d.req_port
      /\ d2.pending_b_q = d.pending_b_q /\ d2.pending_r_q = d.pending_r_q
      /\ d2.active_r_q = d.active_r_q /\ d2.pending_aw_q = d.pending_aw_q
  BY <1>1 DEF retire_b, Driver
<1> HIDE DEF x, d2
<1>4. SeqSet(<<>>) = {} BY NoEntry
<1>5. Out(d) = S \cup {x} /\ Out(d2) = S BY <1>2, <1>3, <1>4 DEF Out
<1>6. x.op = "WR" /\ S \in SUBSET Entry
  BY <1>2, <1>5, OutTypes
<1>7. Ahead({x}, S)
  <2>1. Ahead({x}, SeqSet(d.pending_b_q) \cup d.req_port)
    BY <1>2 DEF Ordered, Channel
  <2>2. \A f \in SeqSet(d.pending_r_q) \cup SeqSet(d.active_r_q) :
          ~SameStream(x, f)
    BY <1>6, OutTypes DEF SameStream
  <2> QED BY <2>1, <2>2 DEF Ahead
<1> HIDE DEF S
<1>8. Moves(d, d2, "WR") BY <1>2, <1>5, <1>6, <1>7, LeaveOut
<1>9. Ordered(d2)
  <2>1. Channel({}, d2.pending_b_q, d2.req_port)
    BY <1>3, ChannelRetire DEF Ordered
  <2>2. Addresses(d2.pending_aw_q, Out(d2))
    BY <1>3, <1>5 DEF Ordered, Addresses
  <2> QED BY <1>3, <1>4, <2>1, <2>2 DEF Ordered
<1> QED BY <1>8, <1>9 DEF d2

LEMMA OrderLoadB ==
  ASSUME NEW d, NEW D, DriverInv(d, D), Ordered(d),
         d.active_b = <<>>, d.pending_b_q # <<>>
  PROVE  Ordered(load_b(d)) /\ Out(load_b(d)) = Out(d)
<1> DEFINE q == d.pending_b_q
           d2 == load_b(d)
<1>1. d \in Driver /\ q \in Seq(Entry) BY DriverFields DEF DriverInv
<1>2. /\ d2.active_b = <<Head(q)>> /\ d2.req_port = d.req_port
      /\ d2.pending_b_q = Tail(q) /\ d2.pending_r_q = d.pending_r_q
      /\ d2.active_r_q = d.active_r_q /\ d2.pending_aw_q = d.pending_aw_q
  BY <1>1 DEF load_b, Driver
<1> HIDE DEF d2
<1>3. /\ SeqSet(Tail(q)) = SeqSet(q) \ {Head(q)} /\ Head(q) \in SeqSet(q)
      /\ Head(q) \in Entry
  BY <1>1, QueueTail DEF DriverInv, Queued
<1>4. SeqSet(<<Head(q)>>) = {Head(q)} /\ SeqSet(<<>>) = {}
  BY <1>3, Single, NoEntry
<1>5. Out(d2) = Out(d) BY <1>2, <1>3, <1>4 DEF Out
<1>6. Channel({Head(q)}, Tail(q), d.req_port)
  BY <1>1, <1>4, ChannelLoad DEF Ordered
<1> QED BY <1>2, <1>4, <1>5, <1>6 DEF Ordered, d2

LEMMA OrderWrite ==
  ASSUME NEW d, NEW D, DriverInv(d, D), Ordered(d), NEW in
  PROVE  LET d2 == advance_write_rsp_channel(d, in)
         IN Ordered(d2) /\ Moves(d, d2, "WR")
<1> DEFINE d1 == IF BTaken(d, in) THEN retire_b(d) ELSE d
           d2 == advance_write_rsp_channel(d, in)
<1>1. (\E D1 : DriverInv(d1, D1)) /\ Ordered(d1) /\ Moves(d, d1, "WR")
  <2>1. CASE BTaken(d, in)
    <3>1. d.active_b # <<>> BY <2>1 DEF BTaken
    <3> QED BY <2>1, <3>1, RetireB, OrderRetireB
  <2>2. CASE ~BTaken(d, in)
    <3>1. Moves(d, d, "WR") BY DEF Moves, Leaves
    <3> QED BY <2>2, <3>1
  <2> QED BY <2>1, <2>2
<1>2. \/ d2 = d1
      \/ d2 = load_b(d1) /\ d1.active_b = <<>> /\ d1.pending_b_q # <<>>
  BY DEF advance_write_rsp_channel, load_b
<1> HIDE DEF d1, d2
<1>3. Ordered(d2) /\ Out(d2) = Out(d1)
  <2>1. CASE d2 = d1 BY <1>1, <2>1
  <2>2. CASE d2 # d1 BY <1>1, <1>2, <2>2, OrderLoadB
  <2> QED BY <2>1, <2>2
<1>4. Moves(d, d2, "WR") BY <1>1, <1>3 DEF Moves
<1> QED BY <1>3, <1>4 DEF d2

LEMMA OrderRetireR ==
  ASSUME NEW d, NEW D, DriverInv(d, D), Ordered(d), d.active_r_q # <<>>
  PROVE  Ordered(retire_r(d)) /\ Moves(d, retire_r(d), "RD")
<1> DEFINE x == d.active_r_q[1]
           d2 == retire_r(d)
           S == d.req_port \cup SeqSet(d.pending_b_q)
                  \cup SeqSet(d.active_b) \cup SeqSet(d.pending_r_q)
<1>1. d \in Driver BY DEF DriverInv
<1>2. SeqSet(d.active_r_q) = {x} /\ x \in Entry
  BY <1>1, DriverFields, OneEntry DEF DriverInv, Queued
<1>3. CASE ~RLast(d)
  <2>1. SameOut(d, d2) /\ d2.pending_aw_q = d.pending_aw_q
    BY <1>1, <1>3 DEF retire_r, Driver, SameOut
  <2> HIDE DEF d2
  <2>2. Ordered(d2) /\ Out(d2) = Out(d) BY <2>1, OrderSame
  <2>3. Moves(d, d2, "RD") BY <2>2 DEF Moves, Leaves
  <2> QED BY <2>2, <2>3 DEF d2
<1>4. CASE RLast(d)
  <2>1. /\ d2.active_r_q = <<>> /\ d2.req_port = d.req_port
        /\ d2.pending_b_q = d.pending_b_q /\ d2.pending_r_q = d.pending_r_q
        /\ d2.active_b = d.active_b /\ d2.pending_aw_q = d.pending_aw_q
    BY <1>1, <1>4 DEF retire_r, Driver
  <2> HIDE DEF x, d2
  <2>2. SeqSet(<<>>) = {} BY NoEntry
  <2>3. Out(d) = S \cup {x} /\ Out(d2) = S BY <1>2, <2>1, <2>2 DEF Out
  <2>4. x.op = "RD" /\ S \in SUBSET Entry
    BY <1>2, <2>3, OutTypes
  <2>5. Ahead({x}, S)
    <3>1. Ahead({x}, SeqSet(d.pending_r_q) \cup d.req_port)
      BY <1>2 DEF Ordered, Channel
    <3>2. \A f \in SeqSet(d.pending_b_q) \cup SeqSet(d.active_b) :
            ~SameStream(x, f)
      BY <2>4, OutTypes DEF SameStream
    <3> QED BY <3>1, <3>2 DEF Ahead
  <2> HIDE DEF S
  <2>6. Moves(d, d2, "RD") BY <1>2, <2>3, <2>4, <2>5, LeaveOut
  <2>7. Ordered(d2)
    <3>1. Channel({}, d2.pending_r_q, d2.req_port)
      BY <2>1, ChannelRetire DEF Ordered
    <3>2. Addresses(d2.pending_aw_q, Out(d2))
      BY <2>1, <2>3 DEF Ordered, Addresses
    <3> QED BY <2>1, <2>2, <3>1, <3>2 DEF Ordered
  <2> QED BY <2>6, <2>7 DEF d2
<1> QED BY <1>3, <1>4

LEMMA OrderLoadR ==
  ASSUME NEW d, NEW D, DriverInv(d, D), Ordered(d),
         d.active_r_q = <<>>, d.pending_r_q # <<>>
  PROVE  Ordered(load_r(d)) /\ Out(load_r(d)) = Out(d)
<1> DEFINE q == d.pending_r_q
           d2 == load_r(d)
<1>1. d \in Driver /\ q \in Seq(Entry) BY DriverFields DEF DriverInv
<1>2. /\ d2.active_r_q = <<Head(q)>> /\ d2.req_port = d.req_port
      /\ d2.pending_r_q = Tail(q) /\ d2.pending_b_q = d.pending_b_q
      /\ d2.active_b = d.active_b /\ d2.pending_aw_q = d.pending_aw_q
  BY <1>1 DEF load_r, Driver
<1> HIDE DEF d2
<1>3. /\ SeqSet(Tail(q)) = SeqSet(q) \ {Head(q)} /\ Head(q) \in SeqSet(q)
      /\ Head(q) \in Entry
  BY <1>1, QueueTail DEF DriverInv, Queued
<1>4. SeqSet(<<Head(q)>>) = {Head(q)} /\ SeqSet(<<>>) = {}
  BY <1>3, Single, NoEntry
<1>5. Out(d2) = Out(d) BY <1>2, <1>3, <1>4 DEF Out
<1>6. Channel({Head(q)}, Tail(q), d.req_port)
  BY <1>1, <1>4, ChannelLoad DEF Ordered
<1> QED BY <1>2, <1>4, <1>5, <1>6 DEF Ordered, d2

LEMMA OrderRead ==
  ASSUME NEW d, NEW D, DriverInv(d, D), Ordered(d), NEW in,
         d.rvalid => d.active_r_q # <<>>
  PROVE  LET d2 == advance_read_rsp_channel(d, in)
         IN Ordered(d2) /\ Moves(d, d2, "RD")
<1> DEFINE r == IF RTaken(d, in) THEN retire_r(d) ELSE d
           f == fill_active_r_streams(r)
           v == f.active_r_q # <<>> /\ BeatDue(f.active_r_q[1], in.rdue)
           d2 == advance_read_rsp_channel(d, in)
<1>1. (\E D2 : DriverInv(r, D2)) /\ Ordered(r) /\ Moves(d, r, "RD")
  <2>1. CASE RTaken(d, in)
    <3>1. d.active_r_q # <<>> BY <2>1 DEF RTaken
    <3>2. \E D2 : DriverInv(retire_r(d), D2)
      <4>1. CASE RLast(d) BY <3>1, <4>1, RetireR
      <4>2. CASE ~RLast(d) BY <3>1, <4>2, NextBeat
      <4> QED BY <4>1, <4>2
    <3> QED BY <2>1, <3>1, <3>2, OrderRetireR
  <2>2. CASE ~RTaken(d, in)
    <3>1. Moves(d, d, "RD") BY DEF Moves, Leaves
    <3> QED BY <2>2, <3>1
  <2> QED BY <2>1, <2>2
<1>2. Moves(d, d, "RD") BY DEF Moves, Leaves
<1>3. d2 = d \/ d2 = [f EXCEPT !.rvalid = v]
  BY DEF advance_read_rsp_channel, r
<1> HIDE DEF r, v
<1>4. f \in Driver /\ Ordered(f) /\ Out(f) = Out(r)
  <2>1. CASE r.active_r_q # <<>> \/ r.pending_r_q = <<>>
    <3>1. f = r BY <2>1 DEF fill_active_r_streams
    <3> QED BY <1>1, <3>1 DEF DriverInv
  <2>2. CASE r.active_r_q = <<>> /\ r.pending_r_q # <<>>
    <3>1. f = load_r(r) BY <2>2 DEF fill_active_r_streams, load_r
    <3>2. load_r(r) \in Driver BY <1>1, <2>2, LoadR DEF DriverInv
    <3> QED BY <1>1, <2>2, <3>1, <3>2, OrderLoadR
  <2> QED BY <2>1, <2>2
<1> HIDE DEF f
<1>5. CASE d2 = d BY <1>2, <1>5
<1>6. CASE d2 = [f EXCEPT !.rvalid = v]
  <2>1. SameOut(f, d2) /\ d2.pending_aw_q = f.pending_aw_q
    BY <1>4, <1>6 DEF Driver, SameOut
  <2> HIDE DEF d2
  <2>2. Ordered(d2) /\ Out(d2) = Out(r) BY <1>4, <2>1, OrderSame
  <2>3. Moves(d, d2, "RD") BY <1>1, <2>2 DEF Moves
  <2> QED BY <2>2, <2>3 DEF d2
<1> QED BY <1>3, <1>5, <1>6

(* Every number was given out, and is in one place.                        *)
LEMMA NumbersGiven ==
  ASSUME NEW d, NEW D, DriverInv(d, D)
  PROVE  /\ d.observed_aw_count \in Nat /\ d.observed_ar_count \in Nat
         /\ \A e \in Out(d) \cup SeqSet(d.pending_aw_q) :
              e.num \in 1 .. IF e.op = "WR" THEN d.observed_aw_count
                             ELSE d.observed_ar_count
         /\ \A e, f \in d.req_port : SameCmd(e, f) => e = f
<1> DEFINE W == PlacesOf(d)
           C == Accepted(d)
<1>1. d \in Driver /\ OnePlace(W) /\ Accounted(W, D, C)
  BY DEF DriverInv, Booked, Books, Ledger
<1>2. d.observed_aw_count \in Nat /\ d.observed_ar_count \in Nat
  BY <1>1, DriverFields
<1>3. /\ {1, 2, 3, 4, 5, 6} \subseteq Slot
      /\ W[1] = SeqSet(d.pending_aw_q) /\ W[2] = d.req_port
      /\ W[3] = SeqSet(d.pending_b_q) /\ W[4] = SeqSet(d.active_b)
      /\ W[5] = SeqSet(d.pending_r_q) /\ W[6] = SeqSet(d.active_r_q)
      /\ \A k \in Slot : W[k] \in SUBSET Entry
  BY <1>1, PlacesType DEF Slot
<1>4. \A o \in Op : C[o] = IF o = "WR" THEN d.observed_aw_count
                           ELSE d.observed_ar_count
  BY DEF Accepted
<1> HIDE DEF W, C
<1>5. ASSUME NEW k \in Slot, NEW e \in W[k]
      PROVE  e.num \in 1 .. C[e.op] /\ e.op \in Op
  <2>1. e.op \in Op /\ e.num \in Nat BY <1>3 DEF Entry
  <2>2. InSlot(W, e.op, e.num) BY DEF InSlot
  <2> QED BY <1>1, <2>1, <2>2 DEF Accounted
<1>6. \A e \in Out(d) \cup SeqSet(d.pending_aw_q) : \E k \in Slot : e \in W[k]
  BY <1>3 DEF Out
<1>7. \A e, f \in d.req_port : SameCmd(e, f) => e = f
  BY <1>1, <1>3 DEF OnePlace
<1> QED BY <1>2, <1>4, <1>5, <1>6, <1>7

(* A command is issued or answered at once, after all others of its        *)
(* direction.                                                              *)
Taken(d, d2, e) ==
  IF e.pre
  THEN /\ d2.req_port = d.req_port
       /\ d2.pending_b_q = IF e.op = "WR" THEN Append(d.pending_b_q, e)
                           ELSE d.pending_b_q
       /\ d2.pending_r_q = IF e.op = "RD" THEN Append(d.pending_r_q, e)
                           ELSE d.pending_r_q
  ELSE /\ d2.req_port = d.req_port \cup {e}
       /\ d2.pending_b_q = d.pending_b_q /\ d2.pending_r_q = d.pending_r_q

Grows(d, d2, o) ==
  \A s : /\ Joins(Nums(Out(d), s), Nums(Out(d2), s))
         /\ s.op # o => Nums(Out(d2), s) = Nums(Out(d), s)

LEMMA TakenOrder ==
  ASSUME NEW d \in Driver, NEW d2, NEW e \in Entry, Taken(d, d2, e),
         e.pre \in BOOLEAN,
         d2.active_b = d.active_b, d2.active_r_q = d.active_r_q,
         Channel(SeqSet(d.active_b), d.pending_b_q, d.req_port),
         Channel(SeqSet(d.active_r_q), d.pending_r_q, d.req_port),
         \A f \in Out(d) : f.op = e.op => f.num < e.num,
         e.num \in 1 .. MaxWr + MaxRd
  PROVE  /\ Channel(SeqSet(d2.active_b), d2.pending_b_q, d2.req_port)
         /\ Channel(SeqSet(d2.active_r_q), d2.pending_r_q, d2.req_port)
         /\ Out(d2) = Out(d) \cup {e}
         /\ Grows(d, d2, e.op)
<1>1. e.op = "WR" \/ e.op = "RD" BY DEF Entry, Op
<1>2. Ahead(Out(d), {e}) BY DEF Ahead, SameStream
<1>3. /\ Ahead(SeqSet(d.active_b), {e}) /\ Ahead(SeqSet(d.pending_b_q), {e})
      /\ Ahead(SeqSet(d.active_r_q), {e}) /\ Ahead(SeqSet(d.pending_r_q), {e})
  BY <1>2 DEF Ahead, Out
<1>4. d.pending_b_q \in Seq(Entry) /\ d.pending_r_q \in Seq(Entry)
  BY DriverFields
<1>5. CASE e.pre
  <2>1. \A R : Ahead({e}, R) BY <1>5 DEF Ahead
  <2>2. SeqSet(Append(d.pending_b_q, e)) = SeqSet(d.pending_b_q) \cup {e}
        /\ SeqSet(Append(d.pending_r_q, e)) = SeqSet(d.pending_r_q) \cup {e}
    BY <1>4, QueueAppend
  <2>3. Out(d2) = Out(d) \cup {e}
    BY <1>1, <1>5, <2>2 DEF Taken, Out
  <2>4. Channel(SeqSet(d.active_b), Append(d.pending_b_q, e), d.req_port)
    BY <1>3, <1>4, <2>1, ChannelAppend
  <2>5. Channel(SeqSet(d.active_r_q), Append(d.pending_r_q, e), d.req_port)
    BY <1>3, <1>4, <2>1, ChannelAppend
  <2>6. \A s : Nums(Out(d2), s) = Nums(Out(d), s)
    BY <1>5, <2>3, NumsPlain
  <2> QED BY <1>5, <2>3, <2>4, <2>5, <2>6 DEF Taken, Joins, Grows
<1>6. CASE ~e.pre
  <2>1. Out(d2) = Out(d) \cup {e} BY <1>6 DEF Taken, Out
  <2>2. \A s : Joins(Nums(Out(d), s), Nums(Out(d) \cup {e}, s))
    BY <1>2, <1>6, NumsJoin
  <2>3. Channel(SeqSet(d.active_b), d.pending_b_q, d.req_port \cup {e})
    BY <1>3, ChannelIssue
  <2>4. Channel(SeqSet(d.active_r_q), d.pending_r_q, d.req_port \cup {e})
    BY <1>3, ChannelIssue
  <2>5. \A s : s.op # e.op => Nums(Out(d) \cup {e}, s) = Nums(Out(d), s)
    <3>1. \A s : s.op # e.op => ~SameStream(e, s) BY DEF SameStream
    <3> QED BY <3>1, NumsOther
  <2> QED BY <1>6, <2>1, <2>2, <2>3, <2>4, <2>5 DEF Taken, Grows
<1> QED BY <1>5, <1>6

InBounds(d) == d.observed_aw_count <= MaxWr /\ d.observed_ar_count <= MaxRd

LEMMA OrderAw ==
  ASSUME NEW d, NEW D, DriverInv(d, D), Ordered(d),
         NEW k \in Kind, k.op = "WR"
  PROVE  LET d2 == capture_aw(d, k)
         IN /\ Ordered(d2) /\ Out(d2) = Out(d)
            /\ d2.observed_aw_count = d.observed_aw_count + 1
            /\ d2.observed_ar_count = d.observed_ar_count
<1> DEFINE d2 == capture_aw(d, k)
           n == d.observed_aw_count + 1
           e == build_addr_entry(k, n)
           p == d.pending_aw_q
           q == Append(p, e)
<1>1. d \in Driver BY DEF DriverInv
<1>2. n \in Nat \ {0} /\ p \in Seq(Entry) BY <1>1, DriverFields
<1>3. e \in Entry /\ e.num = n BY <1>2, Built
<1>4. k # None BY DEF None
<1>5. d2 = [d EXCEPT !.observed_aw_count = n, !.pending_aw_q = q]
  BY <1>4 DEF capture_aw
<1>6. /\ SameOut(d, d2) /\ d2.pending_aw_q = q
      /\ d2.observed_aw_count = n
      /\ d2.observed_ar_count = d.observed_ar_count
  BY <1>1, <1>5 DEF Driver, SameOut
<1>7. /\ Len(p) \in Nat /\ DOMAIN q = 1 .. Len(p) + 1
      /\ DOMAIN p = 1 .. Len(p)
      /\ \A i \in 1 .. Len(p) : q[i] = p[i]
      /\ q[Len(p) + 1] = e
  BY <1>2
<1>8. \A f \in Out(d) \cup SeqSet(p) : f.op = "WR" => f.num < n
  <2>1. \A f \in Out(d) \cup SeqSet(p) :
          f.op = "WR" => f.num \in 1 .. d.observed_aw_count
    BY NumbersGiven
  <2>2. d.observed_aw_count \in Nat BY <1>1, DriverFields
  <2> QED BY <2>1, <2>2
<1>9. \A i \in 1 .. Len(p) : p[i].num < n
  BY <1>7, <1>8, OutTypes DEF SeqSet
<1> HIDE DEF d2, e, n, q, p
<1>10. Out(d2) = Out(d) BY <1>6 DEF SameOut, Out
<1>11. Addresses(q, Out(d))
  <2>1. \A i \in 1 .. Len(p) + 1 : i \in 1 .. Len(p) \/ i = Len(p) + 1
    BY <1>7
  <2>2. Addresses(p, Out(d)) BY DEF Ordered, p
  <2>3. ASSUME NEW i \in 1 .. Len(p) + 1, NEW j \in 1 .. Len(p) + 1, i < j
        PROVE  q[i].num < q[j].num
    <3>1. i \in 1 .. Len(p) BY <1>7, <2>3
    <3>2. CASE j \in 1 .. Len(p)
      BY <1>7, <2>2, <2>3, <3>1, <3>2 DEF Addresses
    <3>3. CASE j = Len(p) + 1 BY <1>3, <1>7, <1>9, <3>1, <3>3
    <3> QED BY <2>1, <3>2, <3>3
  <2>4. ASSUME NEW i \in 1 .. Len(p) + 1, NEW f \in Out(d), f.op = "WR"
        PROVE  f.num < q[i].num
    <3>1. CASE i \in 1 .. Len(p)
      BY <1>7, <2>2, <2>4, <3>1 DEF Addresses
    <3>2. CASE i = Len(p) + 1 BY <1>3, <1>7, <1>8, <2>4, <3>2
    <3> QED BY <2>1, <3>1, <3>2
  <2> QED BY <1>7, <2>3, <2>4 DEF Addresses
<1> QED BY <1>6, <1>10, <1>11 DEF Ordered, SameOut, d2, n

LEMMA OrderData ==
  ASSUME NEW d, NEW D, DriverInv(d, D), Ordered(d), d.pending_aw_q # <<>>
  PROVE  LET d2 == capture_w(d, "data")
         IN /\ Ordered(d2) /\ Out(d2) = Out(d)
            /\ d2.observed_aw_count = d.observed_aw_count
            /\ d2.observed_ar_count = d.observed_ar_count
<1> DEFINE d2 == capture_w(d, "data")
           p == d.pending_aw_q
           e == WithBeat(Head(p), FALSE)
           q == [p EXCEPT ![1] = e]
<1>1. d \in Driver BY DEF DriverInv
<1>2. p \in Seq(Entry) /\ DOMAIN p = 1 .. Len(p) BY <1>1, DriverFields
<1>3. Head(p) = p[1] /\ Head(p) \in Entry BY HeadFacts
<1>4. e \in Entry /\ SameCmd(Head(p), e) BY <1>3, BeatFacts
<1>5. d2 = [d EXCEPT !.pending_aw_q = q] BY DEF capture_w
<1>6. /\ SameOut(d, d2) /\ d2.pending_aw_q = q
      /\ d2.observed_aw_count = d.observed_aw_count
      /\ d2.observed_ar_count = d.observed_ar_count
  BY <1>1, <1>5 DEF Driver, SameOut
<1>7. DOMAIN q = DOMAIN p /\ \A i \in DOMAIN p : q[i].num = p[i].num
  <2>1. e.num = p[1].num BY <1>3, <1>4 DEF SameCmd
  <2> HIDE DEF e
  <2> QED BY <1>2, <2>1
<1> HIDE DEF d2, q
<1>8. Out(d2) = Out(d) BY <1>6 DEF SameOut, Out
<1>9. Addresses(q, Out(d)) BY <1>7 DEF Ordered, Addresses
<1> QED BY <1>6, <1>8, <1>9 DEF Ordered, SameOut, d2

LEMMA OrderLast ==
  ASSUME NEW d, NEW D, DriverInv(d, D), Ordered(d), d.pending_aw_q # <<>>,
         InBounds(d)
  PROVE  LET d2 == capture_w(d, "last")
         IN /\ Ordered(d2) /\ Grows(d, d2, "WR")
            /\ d2.observed_aw_count = d.observed_aw_count
            /\ d2.observed_ar_count = d.observed_ar_count
<1> DEFINE p == d.pending_aw_q
           h == Head(p)
           e == WithBeat(h, TRUE)
           q == Tail(p)
           d0 == [d EXCEPT !.pending_aw_q = q]
           e1 == Resolved(d0, e)
           d2 == capture_w(d, "last")
<1>1. d \in Driver BY DEF DriverInv
<1>2. p \in Seq(Entry) BY <1>1, DriverFields
<1>3. h \in Entry /\ h.op = "WR" /\ h = p[1] BY HeadFacts
<1>4. e \in Entry /\ SameCmd(h, e) /\ e.op = "WR" BY <1>3, BeatFacts
<1>5. d2 = finish_write(d0, e) BY DEF capture_w
<1>6. /\ q \in Seq(Entry) /\ Len(p) \in Nat \ {0} /\ Len(q) = Len(p) - 1
      /\ DOMAIN q = 1 .. Len(p) - 1 /\ DOMAIN p = 1 .. Len(p)
      /\ \A i \in 1 .. Len(p) - 1 : q[i] = p[i + 1]
      /\ h \in SeqSet(p)
  <2>1. /\ q \in Seq(Entry) /\ Len(p) \in Nat \ {0} /\ Len(q) = Len(p) - 1
        /\ \A i \in 1 .. Len(p) - 1 : q[i] = p[i + 1]
        /\ h \in SeqSet(p)
    BY <1>2, QueueTail
  <2>2. DOMAIN q = 1 .. Len(q) /\ DOMAIN p = 1 .. Len(p) BY <1>2, <2>1
  <2> QED BY <2>1, <2>2
<1> HIDE DEF p, h, e, q, d2
<1>7. d0 \in Driver BY <1>1, <1>6, Zenon DEF Driver
<1>8. /\ SameOut(d, d0) /\ d0.pending_aw_q = q
      /\ d0.observed_aw_count = d.observed_aw_count
      /\ d0.observed_ar_count = d.observed_ar_count
  BY <1>1 DEF Driver, SameOut
<1> HIDE DEF d0
<1>9. /\ e1 \in Entry /\ SameCmd(e, e1) /\ e1.op = "WR"
      /\ SameBus(d0, d2) /\ d2.pending_aw_q = q
      /\ Taken(d0, d2, e1)
  BY <1>4, <1>5, <1>7, <1>8, Finishes DEF Taken, SameCounts, SameQueues
<1> HIDE DEF e1
<1>10. e1.num = p[1].num BY <1>3, <1>4, <1>9 DEF SameCmd
<1>11. /\ \A f \in Out(d) : f.op = "WR" => f.num < e1.num
       /\ \A i \in DOMAIN q : e1.num < q[i].num
  <2>1. 1 \in DOMAIN p
        /\ \A i \in DOMAIN q : i + 1 \in DOMAIN p /\ 1 < i + 1
                               /\ q[i] = p[i + 1]
    BY <1>6
  <2> QED BY <1>10, <2>1 DEF Ordered, Addresses, p
<1>12. e1.num \in 1 .. MaxWr + MaxRd
  <2>1. e1.num \in 1 .. d.observed_aw_count
    <3>1. h.num \in 1 .. d.observed_aw_count
      BY <1>3, <1>6, NumbersGiven DEF p
    <3> QED BY <1>3, <1>10, <3>1
  <2>2. d.observed_aw_count \in Nat /\ d.observed_aw_count <= MaxWr
    BY <1>1, DriverFields DEF InBounds
  <2>3. MaxWr \in Nat /\ MaxRd \in Nat BY Axi4Assumption
  <2> QED BY <2>1, <2>2, <2>3
<1>13. Out(d0) = Out(d) BY <1>8 DEF SameOut, Out
<1>14. /\ Channel(SeqSet(d2.active_b), d2.pending_b_q, d2.req_port)
       /\ Channel(SeqSet(d2.active_r_q), d2.pending_r_q, d2.req_port)
       /\ Out(d2) = Out(d0) \cup {e1}
       /\ Grows(d0, d2, e1.op)
  <2>1. e1.pre \in BOOLEAN BY <1>9 DEF Entry
  <2>2. d2.active_b = d0.active_b /\ d2.active_r_q = d0.active_r_q
    BY <1>9 DEF SameBus
  <2>3. /\ Channel(SeqSet(d0.active_b), d0.pending_b_q, d0.req_port)
        /\ Channel(SeqSet(d0.active_r_q), d0.pending_r_q, d0.req_port)
    BY <1>8 DEF Ordered, SameOut
  <2>4. \A f \in Out(d0) : f.op = e1.op => f.num < e1.num
    BY <1>9, <1>11, <1>13
  <2> QED BY <1>7, <1>9, <1>12, <2>1, <2>2, <2>3, <2>4, TakenOrder
<1>15. Addresses(q, Out(d2))
  <2>1. \A i, j \in DOMAIN q : i < j => q[i].num < q[j].num
    <3>1. \A i, j \in DOMAIN q :
            i < j => /\ i + 1 \in DOMAIN p /\ j + 1 \in DOMAIN p
                     /\ i + 1 < j + 1 /\ q[i] = p[i + 1] /\ q[j] = p[j + 1]
      BY <1>6
    <3> QED BY <3>1 DEF Ordered, Addresses, p
  <2>2. \A i \in DOMAIN q : \A f \in Out(d) :
          f.op = "WR" => f.num < q[i].num
    <3>1. \A i \in DOMAIN q : i + 1 \in DOMAIN p /\ q[i] = p[i + 1] BY <1>6
    <3> QED BY <3>1 DEF Ordered, Addresses, p
  <2> QED BY <1>11, <1>13, <1>14, <2>1, <2>2 DEF Addresses
<1>16. Ordered(d2) BY <1>9, <1>14, <1>15 DEF Ordered
<1>17. Grows(d, d2, "WR") BY <1>9, <1>13, <1>14 DEF Grows
<1> QED BY <1>8, <1>9, <1>16, <1>17 DEF SameBus, d2

LEMMA OrderAr ==
  ASSUME NEW d, NEW D, DriverInv(d, D), Ordered(d),
         NEW k \in Kind, k.op = "RD",
         InBounds(d), d.observed_ar_count < MaxRd
  PROVE  LET d2 == capture_ar(d, k)
         IN /\ Ordered(d2) /\ Grows(d, d2, "RD") /\ InBounds(d2)
<1> DEFINE n == d.observed_ar_count + 1
           e == build_addr_entry(k, n)
           d1 == [d EXCEPT !.observed_ar_count = n]
           d2 == capture_ar(d, k)
<1>1. d \in Driver BY DEF DriverInv
<1>2. /\ d.observed_ar_count \in Nat /\ n \in Nat \ {0}
      /\ MaxRd \in Nat /\ MaxWr \in Nat
  BY <1>1, DriverFields, Axi4Assumption
<1>3. e \in Entry /\ e.op = "RD" /\ e.num = n BY <1>2, Built
<1>4. k # None BY DEF None
<1>5. d2 = IF e.pre THEN complete(d1, e) ELSE issue_request(d1, e)
  BY <1>4 DEF capture_ar
<1>6. n \in 1 .. MaxWr + MaxRd /\ n <= MaxRd BY <1>2
<1>7. \A f \in Out(d) : f.op = "RD" => f.num < n
  <2>1. \A f \in Out(d) : f.op = "RD" => f.num \in 1 .. d.observed_ar_count
    BY NumbersGiven
  <2> QED BY <1>2, <2>1
<1> HIDE DEF n, e, d2
<1>8. d1 \in Driver BY <1>1, <1>2, Zenon DEF Driver
<1>9. /\ SameOut(d, d1) /\ d1.pending_aw_q = d.pending_aw_q
      /\ d1.observed_ar_count = n
      /\ d1.observed_aw_count = d.observed_aw_count
  BY <1>1 DEF Driver, SameOut
<1> HIDE DEF d1
<1>10. e.pre \in BOOLEAN BY <1>3 DEF Entry
<1>11. /\ Taken(d1, d2, e) /\ SameBus(d1, d2)
       /\ d2.pending_aw_q = d1.pending_aw_q
  <2>1. CASE e.pre
    <3>1. d2 = complete(d1, e) BY <1>5, <2>1
    <3> QED BY <1>3, <1>8, <2>1, <3>1, Completes DEF Taken, SameCounts
  <2>2. CASE ~e.pre
    <3>1. d2 = issue_request(d1, e) BY <1>5, <2>2
    <3> QED BY <1>3, <1>8, <2>2, <3>1, Issues DEF Taken, SameQueues
  <2> QED BY <2>1, <2>2
<1>12. Out(d1) = Out(d) BY <1>9 DEF SameOut, Out
<1>13. /\ Channel(SeqSet(d2.active_b), d2.pending_b_q, d2.req_port)
       /\ Channel(SeqSet(d2.active_r_q), d2.pending_r_q, d2.req_port)
       /\ Out(d2) = Out(d1) \cup {e}
       /\ Grows(d1, d2, e.op)
  <2>1. d2.active_b = d1.active_b /\ d2.active_r_q = d1.active_r_q
    BY <1>11 DEF SameBus
  <2>2. /\ Channel(SeqSet(d1.active_b), d1.pending_b_q, d1.req_port)
        /\ Channel(SeqSet(d1.active_r_q), d1.pending_r_q, d1.req_port)
    BY <1>9 DEF Ordered, SameOut
  <2>3. \A f \in Out(d1) : f.op = e.op => f.num < e.num
    BY <1>3, <1>7, <1>12
  <2>4. e.num \in 1 .. MaxWr + MaxRd BY <1>3, <1>6
  <2> QED BY <1>3, <1>8, <1>10, <1>11, <2>1, <2>2, <2>3, <2>4, TakenOrder
<1>14. Addresses(d2.pending_aw_q, Out(d2))
  BY <1>3, <1>9, <1>11, <1>12, <1>13 DEF Ordered, Addresses
<1>15. InBounds(d2)
  <2>1. d2.observed_ar_count = n /\ d2.observed_aw_count = d.observed_aw_count
    BY <1>9, <1>11 DEF SameBus
  <2> QED BY <1>6, <2>1 DEF InBounds
<1>16. Grows(d, d2, "RD") BY <1>3, <1>12, <1>13 DEF Grows
<1> QED BY <1>13, <1>14, <1>15, <1>16 DEF Ordered, d2

(* The captures of an edge give each stream at most one command.           *)
LEMMA CaptureOrder ==
  ASSUME NEW d, NEW D, DriverInv(d, D), NEW in, Allowed(d, in),
         Ordered(d), InBounds(d),
         in.aw # None => d.observed_aw_count < MaxWr,
         in.ar # None => d.observed_ar_count < MaxRd
  PROVE  LET d2 == drive_accept_outputs(captures(d, in))
         IN /\ Ordered(d2) /\ InBounds(d2)
            /\ \A s : s.op \in Op =>
                 Joins(Nums(Out(d), s), Nums(Out(d2), s))
<1> DEFINE a == capture_aw(d, in.aw)
           w == capture_w(a, in.w)
           r == capture_ar(w, in.ar)
           o == advance_w_data_buffer_model(r, in.w)
           d2 == drive_accept_outputs(o)
<1>0. /\ d.observed_aw_count \in Nat /\ d.observed_ar_count \in Nat
      /\ MaxWr \in Nat /\ MaxRd \in Nat
  BY DriverFields, Axi4Assumption DEF DriverInv
<1>1. /\ DriverInv(a, D) /\ a.cfg = d.cfg
      /\ a.inflight_rd_count = d.inflight_rd_count
      /\ d.pending_aw_q # <<>> =>
           /\ a.pending_aw_q # <<>>
           /\ Head(a.pending_aw_q) = Head(d.pending_aw_q)
      /\ Ordered(a) /\ Out(a) = Out(d) /\ InBounds(a)
      /\ a.observed_ar_count = d.observed_ar_count
  <2>1. CASE in.aw = None
    <3>1. a = d BY <2>1 DEF capture_aw
    <3> QED BY <3>1
  <2>2. CASE in.aw # None
    <3>1. in.aw \in Kind /\ in.aw.op = "WR" /\ AwRoom(d)
      BY <2>2 DEF Allowed
    <3>2. /\ Ordered(a) /\ Out(a) = Out(d)
          /\ a.observed_aw_count = d.observed_aw_count + 1
          /\ a.observed_ar_count = d.observed_ar_count
      BY <3>1, OrderAw
    <3>3. InBounds(a) BY <1>0, <2>2, <3>2 DEF InBounds
    <3> HIDE DEF a
    <3> QED BY <3>1, <3>2, <3>3, CaptureAw DEF a
  <2> QED BY <2>1, <2>2
<1> HIDE DEF a
<1>2. /\ DriverInv(w, D) /\ w.cfg = d.cfg
      /\ w.inflight_rd_count = d.inflight_rd_count
      /\ Ordered(w) /\ Grows(a, w, "WR") /\ InBounds(w)
      /\ w.observed_ar_count = d.observed_ar_count
  <2>0. Grows(a, a, "WR") BY DEF Grows, Joins
  <2>1. CASE in.w = "none"
    <3>1. w = a BY <2>1 DEF capture_w
    <3> QED BY <1>1, <2>0, <3>1
  <2>2. CASE in.w = "last"
    <3>1. a.pending_aw_q # <<>> BY <1>1, <2>2 DEF Allowed
    <3>2. DriverInv(w, D) /\ w.cfg = a.cfg
          /\ w.inflight_rd_count = a.inflight_rd_count
      BY <1>1, <2>2, <3>1, LastBeat
    <3>3. /\ Ordered(w) /\ Grows(a, w, "WR")
          /\ w.observed_aw_count = a.observed_aw_count
          /\ w.observed_ar_count = a.observed_ar_count
      BY <1>1, <2>2, <3>1, OrderLast
    <3> QED BY <1>1, <3>2, <3>3 DEF InBounds
  <2>3. CASE in.w = "data"
    <3>1. a.pending_aw_q # <<>>
          /\ Head(a.pending_aw_q).captured < Head(a.pending_aw_q).beats
      BY <1>1, <2>3 DEF Allowed
    <3>2. DriverInv(w, D) /\ w.cfg = a.cfg
          /\ w.inflight_rd_count = a.inflight_rd_count
      BY <1>1, <2>3, <3>1, DataBeat
    <3>3. /\ Ordered(w) /\ Out(w) = Out(a)
          /\ w.observed_aw_count = a.observed_aw_count
          /\ w.observed_ar_count = a.observed_ar_count
      BY <1>1, <2>3, <3>1, OrderData
    <3>4. Grows(a, w, "WR") BY <3>3 DEF Grows, Joins
    <3> QED BY <1>1, <3>2, <3>3, <3>4 DEF InBounds
  <2> QED BY <2>1, <2>2, <2>3 DEF Allowed
<1> HIDE DEF w
<1>3. /\ r \in Driver /\ Ordered(r) /\ Grows(w, r, "RD") /\ InBounds(r)
  <2>1. CASE in.ar = None
    <3>1. r = w BY <2>1 DEF capture_ar
    <3>2. Grows(w, w, "RD") BY DEF Grows, Joins
    <3> QED BY <1>2, <3>1, <3>2 DEF DriverInv
  <2>2. CASE in.ar # None
    <3>1. in.ar \in Kind /\ in.ar.op = "RD" /\ ArRoom(w)
      BY <1>2, <2>2 DEF Allowed, ArRoom
    <3>2. r \in Driver BY <1>2, <3>1, CaptureAr DEF DriverInv
    <3>3. w.observed_ar_count < MaxRd BY <1>2, <2>2
    <3> QED BY <1>2, <3>1, <3>2, <3>3, OrderAr
  <2> QED BY <2>1, <2>2
<1> HIDE DEF r
<1>4. /\ SameOut(r, d2) /\ d2.pending_aw_q = r.pending_aw_q
      /\ d2.observed_aw_count = r.observed_aw_count
      /\ d2.observed_ar_count = r.observed_ar_count
  BY <1>3 DEF Driver, advance_w_data_buffer_model, drive_accept_outputs,
          SameOut
<1>5. captures(d, in) = o BY DEF captures, o, r, w, a
<1> HIDE DEF d2, o
<1>6. Ordered(d2) /\ Out(d2) = Out(r) BY <1>3, <1>4, OrderSame
<1>7. InBounds(d2) BY <1>3, <1>4 DEF InBounds
<1>8. ASSUME NEW s, s.op \in Op
      PROVE  Joins(Nums(Out(d), s), Nums(Out(d2), s))
  <2>1. CASE s.op = "RD"
    <3>1. Nums(Out(w), s) = Nums(Out(a), s) BY <1>2, <2>1 DEF Grows
    <3> QED BY <1>1, <1>3, <1>6, <3>1 DEF Grows
  <2>2. CASE s.op = "WR"
    <3>1. Nums(Out(r), s) = Nums(Out(w), s) BY <1>3, <2>2 DEF Grows
    <3> QED BY <1>1, <1>2, <1>6, <3>1 DEF Grows
  <2> QED BY <1>8, <2>1, <2>2 DEF Op
<1> QED BY <1>5, <1>6, <1>7, <1>8 DEF d2

(* At an edge each stream loses at most its oldest command, whose answer   *)
(* is taken, and gets at most one.                                         *)
EdgeMove(S, U) == \E T : Leaves(S, T) /\ Joins(T, U)

LEMMA EdgeOrder ==
  ASSUME Axi4Inv, Ordered(drv), InBounds(drv),
         NEW in \in Input(BOOLEAN, Due), Edge(in)
  PROVE  /\ Ordered(drv') /\ InBounds(drv')
         /\ \A s : s.op \in Op =>
              EdgeMove(Nums(Out(drv), s), Nums(Out(drv'), s))
<1> DEFINE b == advance_write_rsp_channel(drv, in)
           r == advance_read_rsp_channel(b, in)
<1>1. DriverInv(drv, done) /\ Ready(drv) BY DEF Axi4Inv
<1>2. /\ \E D : DriverInv(b, D)
      /\ Easier(drv, b) /\ Ordered(b) /\ Moves(drv, b, "WR")
      /\ b.active_r_q = drv.active_r_q /\ b.rvalid = drv.rvalid
  BY <1>1, WriteResponses, OrderWrite
<1> HIDE DEF b
<1>3. PICK DB : DriverInv(b, DB) BY <1>2
<1>4. b.rvalid => b.active_r_q # <<>> BY <1>1, <1>2 DEF Ready
<1>5. /\ \E D : DriverInv(r, D)
      /\ Easier(b, r) /\ Ordered(r) /\ Moves(b, r, "RD")
  BY <1>2, <1>3, <1>4, ReadResponses, OrderRead
<1>6. drv' = drive_accept_outputs(captures(r, in))
  BY DEF Edge, responses, r, b
<1> HIDE DEF r
<1>7. PICK DR : DriverInv(r, DR) BY <1>5
<1>8. Easier(drv, r)
  <2>1. drv \in Driver /\ b \in Driver /\ r \in Driver
    BY <1>1, <1>3, <1>7 DEF DriverInv
  <2>2. /\ drv.inflight_wr_count \in Nat /\ b.inflight_wr_count \in Nat
        /\ r.inflight_wr_count \in Nat
        /\ drv.inflight_rd_count \in Nat /\ b.inflight_rd_count \in Nat
        /\ r.inflight_rd_count \in Nat
    BY <2>1, DriverFields
  <2> QED BY <1>2, <1>5, <2>2 DEF Easier
<1>9. Allowed(r, in) BY <1>7, <1>8, InputAllowed
<1>10. /\ in.aw # None => r.observed_aw_count < MaxWr
       /\ in.ar # None => r.observed_ar_count < MaxRd
       /\ InBounds(r)
  <2>1. /\ in.aw # None => drv.observed_aw_count < drv.cfg.max_wr
        /\ in.ar # None => drv.observed_ar_count < drv.cfg.max_rd
    BY DEF Input, Address
  <2>2. drv.cfg \in Cfg BY <1>1, CfgFacts DEF DriverInv
  <2>3. /\ drv.cfg.max_wr \in 0 .. MaxWr /\ drv.cfg.max_rd \in 0 .. MaxRd
        /\ MaxWr \in Nat /\ MaxRd \in Nat
    BY <2>2, Axi4Assumption
  <2>4. drv.observed_aw_count \in Nat /\ drv.observed_ar_count \in Nat
    BY <1>1, DriverFields DEF DriverInv
  <2> QED BY <1>8, <2>1, <2>3, <2>4 DEF Easier, InBounds
<1>11. /\ Ordered(drv') /\ InBounds(drv')
       /\ \A s : s.op \in Op => Joins(Nums(Out(r), s), Nums(Out(drv'), s))
  BY <1>5, <1>6, <1>7, <1>9, <1>10, CaptureOrder
<1>12. ASSUME NEW s, s.op \in Op
       PROVE  Leaves(Nums(Out(drv), s), Nums(Out(r), s))
  <2>1. CASE s.op = "RD"
    <3>1. Nums(Out(b), s) = Nums(Out(drv), s) BY <1>2, <2>1 DEF Moves
    <3> QED BY <1>5, <3>1 DEF Moves
  <2>2. CASE s.op = "WR"
    <3>1. Nums(Out(r), s) = Nums(Out(b), s) BY <1>5, <2>2 DEF Moves
    <3> QED BY <1>2, <3>1 DEF Moves
  <2> QED BY <1>12, <2>1, <2>2 DEF Op
<1> QED BY <1>11, <1>12 DEF EdgeMove

(* The backend answers: the command keeps its place in its stream's order. *)
LEMMA AnswerOrder ==
  ASSUME NEW d, NEW D, DriverInv(d, D), Ordered(d), NEW e \in d.req_port,
         \A o \in d.req_port : SameStream(o, e) => e.num <= o.num
  PROVE  LET d2 == complete([d EXCEPT !.req_port = @ \ {e}], Returned(e))
         IN Ordered(d2) /\ \A s : Nums(Out(d2), s) = Nums(Out(d), s)
<1> DEFINE y == Returned(e)
           P == d.req_port \ {e}
           d1 == [d EXCEPT !.req_port = P]
           d2 == complete(d1, y)
           S == P \cup SeqSet(d.pending_b_q) \cup SeqSet(d.active_b)
                  \cup SeqSet(d.pending_r_q) \cup SeqSet(d.active_r_q)
<1>1. d \in Driver BY DEF DriverInv
<1>2. /\ d.req_port \in SUBSET Entry
      /\ d.pending_b_q \in Seq(Entry) /\ d.pending_r_q \in Seq(Entry)
  BY <1>1, DriverFields
<1>3. e \in Entry /\ ~e.pre /\ P \in SUBSET Entry
  BY <1>2 DEF DriverInv, WritesWhole
<1>4. /\ y \in Entry /\ ~y.pre /\ y.num = e.num /\ y.op = e.op
      /\ SameStream(e, y)
  <2> DEFINE r == IF e.excl THEN "EXOKAY" ELSE "OKAY"
  <2>1. r \in {"OKAY", "SLVERR", "DECERR", "EXOKAY"} OBVIOUS
  <2>2. y = [e EXCEPT !.resp = r] BY DEF Returned
  <2> HIDE DEF r, y
  <2>3. y \in Entry BY <1>3, <2>1, <2>2, Zenon DEF Entry
  <2>4. y.op = e.op /\ y.num = e.num /\ y.pre = e.pre /\ y.id = e.id
    BY <1>3, <2>2 DEF Entry
  <2> QED BY <1>3, <2>3, <2>4 DEF SameStream
<1>5. Ahead({y}, P)
  <2> SUFFICES ASSUME NEW f \in P, ~f.pre, SameStream(y, f)
               PROVE  y.num < f.num
    BY DEF Ahead
  <2>1. SameStream(f, e) BY <1>4 DEF SameStream
  <2>2. e.num <= f.num BY <2>1
  <2>3. e.num # f.num
    <3>1. f # e /\ f \in d.req_port OBVIOUS
    <3>2. ~SameCmd(f, e) BY <3>1, NumbersGiven
    <3> QED BY <2>1, <3>2 DEF SameCmd, SameStream
  <2>4. e.num \in Nat /\ f.num \in Nat BY <1>3 DEF Entry
  <2> QED BY <1>4, <2>2, <2>3, <2>4
<1>6. \A A : Ahead(A, d.req_port) => Ahead(A, {y}) /\ Ahead(A, P)
  BY <1>3, <1>4 DEF Ahead, SameStream
<1> HIDE DEF y, P
<1>7. d1 \in Driver BY <1>1, <1>3, Zenon DEF Driver
<1>8. /\ d1.req_port = P /\ d1.pending_aw_q = d.pending_aw_q
      /\ SameBus(d, d1) /\ SameQueues(d, d1)
  BY <1>1 DEF Driver, SameBus, SameQueues
<1> HIDE DEF d1
<1>9. /\ SameBus(d1, d2) /\ SameCounts(d1, d2)
      /\ d2.pending_aw_q = d1.pending_aw_q
      /\ d2.pending_r_q = IF y.op = "RD" THEN Append(d1.pending_r_q, y)
                          ELSE d1.pending_r_q
      /\ d2.pending_b_q = IF y.op = "WR" THEN Append(d1.pending_b_q, y)
                          ELSE d1.pending_b_q
  BY <1>4, <1>7, Completes
<1> HIDE DEF d2
<1>10. /\ d2.req_port = P /\ d2.pending_aw_q = d.pending_aw_q
       /\ d2.active_b = d.active_b /\ d2.active_r_q = d.active_r_q
       /\ d2.pending_r_q = IF e.op = "RD" THEN Append(d.pending_r_q, y)
                           ELSE d.pending_r_q
       /\ d2.pending_b_q = IF e.op = "WR" THEN Append(d.pending_b_q, y)
                           ELSE d.pending_b_q
  BY <1>4, <1>8, <1>9 DEF SameBus, SameCounts, SameQueues
<1>11. e.op = "RD" \/ e.op = "WR" BY <1>3 DEF Entry, Op
<1>12. ASSUME NEW A, NEW q \in Seq(Entry), Channel(A, q, d.req_port)
       PROVE  Channel(A, q, P) /\ Channel(A, Append(q, y), P)
  <2>1. Ahead(A, d.req_port) BY <1>12 DEF Channel, Ahead
  <2>2. Ahead(SeqSet(q), d.req_port) BY <1>12 DEF Channel
  <2>3. P \in SUBSET d.req_port BY DEF P
  <2>4. Channel(A, Append(q, y), P)
    BY <1>2, <1>4, <1>5, <1>6, <1>12, <2>1, <2>2, <2>3, ChannelAppend
  <2>5. Channel(A, q, P) BY <1>12, <2>3 DEF Channel, Ahead
  <2> QED BY <2>4, <2>5
<1>13. /\ Channel(SeqSet(d2.active_b), d2.pending_b_q, d2.req_port)
       /\ Channel(SeqSet(d2.active_r_q), d2.pending_r_q, d2.req_port)
  BY <1>2, <1>10, <1>12 DEF Ordered
<1>14. Out(d) = S \cup {e} /\ Out(d2) = S \cup {y}
  <2>1. /\ SeqSet(Append(d.pending_b_q, y)) = SeqSet(d.pending_b_q) \cup {y}
        /\ SeqSet(Append(d.pending_r_q, y)) = SeqSet(d.pending_r_q) \cup {y}
    BY <1>2, <1>4, QueueAppend
  <2>2. Out(d2) = S \cup {y} BY <1>10, <1>11, <2>1 DEF Out
  <2>3. Out(d) = S \cup {e} BY DEF Out, P
  <2> QED BY <2>2, <2>3
<1> HIDE DEF S
<1>15. Addresses(d2.pending_aw_q, Out(d2))
  <2>1. \A f \in Out(d2) : \E g \in Out(d) : g.op = f.op /\ g.num = f.num
    BY <1>4, <1>14
  <2>2. Addresses(d.pending_aw_q, Out(d)) BY DEF Ordered
  <2>3. \A i \in DOMAIN d.pending_aw_q : \A f \in Out(d2) :
          f.op = "WR" => f.num < d.pending_aw_q[i].num
    BY <2>1, <2>2 DEF Addresses
  <2> QED BY <1>10, <2>2, <2>3 DEF Addresses
<1>16. ASSUME NEW s PROVE Nums(Out(d2), s) = Nums(Out(d), s)
  <2>1. Nums(S \cup {e}, s) = Nums(S \cup {y}, s)
    <3>1. e.num = y.num /\ SameStream(e, y) /\ ~e.pre /\ ~y.pre
      BY <1>3, <1>4
    <3>2. SameStream(e, s) <=> SameStream(y, s)
      BY <3>1 DEF SameStream
    <3> QED BY <3>1, <3>2 DEF Nums
  <2> QED BY <1>14, <2>1
<1>17. Ordered(d2) BY <1>13, <1>15 DEF Ordered
<1> QED BY <1>16, <1>17 DEF d2, d1, y, P

LEMMA IdleOrder ==
  ASSUME NEW c \in Cfg
  PROVE  /\ Ordered(Idle(c)) /\ InBounds(Idle(c))
         /\ \A s : Nums(Out(Idle(c)), s) = {}
<1> DEFINE d == Idle(c)
<1>1. /\ d.active_b = <<>> /\ d.active_r_q = <<>> /\ d.pending_b_q = <<>>
      /\ d.pending_r_q = <<>> /\ d.pending_aw_q = <<>> /\ d.req_port = {}
      /\ d.observed_aw_count = 0 /\ d.observed_ar_count = 0
  BY DEF Idle
<1> HIDE DEF d
<1>2. SeqSet(<<>>) = {} /\ DOMAIN <<>> = {} BY NoEntry DEF SeqSet
<1>3. Out(d) = {} BY <1>1, <1>2 DEF Out
<1>4. Ordered(d)
  BY <1>1, <1>2, <1>3 DEF Ordered, Channel, Ahead, Rising, Addresses
<1>5. InBounds(d) BY <1>1, Axi4Assumption DEF InBounds
<1>6. \A s : Nums(Out(d), s) = {} BY <1>3 DEF Nums
<1> QED BY <1>4, <1>5, <1>6 DEF d

(***************************************************************************)
(* FifoInv: what each stream has at the backend is a FIFO.                 *)
(***************************************************************************)
FifoInv ==
  /\ Axi4Inv /\ Ordered(drv) /\ InBounds(drv)
  /\ \A s \in Stream : \E q : Lists(q, Nums(Out(drv), s))

(* The numbers of a stream that Backed has are those of Out.               *)
LEMMA InOrderLists ==
  ASSUME Axi4Inv, NEW s, NEW q, Lists(q, Nums(Out(drv), s))
  PROVE  InOrder(s) = q
<1> DEFINE W == PlacesOf(drv)
<1>1. drv \in Driver BY DEF Axi4Inv, DriverInv
<1>2. \A e : e \in Out(drv) <=> \E i \in 2 .. 6 : e \in W[i]
  <2>1. /\ W[2] = drv.req_port
        /\ W[3] = SeqSet(drv.pending_b_q) /\ W[4] = SeqSet(drv.active_b)
        /\ W[5] = SeqSet(drv.pending_r_q) /\ W[6] = SeqSet(drv.active_r_q)
    BY <1>1, PlacesType
  <2> HIDE DEF W
  <2>2. \A i \in 2 .. 6 : i = 2 \/ i = 3 \/ i = 4 \/ i = 5 \/ i = 6 OBVIOUS
  <2>3. {2, 3, 4, 5, 6} \subseteq 2 .. 6 OBVIOUS
  <2> QED BY <2>1, <2>2, <2>3 DEF Out
<1>3. \A e : e \in Waiting \ SeqSet(drv.pending_aw_q) <=> e \in Out(drv)
  <2>1. \A i \in 2 .. 6 : i \in Slot /\ i # 1 BY DEF Slot
  <2>2. 1 \in Slot /\ \A k \in Slot : k # 1 => k \in 2 .. 6 BY DEF Slot
  <2>3. W[1] = SeqSet(drv.pending_aw_q) BY <1>1, PlacesType
  <2>4. \A e : \A i, j \in Slot : e \in W[i] /\ e \in W[j] => i = j
    BY DEF Axi4Inv, DriverInv, Booked, Books, Ledger, OnePlace, SameCmd
  <2>5. \A e : e \in Waiting <=> \E k \in Slot : e \in W[k]
    BY <1>1, PlaceOfWaiting
  <2> HIDE DEF W
  <2> QED BY <1>2, <2>1, <2>2, <2>3, <2>4, <2>5
<1>4. {e.num : e \in {b \in Backed : SameStream(b, s)}} = Nums(Out(drv), s)
  BY <1>3 DEF Backed, Nums
<1>5. InOrder(s) = Listed(Nums(Out(drv), s))
  <2>1. InOrder(s)
          = Listed({e.num : e \in {b \in Backed : SameStream(b, s)}})
    BY Zenon DEF InOrder, Listed
  <2> QED BY <1>4, <2>1
<1> QED BY <1>5, ListIsListed

(* What the lemma says of a state, and so of the next one.                 *)
FifosListed ==
  Axi4Inv =>
    \A s : \A q : Lists(q, Nums(Out(drv), s)) => InOrder(s) = q

LEMMA InOrderNext == FifosListed'
<1>1. FifosListed BY InOrderLists DEF FifosListed
<1> QED BY <1>1, PTL

LEMMA StreamOp ==
  ASSUME NEW s \in Stream
  PROVE  s.op \in Op
  BY Axi4Assumption DEF Stream, Op

(* A FIFO with a command less in front and one more at the end.            *)
LEMMA MoveOf ==
  ASSUME NEW q, NEW S, Lists(q, S), NEW U, EdgeMove(S, U)
  PROVE  \E r : Lists(r, U) /\ Port!Move(q, r)
<1>1. PICK T : Leaves(S, T) /\ Joins(T, U) BY DEF EdgeMove
<1>2. \E p : /\ Lists(p, T)
             /\ \E out \in 0 .. 1 :
                  out <= Len(q) /\ SubSeq(q, out + 1, Len(q)) = p
  <2>0. q \in Seq(Nat) BY DEF Lists
  <2>1. CASE T = S
    <3>1. SubSeq(q, 0 + 1, Len(q)) = q BY <2>0
    <3>2. 0 \in 0 .. 1 /\ 0 <= Len(q) BY <2>0
    <3> QED BY <2>1, <3>1, <3>2
  <2>2. CASE T # S
    <3>1. PICK n \in S : (\A m \in S : n <= m) /\ T = S \ {n}
      BY <1>1, <2>2 DEF Leaves
    <3>2. q # <<>> /\ Lists(Tail(q), T) BY <3>1, ListTail
    <3>3. SubSeq(q, 1 + 1, Len(q)) = Tail(q) BY <2>0, <3>2
    <3>4. 1 \in 0 .. 1 /\ 1 <= Len(q) BY <2>0, <3>2
    <3> QED BY <3>2, <3>3, <3>4
  <2> QED BY <2>1, <2>2
<1>3. PICK p : /\ Lists(p, T)
               /\ \E out \in 0 .. 1 :
                    out <= Len(q) /\ SubSeq(q, out + 1, Len(q)) = p
  BY <1>2
<1>4. \E r : /\ Lists(r, U)
             /\ r = p \/ \E n \in 1 .. MaxWr + MaxRd : r = Append(p, n)
  <2>1. CASE U = T BY <1>3, <2>1
  <2>2. CASE U # T
    <3>1. PICK n \in 1 .. MaxWr + MaxRd :
            (\A m \in T : m < n) /\ U = T \cup {n}
      BY <1>1, <2>2 DEF Joins
    <3>2. n \in Nat OBVIOUS
    <3>3. Lists(Append(p, n), U) BY <1>3, <3>1, <3>2, ListAppend
    <3> QED BY <3>3
  <2> QED BY <2>1, <2>2
<1> QED BY <1>3, <1>4 DEF Port!Move

LEMMA FifoInit ==
  ASSUME Init
  PROVE  FifoInv /\ Port!Init
<1>1. Axi4Inv BY Axi4Init
<1>2. PICK c \in Cfg : drv = Idle(c) BY DEF Init
<1>3. /\ Ordered(drv) /\ InBounds(drv)
      /\ \A s \in Stream : Lists(<<>>, Nums(Out(drv), s))
  BY <1>2, IdleOrder, EmptyList
<1>4. \A s \in Stream : InOrder(s) = <<>> BY <1>1, <1>3, InOrderLists
<1>5. FifoInv BY <1>1, <1>3 DEF FifoInv
<1>6. Port!Init BY <1>4 DEF Port!Init
<1> QED BY <1>5, <1>6

LEMMA FifoReset == (Init => FifoInv /\ Port!Init)'
<1>1. Init => FifoInv /\ Port!Init BY FifoInit
<1> QED BY <1>1, PTL

(* How the lists of a step's two states are found to be a step of a FIFO.  *)
Fifo == [s \in Stream |-> InOrder(s)]

LEMMA StreamMoves ==
  ASSUME FifoInv, Axi4Inv', Ordered(drv'), InBounds(drv'),
         \A s \in Stream : EdgeMove(Nums(Out(drv), s), Nums(Out(drv'), s))
  PROVE  FifoInv' /\ Port!Clock
<1>1. Axi4Inv BY DEF FifoInv
<1>2. ASSUME NEW s \in Stream, NEW q, Lists(q, Nums(Out(drv'), s))
      PROVE  InOrder(s)' = q
  BY <1>2, InOrderNext DEF FifosListed
<1>3. ASSUME NEW s \in Stream
      PROVE  \E r : /\ Lists(r, Nums(Out(drv'), s))
                    /\ Port!Move(InOrder(s), InOrder(s)')
  <2>1. PICK q : Lists(q, Nums(Out(drv), s)) BY DEF FifoInv
  <2>2. PICK r : Lists(r, Nums(Out(drv'), s)) /\ Port!Move(q, r)
    BY <2>1, MoveOf
  <2>3. InOrder(s) = q BY <1>1, <2>1, InOrderLists
  <2>4. InOrder(s)' = r BY <1>2, <2>2
  <2> QED BY <2>2, <2>3, <2>4
<1>4. FifoInv' BY <1>3 DEF FifoInv
<1>5. Port!Clock BY <1>3 DEF Port!Clock
<1> QED BY <1>4, <1>5

LEMMA FifoNext ==
  ASSUME FifoInv, [Next]_vars
  PROVE  FifoInv' /\ [Port!Clock \/ Port!Reset]_Fifo
<1>1. Axi4Inv /\ Axi4Inv' BY Axi4Next DEF FifoInv
<1>2. CASE \E in \in Input(BOOLEAN, Due) : Edge(in)
  <2>1. PICK in \in Input(BOOLEAN, Due) : Edge(in) BY <1>2
  <2>2. /\ Ordered(drv') /\ InBounds(drv')
        /\ \A s : s.op \in Op =>
             EdgeMove(Nums(Out(drv), s), Nums(Out(drv'), s))
    BY <2>1, EdgeOrder DEF FifoInv
  <2>3. \A s \in Stream : EdgeMove(Nums(Out(drv), s), Nums(Out(drv'), s))
    BY <2>2, StreamOp
  <2> QED BY <1>1, <2>2, <2>3, StreamMoves
<1>3. CASE \E e \in drv.req_port : Answer(e)
  <2>1. PICK e \in drv.req_port : Answer(e) BY <1>3
  <2>2. /\ Ordered(drv')
        /\ \A s : Nums(Out(drv'), s) = Nums(Out(drv), s)
    <3>1. drv' = complete([drv EXCEPT !.req_port = @ \ {e}], Returned(e))
      BY <2>1 DEF Answer, Returned
    <3>2. \A o \in drv.req_port : SameStream(o, e) => e.num <= o.num
      BY <2>1 DEF Answer
    <3>3. DriverInv(drv, done) /\ Ordered(drv) BY DEF FifoInv, Axi4Inv
    <3> QED BY <3>1, <3>2, <3>3, AnswerOrder
  <2>3. InBounds(drv')
    <3>1. SameBus(drv, drv')
      <4>1. drv' = complete([drv EXCEPT !.req_port = @ \ {e}], Returned(e))
        BY <2>1 DEF Answer, Returned
      <4> QED BY <1>1, <4>1, AnswerStep DEF Axi4Inv
    <3> QED BY <3>1 DEF FifoInv, InBounds, SameBus
  <2>4. \A s : EdgeMove(Nums(Out(drv), s), Nums(Out(drv'), s))
    BY <2>2 DEF EdgeMove, Leaves, Joins
  <2> QED BY <1>1, <2>2, <2>3, <2>4, StreamMoves
<1>4. CASE Reset
  <2>1. PICK c \in Cfg : drv' = Idle(c)
    BY <1>1, <1>4, CfgFacts DEF Reset, Axi4Inv, DriverInv
  <2>2. Init' BY <1>4, <2>1 DEF Init, Reset
  <2> QED BY <2>2, FifoReset DEF Port!Init, Port!Reset
<1>5. CASE UNCHANGED vars
  <2>1. drv' = drv /\ done' = done BY <1>5 DEF vars
  <2>2. UNCHANGED Fifo
    BY <2>1 DEF Fifo, InOrder, Backed, Waiting, Places
  <2>3. FifoInv' BY <1>1, <2>1 DEF FifoInv
  <2> QED BY <2>2, <2>3
<1> QED BY <1>2, <1>3, <1>4, <1>5 DEF Next

(* For each stream the port is a FIFO of what went to the backend: at an   *)
(* edge the oldest command may leave, with its answer, and one new one     *)
(* may join, whatever the order in which the backend answers streams.      *)
THEOREM PortKeepsOrder == Spec => PortSpec
<1>1. Init => FifoInv /\ Port!Init BY FifoInit
<1>2. FifoInv /\ [Next]_vars => FifoInv' /\ [Port!Clock \/ Port!Reset]_Fifo
  BY FifoNext
<1> QED BY <1>1, <1>2, PTL DEF Spec, PortSpec, Port!Spec, Fifo
=============================================================================
