--------------------------- MODULE ChiDriverProofs ---------------------------
(***************************************************************************)
(* The CHI driver: credits are conserved, TXSACTIVE follows the exact      *)
(* number of requests still to be finished, the data of a write stays with *)
(* its write whatever else is under way, and every request gets its        *)
(* replies, each once and in order, with the verdict that is its due.      *)
(***************************************************************************)
EXTENDS ChiDriver, FiniteSetTheorems, SequenceTheorems, TLAPS

Err == {"OKAY", "NDERR", "DERR"}
ReqOp == {"READ", "READ_SEP", "WRITE", "WRITE_ZERO", "PERSIST", "PERSIST_SEP",
          "ATOMIC", "OTHER"}
RspOp == {"READ_RECEIPT", "RESP_SEP_DATA", "COMP_DBID_RESP", "DBID_RESP",
          "COMP", "PERSIST", "COMP_PERSIST"}

(* What the driver keeps of a request, the flits it sends, and what the    *)
(* peer keeps of a request.                                                *)
Entry ==
  [op : ReqOp, num : Nat \ {0}, beats : Nat \ {0}, seen : Nat,
   pre : BOOLEAN, split : BOOLEAN, err : Err]

RspFlit == [op : RspOp, num : Nat \ {0}, timed : BOOLEAN, err : Err]

DatFlit ==
  [op : {"DATA_SEP_RESP", "COMP_DATA"}, num : Nat \ {0}, timed : BOOLEAN,
   err : Err, last : BOOLEAN]

Txn == [kind : Request, rsp : Seq(RspOp), dat : Nat, owed : Nat,
        nderr : BOOLEAN]

Driver ==
  [cfg : Cfg,
   txlinkactivereq : BOOLEAN, txlinkactiveack : BOOLEAN,
   link_active : BOOLEAN,
   grant_pending : [Channel -> Nat], send_credits : [{"rsp", "dat"} -> Nat],
   wr_await_q : Seq(Entry), rsp_send_q : Seq(RspFlit),
   dat_send_q : Seq(DatFlit),
   rsp_announce : Seq(RspFlit), dat_announce : Seq(DatFlit),
   tx_activity_count : Nat, txsactive : BOOLEAN, req_port : SUBSET Entry]

Peer ==
  [rxlinkactivereq : BOOLEAN, credits : [Channel -> Nat], returned : Nat,
   txn : Seq(Txn)]

(***************************************************************************)
(* The book of requests: W are the writes that wait for data, P is what    *)
(* the backend holds, R and D are the flits on their way out, T is what    *)
(* the peer keeps.                                                         *)
(***************************************************************************)

Open(e) == IsRead(e) \/ e.split

Closing == {f \in RspFlit : rsp_flit_closes_activity(f)}
LastBeat == {f \in DatFlit : f.last}

Marks(q, S) == {i \in DOMAIN q : q[i] \in S}

OpenSet(W, P) == {e \in SeqSet(W) \cup P : Open(e)}

(* The counter n counts x more than the final flits and the entries that   *)
(* will bring one; x is not 0 only within a handler.                       *)
Activity(W, P, R, D, n, x) ==
  /\ IsFiniteSet(P)
  /\ n = Cardinality(Marks(R, Closing)) + Cardinality(Marks(D, LastBeat))
           + Cardinality(OpenSet(W, P)) + x

(* No two entries answer one request.                                      *)
Distinct(W, P) ==
  /\ \A i, j \in DOMAIN W : W[i].num = W[j].num => i = j
  /\ \A e, f \in P : e.num = f.num => e = f
  /\ \A i \in DOMAIN W : \A e \in P : W[i].num # e.num

(* Entries and responses are of requests that were sent.                   *)
Known(W, P, R, T) ==
  /\ \A i \in DOMAIN W : W[i].num <= Len(T)
  /\ \A e \in P : e.num <= Len(T)
  /\ \A i \in DOMAIN R : R[i].num <= Len(T)

(* Until the peer has the grant of a write, the grant is the only response *)
(* on its way and no data came; from then on no response is on its way     *)
(* while the write waits, and what came and what is owed are its beats.    *)
Ungranted(e, t, R) ==
  /\ t.owed = 0 /\ e.seen = 0
  /\ \A i \in DOMAIN R : R[i].num = e.num => Grants(R[i])
  /\ \A i, j \in DOMAIN R : R[i].num = e.num /\ R[j].num = e.num => i = j

Granting(e, t, R) ==
  /\ e.seen + t.owed = e.beats
  /\ \A i \in DOMAIN R : R[i].num # e.num

Waits(e, t, R) ==
  /\ e.op = "WRITE" /\ t.kind.op = "WRITE" /\ t.kind.beats = e.beats
  /\ e.seen < e.beats
  /\ IF t.rsp = <<>> THEN Ungranted(e, t, R) ELSE Granting(e, t, R)

Writes(W, P, R, T) ==
  /\ \A i \in DOMAIN W : Waits(W[i], T[W[i].num], R)
  /\ \A e \in P : e.op = "WRITE" => e.seen = e.beats

Views(W, P, R, D, n, T, x) ==
  /\ Activity(W, P, R, D, n, x)
  /\ Distinct(W, P)
  /\ Known(W, P, R, T)
  /\ Writes(W, P, R, T)

ROut(d) == d.rsp_announce \o d.rsp_send_q
DOut(d) == d.dat_announce \o d.dat_send_q

Book(d, T, x) ==
  /\ d \in Driver /\ T \in Seq(Txn)
  /\ Len(d.rsp_announce) <= 1 /\ Len(d.dat_announce) <= 1
  /\ Views(d.wr_await_q, d.req_port, ROut(d), DOut(d), d.tx_activity_count,
           T, x)

(***************************************************************************)
(* The book of credits.                                                    *)
(***************************************************************************)

(* Credits of the peer and those returned on REQ, against the grants.      *)
Balanced(d, credits, returned) ==
  IF d.link_active
  THEN \A c \in Channel :
         credits[c] + d.grant_pending[c]
           = d.cfg.initial_credits - (IF c = "req" THEN returned ELSE 0)
  ELSE /\ \A c \in Channel : credits[c] = 0 /\ d.grant_pending[c] = 0
       /\ returned = 0

(* A flit that is announced has its credit.                                *)
Backed(d) ==
  /\ d.send_credits["rsp"] \in Len(d.rsp_announce) .. d.cfg.peer_credits
  /\ d.send_credits["dat"] \in Len(d.dat_announce) .. d.cfg.peer_credits

ChiInv ==
  /\ peer \in Peer
  /\ Book(drv, peer.txn, 0)
  /\ Balanced(drv, peer.credits, peer.returned)
  /\ Backed(drv)

-----------------------------------------------------------------------------
(* Flits and entries, counted.                                             *)

LEMMA MarksFinite ==
  ASSUME NEW X, NEW S, NEW q \in Seq(X)
  PROVE  IsFiniteSet(Marks(q, S)) /\ Cardinality(Marks(q, S)) \in Nat
<1>1. 1 \in Int /\ Len(q) \in Int OBVIOUS
<1>2. IsFiniteSet(1 .. Len(q)) BY <1>1, FS_Interval
<1>3. Marks(q, S) \in SUBSET (1 .. Len(q)) BY DEF Marks
<1> QED BY <1>2, <1>3, FS_Subset, FS_CardinalityType

(* A queue that grows by a flit gains its mark.                            *)
LEMMA MarksAppend ==
  ASSUME NEW X, NEW S, NEW q \in Seq(X), NEW f \in X
  PROVE  /\ IsFiniteSet(Marks(q, S))
         /\ IsFiniteSet(Marks(Append(q, f), S))
         /\ Cardinality(Marks(q, S)) \in Nat
         /\ Cardinality(Marks(Append(q, f), S))
              = Cardinality(Marks(q, S)) + (IF f \in S THEN 1 ELSE 0)
<1> DEFINE M == Marks(q, S)
<1>1. IsFiniteSet(M) /\ Cardinality(M) \in Nat
  BY MarksFinite
<1>2. Len(q) + 1 \notin M BY DEF Marks
<1>3. /\ IsFiniteSet(M \cup {Len(q) + 1})
      /\ Cardinality(M \cup {Len(q) + 1}) = Cardinality(M) + 1
  BY <1>1, <1>2, FS_AddElement
<1>4. Marks(Append(q, f), S) = IF f \in S THEN M \cup {Len(q) + 1} ELSE M
  BY DEF Marks
<1> QED BY <1>1, <1>3, <1>4

(* A queue that loses its first flit loses its mark.                       *)
LEMMA MarksTail ==
  ASSUME NEW X, NEW S, NEW q \in Seq(X), q # <<>>
  PROVE  /\ Cardinality(Marks(q, S)) \in Nat
         /\ Cardinality(Marks(Tail(q), S)) \in Nat
         /\ Cardinality(Marks(q, S))
              = Cardinality(Marks(Tail(q), S))
                  + (IF Head(q) \in S THEN 1 ELSE 0)
<1> DEFINE M == Marks(q, S)
           N == Marks(Tail(q), S)
           F == [i \in N |-> i + 1]
<1>1. /\ Tail(q) \in Seq(X) /\ Len(Tail(q)) = Len(q) - 1 /\ Len(q) \in Nat
      /\ \A i \in 1 .. Len(q) - 1 : Tail(q)[i] = q[i + 1]
      /\ Len(q) >= 1
  OBVIOUS
<1>2. IsFiniteSet(M) /\ Cardinality(M) \in Nat
  BY MarksFinite
<1>3. IsFiniteSet(N) /\ Cardinality(N) \in Nat
  BY <1>1, MarksFinite
<1>4. Cardinality(M \ {1}) = Cardinality(N)
  <2>1. \A j \in M \ {1} : j - 1 \in N /\ j \in Int
    BY <1>1 DEF Marks
  <2>2. \A i \in N : i + 1 \in M \ {1} /\ i \in Int
    BY <1>1 DEF Marks
  <2>3. F \in [N -> M \ {1}] BY <2>2
  <2>4. \A i, j \in N : F[i] = F[j] => i = j BY <2>2
  <2>5. \A j \in M \ {1} : \E i \in N : F[i] = j
    <3> TAKE j \in M \ {1}
    <3>1. j - 1 \in N /\ j \in Int BY <2>1
    <3>2. F[j - 1] = j BY <3>1
    <3> QED BY <3>1, <3>2
  <2>6. F \in Injection(N, M \ {1}) /\ F \in Surjection(N, M \ {1})
    <3> HIDE DEF F, M, N
    <3> QED BY <2>3, <2>4, <2>5, Zenon DEF Injection, Surjection, IsInjective
  <2>7. ExistsBijection(N, M \ {1}) BY <2>6 DEF ExistsBijection, Bijection
  <2> QED BY <2>7, <1>3, FS_Bijection
<1>5. 1 \in M <=> Head(q) \in S BY <1>1 DEF Marks
<1>6. Cardinality(M \ {1})
        = IF 1 \in M THEN Cardinality(M) - 1 ELSE Cardinality(M)
  BY <1>2, FS_RemoveElement
<1> QED BY <1>2, <1>3, <1>4, <1>5, <1>6

(* The beats of a burst have one last beat.                                *)
LEMMA MarksBeats ==
  ASSUME NEW q \in Seq(DatFlit), NEW e \in Entry
  PROVE  /\ Beats(e) \in Seq(DatFlit)
         /\ Cardinality(Marks(q \o Beats(e), LastBeat))
              = Cardinality(Marks(q, LastBeat)) + 1
<1> DEFINE M == Marks(q, LastBeat)
<1>1. e.beats \in Nat \ {0} /\ e.num \in Nat \ {0} /\ e.err \in Err
      /\ (~e.pre) \in BOOLEAN
  BY DEF Entry
<1>2. Beats(e) \in [1 .. e.beats -> DatFlit]
  BY <1>1, Zenon DEF Beats, DatFlit
<1>3. Beats(e) \in Seq(DatFlit) BY <1>1, <1>2
<1>4. Len(Beats(e)) = e.beats BY <1>1, <1>2, <1>3
<1>5. \A i \in 1 .. e.beats : Beats(e)[i] \in LastBeat <=> i = e.beats
  <2>1. \A i \in 1 .. e.beats : Beats(e)[i].last = (i = e.beats)
    BY DEF Beats
  <2> QED BY <2>1, <1>2 DEF LastBeat
<1>6. Marks(q \o Beats(e), LastBeat) = M \cup {Len(q) + e.beats}
  <2> DEFINE B == Beats(e)
  <2>1. /\ q \o B \in Seq(DatFlit) /\ Len(q \o B) = Len(q) + e.beats
        /\ Len(q) \in Nat
        /\ \A i \in 1 .. Len(q) + e.beats :
             (q \o B)[i] = IF i <= Len(q) THEN q[i] ELSE B[i - Len(q)]
    BY <1>1, <1>3, <1>4, ConcatProperties
  <2>2. \A i \in 1 .. e.beats : B[i] \in LastBeat <=> i = e.beats BY <1>5
  <2> HIDE DEF B
  <2>3. \A i \in 1 .. Len(q) + e.beats : i > Len(q) =>
          ((q \o B)[i] \in LastBeat <=> i = Len(q) + e.beats)
    <3> SUFFICES ASSUME NEW i \in 1 .. Len(q) + e.beats, i > Len(q)
                 PROVE  (q \o B)[i] \in LastBeat <=> i = Len(q) + e.beats
      OBVIOUS
    <3>1. i - Len(q) \in 1 .. e.beats BY <1>1, <2>1
    <3>2. (q \o B)[i] = B[i - Len(q)] BY <2>1
    <3>3. i - Len(q) = e.beats <=> i = Len(q) + e.beats BY <1>1, <2>1
    <3> QED BY <2>2, <3>1, <3>2, <3>3
  <2>4. DOMAIN (q \o B) = 1 .. Len(q) + e.beats /\ DOMAIN q = 1 .. Len(q)
    BY <2>1
  <2> QED BY <1>1, <2>1, <2>3, <2>4 DEF Marks, B
<1>7. IsFiniteSet(M) /\ Cardinality(M) \in Nat BY MarksFinite
<1>8. Len(q) + e.beats \notin M BY <1>1 DEF Marks
<1> QED BY <1>3, <1>6, <1>7, <1>8, FS_AddElement

LEMMA SeqSetFinite ==
  ASSUME NEW X, NEW q \in Seq(X)
  PROVE  IsFiniteSet(SeqSet(q))
<1> DEFINE F == [i \in 1 .. Len(q) |-> q[i]]
<1>1. 1 \in Int /\ Len(q) \in Int /\ DOMAIN q = 1 .. Len(q) OBVIOUS
<1>2. IsFiniteSet(1 .. Len(q)) BY <1>1, FS_Interval
<1>3. F \in [1 .. Len(q) -> SeqSet(q)] BY <1>1 DEF SeqSet
<1>4. \A y \in SeqSet(q) : \E i \in 1 .. Len(q) : F[i] = y
  BY <1>1 DEF SeqSet
<1>5. F \in Surjection(1 .. Len(q), SeqSet(q))
  <2> HIDE DEF F
  <2> QED BY <1>3, <1>4 DEF Surjection
<1> QED BY <1>2, <1>5, FS_Surjection

LEMMA OpenFinite ==
  ASSUME NEW W \in Seq(Entry), NEW P, IsFiniteSet(P)
  PROVE  IsFiniteSet(OpenSet(W, P)) /\ Cardinality(OpenSet(W, P)) \in Nat
<1>1. IsFiniteSet(SeqSet(W)) BY SeqSetFinite
<1>2. IsFiniteSet(SeqSet(W) \cup P) BY <1>1, FS_Union
<1>3. OpenSet(W, P) \in SUBSET (SeqSet(W) \cup P) BY DEF OpenSet
<1> QED BY <1>2, <1>3, FS_Subset, FS_CardinalityType

(* One entry more.                                                         *)
LEMMA OpenGains ==
  ASSUME NEW W \in Seq(Entry), NEW P, NEW V, NEW Q, NEW e,
         IsFiniteSet(P), e \notin SeqSet(W) \cup P,
         SeqSet(V) \cup Q = (SeqSet(W) \cup P) \cup {e}
  PROVE  Cardinality(OpenSet(V, Q))
           = Cardinality(OpenSet(W, P)) + (IF Open(e) THEN 1 ELSE 0)
<1>1. IsFiniteSet(OpenSet(W, P)) /\ Cardinality(OpenSet(W, P)) \in Nat
  BY OpenFinite
<1>2. OpenSet(V, Q) = IF Open(e) THEN OpenSet(W, P) \cup {e}
                      ELSE OpenSet(W, P)
  BY DEF OpenSet
<1>3. e \notin OpenSet(W, P) BY DEF OpenSet
<1>4. Cardinality(OpenSet(W, P) \cup {e}) = Cardinality(OpenSet(W, P)) + 1
  BY <1>1, <1>3, FS_AddElement
<1> QED BY <1>1, <1>2, <1>4

LEMMA SeqSetAppend ==
  ASSUME NEW X, NEW q \in Seq(X), NEW f \in X
  PROVE  SeqSet(Append(q, f)) = SeqSet(q) \cup {f}
<1>1. /\ Append(q, f) \in Seq(X) /\ Len(Append(q, f)) = Len(q) + 1
      /\ Len(q) \in Nat
      /\ DOMAIN Append(q, f) = 1 .. Len(q) + 1 /\ DOMAIN q = 1 .. Len(q)
      /\ \A i \in 1 .. Len(q) : Append(q, f)[i] = q[i]
      /\ Append(q, f)[Len(q) + 1] = f
  OBVIOUS
<1> QED BY <1>1 DEF SeqSet

(* What a queue is after the entry at i was taken out.                     *)
LEMMA DropIs ==
  ASSUME NEW X, NEW q \in Seq(X), NEW i \in DOMAIN q
  PROVE  /\ Drop(q, i) \in Seq(X)
         /\ DOMAIN Drop(q, i) = 1 .. Len(q) - 1
         /\ \A j \in 1 .. Len(q) - 1 :
              Drop(q, i)[j] = IF j < i THEN q[j] ELSE q[j + 1]
<1> DEFINE a == SubSeq(q, 1, i - 1)
           b == SubSeq(q, i + 1, Len(q))
<1>1. /\ i \in 1 .. Len(q) /\ Len(q) \in Nat /\ i \in Nat
      /\ 1 \in Int /\ i - 1 \in Int /\ i + 1 \in Int /\ Len(q) \in Int
      /\ \A j \in 1 .. Len(q) : q[j] \in X
  OBVIOUS
<1>2. /\ a \in Seq(X) /\ Len(a) = i - 1
      /\ \A j \in 1 .. i - 1 : a[j] = q[j]
  <2>1. \A j \in 1 .. i - 1 : q[j] \in X BY <1>1
  <2>2. /\ a \in Seq(X) /\ Len(a) = (IF 1 <= i - 1 THEN i - 1 - 1 + 1 ELSE 0)
        /\ \A j \in 1 .. i - 1 - 1 + 1 : a[j] = q[1 + j - 1]
    BY <1>1, <2>1, SubSeqProperties
  <2> HIDE DEF a
  <2> QED BY <1>1, <2>2
<1>3. /\ b \in Seq(X) /\ Len(b) = Len(q) - i
      /\ \A j \in 1 .. Len(q) - i : b[j] = q[i + j]
  <2>1. \A j \in i + 1 .. Len(q) : q[j] \in X BY <1>1
  <2>2. /\ b \in Seq(X)
        /\ Len(b) = (IF i + 1 <= Len(q) THEN Len(q) - (i + 1) + 1 ELSE 0)
        /\ \A j \in 1 .. Len(q) - (i + 1) + 1 : b[j] = q[i + 1 + j - 1]
    BY <1>1, <2>1, SubSeqProperties
  <2> HIDE DEF b
  <2>3. Len(b) = Len(q) - i BY <1>1, <2>2
  <2>4. ASSUME NEW j \in 1 .. Len(q) - i PROVE b[j] = q[i + j]
    <3>0. i \in Nat /\ Len(q) \in Nat BY <1>1
    <3>1. j \in 1 .. Len(q) - (i + 1) + 1 BY <3>0
    <3>2. i + 1 + j - 1 = i + j BY <3>0
    <3> QED BY <2>2, <3>1, <3>2
  <2> QED BY <2>2, <2>3, <2>4
<1>4. Drop(q, i) = a \o b BY DEF Drop
<1> HIDE DEF a, b
<1>5. /\ a \o b \in Seq(X) /\ Len(a \o b) = Len(a) + Len(b)
      /\ \A j \in 1 .. Len(a) + Len(b) :
           (a \o b)[j] = IF j <= Len(a) THEN a[j] ELSE b[j - Len(a)]
  BY <1>2, <1>3, ConcatProperties
<1>6. Len(a) + Len(b) = Len(q) - 1 BY <1>1, <1>2, <1>3
<1>7. \A j \in 1 .. Len(q) - 1 :
        (a \o b)[j] = IF j < i THEN q[j] ELSE q[j + 1]
  <2> TAKE j \in 1 .. Len(q) - 1
  <2>1. CASE j < i BY <1>1, <1>2, <1>5, <1>6, <2>1
  <2>2. CASE ~(j < i)
    <3>1. j - (i - 1) \in 1 .. Len(q) - i BY <1>1, <2>2
    <3>2. (a \o b)[j] = b[j - (i - 1)]
      <4>1. j \in 1 .. Len(a) + Len(b) BY <1>6
      <4>2. ~(j <= Len(a)) BY <1>1, <1>2, <2>2
      <4> QED BY <1>2, <1>5, <4>1, <4>2
    <3>3. b[j - (i - 1)] = q[i + (j - (i - 1))] BY <1>3, <3>1
    <3>4. i + (j - (i - 1)) = j + 1 BY <1>1
    <3> QED BY <2>2, <3>2, <3>3, <3>4
  <2> QED BY <2>1, <2>2
<1> QED BY <1>4, <1>5, <1>6, <1>7

(* Two queues that differ at most at k are the same without that place.    *)
LEMMA DropSet ==
  ASSUME NEW X, NEW q \in Seq(X), NEW k \in DOMAIN q,
         NEW p \in Seq(X), Len(p) = Len(q),
         \A i \in DOMAIN q : i # k => p[i] = q[i]
  PROVE  SeqSet(p) = SeqSet(Drop(q, k)) \cup {p[k]}
<1> DEFINE V == Drop(q, k)
<1>1. /\ V \in Seq(X) /\ DOMAIN V = 1 .. Len(q) - 1
      /\ \A i \in 1 .. Len(q) - 1 : V[i] = IF i < k THEN q[i] ELSE q[i + 1]
  BY DropIs
<1>2. /\ k \in 1 .. Len(q) /\ Len(q) \in Nat
      /\ DOMAIN q = 1 .. Len(q) /\ DOMAIN p = 1 .. Len(q)
  OBVIOUS
<1> HIDE DEF V
<1>3. ASSUME NEW i \in DOMAIN V PROVE V[i] \in SeqSet(p)
  <2>1. CASE i < k
    <3>1. V[i] = q[i] /\ i \in DOMAIN q /\ i # k BY <1>1, <1>2, <2>1
    <3> QED BY <3>1, <1>2 DEF SeqSet
  <2>2. CASE ~(i < k)
    <3>1. V[i] = q[i + 1] /\ i + 1 \in DOMAIN q /\ i + 1 # k
      BY <1>1, <1>2, <2>2
    <3> QED BY <3>1, <1>2 DEF SeqSet
  <2> QED BY <2>1, <2>2
<1>4. ASSUME NEW i \in DOMAIN p, i # k PROVE p[i] \in SeqSet(V)
  <2> DEFINE j == IF i < k THEN i ELSE i - 1
  <2>1. j \in 1 .. Len(q) - 1 BY <1>2, <1>4
  <2>2. (IF j < k THEN q[j] ELSE q[j + 1]) = q[i] BY <1>2, <1>4
  <2>3. V[j] = p[i] BY <1>1, <1>2, <1>4, <2>1, <2>2
  <2> HIDE DEF j
  <2> QED BY <1>1, <2>1, <2>3 DEF SeqSet
<1>5. \A a \in SeqSet(V) \cup {p[k]} : a \in SeqSet(p)
  BY <1>2, <1>3 DEF SeqSet
<1>6. \A a \in SeqSet(p) : a \in SeqSet(V) \cup {p[k]}
  BY <1>4 DEF SeqSet
<1> QED BY <1>5, <1>6 DEF V

(* The sum behind TXSACTIVE when one of its terms changes.                 *)
LEMMA ActivityRsp ==
  ASSUME NEW W, NEW P, NEW R, NEW D, NEW n \in Int, NEW x \in Int,
         NEW S, NEW m \in Int, NEW y \in Int, NEW r \in Int,
         Activity(W, P, R, D, n, x),
         Cardinality(Marks(R, Closing)) \in Nat,
         Cardinality(Marks(D, LastBeat)) \in Nat,
         Cardinality(OpenSet(W, P)) \in Nat,
         Cardinality(Marks(S, Closing)) = Cardinality(Marks(R, Closing)) + r,
         m = n + r + (y - x)
  PROVE  Activity(W, P, S, D, m, y)
<1>1. /\ IsFiniteSet(P)
      /\ n = Cardinality(Marks(R, Closing)) + Cardinality(Marks(D, LastBeat))
               + Cardinality(OpenSet(W, P)) + x
  BY DEF Activity
<1>2. m = Cardinality(Marks(S, Closing)) + Cardinality(Marks(D, LastBeat))
            + Cardinality(OpenSet(W, P)) + y
  BY <1>1
<1> QED BY <1>1, <1>2 DEF Activity

LEMMA ActivityDat ==
  ASSUME NEW W, NEW P, NEW R, NEW D, NEW n \in Int, NEW x \in Int,
         NEW C, NEW m \in Int, NEW y \in Int, NEW r \in Int,
         Activity(W, P, R, D, n, x),
         Cardinality(Marks(R, Closing)) \in Nat,
         Cardinality(Marks(D, LastBeat)) \in Nat,
         Cardinality(OpenSet(W, P)) \in Nat,
         Cardinality(Marks(C, LastBeat)) = Cardinality(Marks(D, LastBeat)) + r,
         m = n + r + (y - x)
  PROVE  Activity(W, P, R, C, m, y)
BY DEF Activity

LEMMA ActivityOpen ==
  ASSUME NEW W, NEW P, NEW R, NEW D, NEW n \in Int, NEW x \in Int,
         NEW V, NEW Q, NEW m \in Int, NEW y \in Int, NEW r \in Int,
         Activity(W, P, R, D, n, x), IsFiniteSet(Q),
         Cardinality(Marks(R, Closing)) \in Nat,
         Cardinality(Marks(D, LastBeat)) \in Nat,
         Cardinality(OpenSet(W, P)) \in Nat,
         Cardinality(OpenSet(V, Q)) = Cardinality(OpenSet(W, P)) + r,
         m = n + r + (y - x)
  PROVE  Activity(V, Q, R, D, m, y)
BY DEF Activity

-----------------------------------------------------------------------------
(* What one step of a handler does to the book.                            *)

(* A response is queued.                                                   *)
LEMMA PushView ==
  ASSUME NEW W \in Seq(Entry), NEW P \in SUBSET Entry,
         NEW R \in Seq(RspFlit), NEW D \in Seq(DatFlit), NEW n \in Nat,
         NEW T \in Seq(Txn), NEW x \in Int, Views(W, P, R, D, n, T, x),
         NEW f \in RspFlit, f.num <= Len(T),
         \A i \in DOMAIN W : W[i].num # f.num
  PROVE  Views(W, P, Append(R, f), D, n, T,
               x - (IF rsp_flit_closes_activity(f) THEN 1 ELSE 0))
<1> DEFINE S == Append(R, f)
<1>1. /\ S \in Seq(RspFlit) /\ DOMAIN S = 1 .. Len(R) + 1
      /\ DOMAIN R = 1 .. Len(R) /\ Len(R) \in Nat
      /\ \A i \in 1 .. Len(R) : S[i] = R[i]
      /\ S[Len(R) + 1] = f
  OBVIOUS
<1>2. \A i \in DOMAIN S : S[i] = f \/ (i \in DOMAIN R /\ S[i] = R[i])
  <2> TAKE i \in DOMAIN S
  <2> HIDE DEF S
  <2>1. CASE i \in 1 .. Len(R) BY <1>1, <2>1
  <2>2. CASE i \notin 1 .. Len(R)
    <3>1. i = Len(R) + 1 BY <1>1, <2>2
    <3> QED BY <1>1, <3>1
  <2> QED BY <2>1, <2>2
<1>3. Activity(W, P, S, D, n,
               x - (IF rsp_flit_closes_activity(f) THEN 1 ELSE 0))
  <2>1. /\ Cardinality(Marks(R, Closing)) \in Nat
        /\ Cardinality(Marks(S, Closing))
             = Cardinality(Marks(R, Closing))
                 + (IF f \in Closing THEN 1 ELSE 0)
    BY MarksAppend
  <2>2. f \in Closing <=> rsp_flit_closes_activity(f) BY DEF Closing
  <2>3. Cardinality(Marks(D, LastBeat)) \in Nat BY MarksFinite
  <2>4. Cardinality(OpenSet(W, P)) \in Nat
    BY OpenFinite DEF Views, Activity
  <2> QED BY <2>1, <2>2, <2>3, <2>4 DEF Views, Activity
<1>4. Known(W, P, S, T)
  <2> HIDE DEF S
  <2> QED BY <1>2 DEF Views, Known
<1>5. Writes(W, P, S, T)
  <2>1. ASSUME NEW i \in DOMAIN W PROVE Waits(W[i], T[W[i].num], S)
    <3> DEFINE e == W[i]
               t == T[e.num]
    <3>1. Waits(e, t, R) BY DEF Views, Writes
    <3>2. \A j \in DOMAIN S : S[j].num = e.num => S[j] = R[j] /\ j \in DOMAIN R
      BY <1>2
    <3> HIDE DEF e, t, S
    <3>3. Ungranted(e, t, R) => Ungranted(e, t, S)
      BY <3>2 DEF Ungranted
    <3>4. Granting(e, t, R) => Granting(e, t, S)
      BY <3>2 DEF Granting
    <3> QED BY <3>1, <3>3, <3>4 DEF Waits, e, t
  <2> QED BY <2>1 DEF Views, Writes
<1> QED BY <1>3, <1>4, <1>5 DEF Views

(* The beats of a read are queued.                                         *)
LEMMA BeatsView ==
  ASSUME NEW W \in Seq(Entry), NEW P \in SUBSET Entry,
         NEW R \in Seq(RspFlit), NEW D \in Seq(DatFlit), NEW n \in Nat,
         NEW T \in Seq(Txn), NEW x \in Int, Views(W, P, R, D, n, T, x),
         NEW e \in Entry
  PROVE  Views(W, P, R, D \o Beats(e), n, T, x - 1)
<1>1. Cardinality(Marks(D \o Beats(e), LastBeat))
        = Cardinality(Marks(D, LastBeat)) + 1
  BY MarksBeats
<1>2. /\ Cardinality(Marks(D, LastBeat)) \in Nat
      /\ Cardinality(Marks(R, Closing)) \in Nat
  BY MarksFinite
<1>3. Cardinality(OpenSet(W, P)) \in Nat
  BY OpenFinite DEF Views, Activity
<1>4. ASSUME NEW V, Cardinality(Marks(V, LastBeat))
                      = Cardinality(Marks(D, LastBeat)) + 1
      PROVE  Views(W, P, R, V, n, T, x - 1)
  <2>1. Activity(W, P, R, V, n, x - 1)
    <3>1. Activity(W, P, R, D, n, x) BY DEF Views
    <3>2. x - 1 \in Int /\ 1 \in Int /\ n = n + 1 + ((x - 1) - x) /\ n \in Int
      OBVIOUS
    <3> QED BY <1>2, <1>3, <1>4, <3>1, <3>2, ActivityDat
  <2> QED BY <2>1 DEF Views
<1> QED BY <1>1, <1>4

(* An entry is given to the backend.                                       *)
LEMMA IssueView ==
  ASSUME NEW W \in Seq(Entry), NEW P \in SUBSET Entry,
         NEW R \in Seq(RspFlit), NEW D \in Seq(DatFlit), NEW n \in Nat,
         NEW T \in Seq(Txn), NEW x \in Int, Views(W, P, R, D, n, T, x),
         NEW e \in Entry, e.num <= Len(T),
         e.op = "WRITE" => e.seen = e.beats,
         \A i \in DOMAIN W : W[i].num # e.num,
         \A g \in P : g.num # e.num
  PROVE  Views(W, P \cup {e}, R, D, n, T, x - (IF Open(e) THEN 1 ELSE 0))
<1>1. e \notin SeqSet(W) \cup P BY DEF SeqSet
<1>2. SeqSet(W) \cup (P \cup {e}) = (SeqSet(W) \cup P) \cup {e} OBVIOUS
<1>3. IsFiniteSet(P) BY DEF Views, Activity
<1>4. /\ Cardinality(OpenSet(W, P \cup {e}))
           = Cardinality(OpenSet(W, P)) + (IF Open(e) THEN 1 ELSE 0)
      /\ Cardinality(OpenSet(W, P)) \in Nat
  BY <1>1, <1>2, <1>3, OpenGains, OpenFinite
<1>5. /\ Cardinality(Marks(D, LastBeat)) \in Nat
      /\ Cardinality(Marks(R, Closing)) \in Nat
  BY MarksFinite
<1>6. IsFiniteSet(P \cup {e}) BY <1>3, FS_AddElement
<1>7. Activity(W, P \cup {e}, R, D, n, x - (IF Open(e) THEN 1 ELSE 0))
  BY <1>4, <1>5, <1>6 DEF Views, Activity
<1>8. Distinct(W, P \cup {e}) BY DEF Views, Distinct
<1>9. Known(W, P \cup {e}, R, T) BY DEF Views, Known
<1>10. Writes(W, P \cup {e}, R, T) BY DEF Views, Writes
<1> QED BY <1>7, <1>8, <1>9, <1>10 DEF Views

(* The backend is done with an entry.                                      *)
LEMMA FinishView ==
  ASSUME NEW W \in Seq(Entry), NEW P \in SUBSET Entry,
         NEW R \in Seq(RspFlit), NEW D \in Seq(DatFlit), NEW n \in Nat,
         NEW T \in Seq(Txn), NEW x \in Int, Views(W, P, R, D, n, T, x),
         NEW e \in P
  PROVE  Views(W, P \ {e}, R, D, n, T, x + (IF Open(e) THEN 1 ELSE 0))
<1>0. IsFiniteSet(P) /\ IsFiniteSet(P \ {e})
  BY FS_RemoveElement DEF Views, Activity
<1>1. e \notin SeqSet(W) \cup (P \ {e})
  BY DEF SeqSet, Views, Distinct
<1>2. SeqSet(W) \cup P = (SeqSet(W) \cup (P \ {e})) \cup {e} OBVIOUS
<1>3. Cardinality(OpenSet(W, P \ {e})) \in Nat BY <1>0, OpenFinite
<1>4. Cardinality(OpenSet(W, P))
        = Cardinality(OpenSet(W, P \ {e})) + (IF Open(e) THEN 1 ELSE 0)
  BY <1>0, <1>1, <1>2, OpenGains
<1>5. /\ Cardinality(Marks(D, LastBeat)) \in Nat
      /\ Cardinality(Marks(R, Closing)) \in Nat
  BY MarksFinite
<1>7. Activity(W, P \ {e}, R, D, n, x + (IF Open(e) THEN 1 ELSE 0))
  BY <1>0, <1>3, <1>4, <1>5 DEF Views, Activity
<1>8. Distinct(W, P \ {e}) BY DEF Views, Distinct
<1>9. Known(W, P \ {e}, R, T) BY DEF Views, Known
<1>10. Writes(W, P \ {e}, R, T) BY DEF Views, Writes
<1> QED BY <1>7, <1>8, <1>9, <1>10 DEF Views

(* A write waits for its data; its grant is on the way.                    *)
LEMMA AwaitView ==
  ASSUME NEW W \in Seq(Entry), NEW P \in SUBSET Entry,
         NEW R \in Seq(RspFlit), NEW D \in Seq(DatFlit), NEW n \in Nat,
         NEW T \in Seq(Txn), NEW x \in Int, Views(W, P, R, D, n, T, x),
         NEW e \in Entry, e.num <= Len(T), Waits(e, T[e.num], R),
         \A i \in DOMAIN W : W[i].num # e.num,
         \A g \in P : g.num # e.num
  PROVE  Views(Append(W, e), P, R, D, n, T,
               x - (IF Open(e) THEN 1 ELSE 0))
<1> DEFINE V == Append(W, e)
           y == x - (IF Open(e) THEN 1 ELSE 0)
           r == IF Open(e) THEN 1 ELSE 0
<1>1. /\ V \in Seq(Entry) /\ DOMAIN V = 1 .. Len(W) + 1
      /\ DOMAIN W = 1 .. Len(W) /\ Len(W) \in Nat
      /\ \A i \in 1 .. Len(W) : V[i] = W[i]
      /\ V[Len(W) + 1] = e
  OBVIOUS
<1>2. \A i \in DOMAIN V :
        (i = Len(W) + 1 /\ V[i] = e) \/ (i \in DOMAIN W /\ V[i] = W[i])
  <2> TAKE i \in DOMAIN V
  <2> HIDE DEF V
  <2>1. CASE i \in 1 .. Len(W) BY <1>1, <2>1
  <2>2. CASE i \notin 1 .. Len(W)
    <3>1. i = Len(W) + 1 BY <1>1, <2>2
    <3> QED BY <1>1, <3>1
  <2> QED BY <2>1, <2>2
<1>3. Activity(V, P, R, D, n, y)
  <2>1. IsFiniteSet(P) /\ Activity(W, P, R, D, n, x)
    BY DEF Views, Activity
  <2>2. e \notin SeqSet(W) \cup P BY DEF SeqSet
  <2>3. SeqSet(V) \cup P = (SeqSet(W) \cup P) \cup {e} BY SeqSetAppend
  <2>4. /\ Cardinality(OpenSet(V, P)) = Cardinality(OpenSet(W, P)) + r
        /\ Cardinality(OpenSet(W, P)) \in Nat
    BY <2>1, <2>2, <2>3, OpenGains, OpenFinite
  <2>5. /\ Cardinality(Marks(D, LastBeat)) \in Nat
        /\ Cardinality(Marks(R, Closing)) \in Nat
    BY MarksFinite
  <2>6. r \in Int /\ y \in Int /\ n \in Int /\ n = n + r + (y - x) OBVIOUS
  <2> HIDE DEF r, y, V
  <2> QED BY <2>1, <2>4, <2>5, <2>6, ActivityOpen
<1> HIDE DEF V, y
<1>4. Distinct(V, P)
  <2>1. ASSUME NEW i \in DOMAIN V, NEW j \in DOMAIN V, V[i].num = V[j].num
        PROVE  i = j
    BY <1>2, <2>1 DEF Views, Distinct
  <2>2. \A i \in DOMAIN V : \A f \in P : V[i].num # f.num
    BY <1>2 DEF Views, Distinct
  <2> QED BY <2>1, <2>2 DEF Views, Distinct
<1>5. Known(V, P, R, T) BY <1>2 DEF Views, Known
<1>6. Writes(V, P, R, T) BY <1>2 DEF Views, Writes
<1>7. Views(V, P, R, D, n, T, y) BY <1>3, <1>4, <1>5, <1>6 DEF Views
<1> QED BY <1>7 DEF V, y

(* A write waits no longer.                                                *)
LEMMA DropView ==
  ASSUME NEW W \in Seq(Entry), NEW P \in SUBSET Entry,
         NEW R \in Seq(RspFlit), NEW D \in Seq(DatFlit), NEW n \in Nat,
         NEW T \in Seq(Txn), NEW x \in Int, Views(W, P, R, D, n, T, x),
         NEW k \in DOMAIN W
  PROVE  /\ Views(Drop(W, k), P, R, D, n, T,
                  x + (IF Open(W[k]) THEN 1 ELSE 0))
         /\ \A i \in DOMAIN Drop(W, k) : Drop(W, k)[i].num # W[k].num
<1> DEFINE V == Drop(W, k)
           e == W[k]
           y == x + (IF Open(e) THEN 1 ELSE 0)
           r == IF Open(e) THEN 1 ELSE 0
           To(i) == IF i < k THEN i ELSE i + 1
<1>1. /\ V \in Seq(Entry) /\ DOMAIN V = 1 .. Len(W) - 1
      /\ \A i \in 1 .. Len(W) - 1 : V[i] = IF i < k THEN W[i] ELSE W[i + 1]
  BY DropIs
<1>2. k \in 1 .. Len(W) /\ Len(W) \in Nat /\ DOMAIN W = 1 .. Len(W)
  OBVIOUS
<1> HIDE DEF V
<1>3. ASSUME NEW i \in DOMAIN V
      PROVE  V[i] = W[To(i)] /\ To(i) \in DOMAIN W \ {k} /\ i \in Nat
  BY <1>1, <1>2
<1>4. ASSUME NEW i \in DOMAIN V, NEW j \in DOMAIN V, To(i) = To(j)
      PROVE  i = j
  BY <1>1, <1>2, <1>4
<1> HIDE DEF To
<1>6. \A i \in DOMAIN V : V[i].num # e.num
  BY <1>2, <1>3 DEF Views, Distinct
<1>7. SeqSet(W) = SeqSet(V) \cup {e} BY DropSet DEF V
<1>8. e \notin SeqSet(V) \cup P
  BY <1>2, <1>6 DEF SeqSet, Views, Distinct
<1>9. Activity(V, P, R, D, n, y)
  <2>1. IsFiniteSet(P) /\ Activity(W, P, R, D, n, x)
    BY DEF Views, Activity
  <2>2. SeqSet(W) \cup P = (SeqSet(V) \cup P) \cup {e} BY <1>7
  <2>3. Cardinality(OpenSet(W, P)) = Cardinality(OpenSet(V, P)) + r
    <3> HIDE DEF e, y
    <3>1. Cardinality(OpenSet(W, P))
            = Cardinality(OpenSet(V, P)) + (IF Open(e) THEN 1 ELSE 0)
      <4>1. V \in Seq(Entry) BY <1>1
      <4>2. IsFiniteSet(P) BY <2>1
      <4> QED BY <1>8, <2>2, <4>1, <4>2, OpenGains
    <3> QED BY <3>1
  <2>4. /\ Cardinality(OpenSet(W, P)) \in Nat
        /\ Cardinality(OpenSet(V, P)) \in Nat
    BY <1>1, <2>1, OpenFinite
  <2>5. /\ Cardinality(Marks(D, LastBeat)) \in Nat
        /\ Cardinality(Marks(R, Closing)) \in Nat
    BY MarksFinite
  <2>6. /\ -r \in Int /\ y \in Int /\ n \in Int /\ n = n + (-r) + (y - x)
        /\ r \in Int
    OBVIOUS
  <2> HIDE DEF r, y
  <2>7. Cardinality(OpenSet(V, P)) = Cardinality(OpenSet(W, P)) + (-r)
    BY <2>3, <2>4, <2>6
  <2> QED BY <2>1, <2>4, <2>5, <2>6, <2>7, ActivityOpen
<1> HIDE DEF y
<1>10. Distinct(V, P) BY <1>3, <1>4 DEF Views, Distinct
<1>11. Known(V, P, R, T) BY <1>3 DEF Views, Known
<1>12. Writes(V, P, R, T) BY <1>3 DEF Views, Writes
<1>13. Views(V, P, R, D, n, T, y)
  BY <1>9, <1>10, <1>11, <1>12 DEF Views
<1> QED BY <1>6, <1>13 DEF V, y

(* An entry is replaced by one that brings as much.                        *)
LEMMA OpenSwap ==
  ASSUME NEW W \in Seq(Entry), NEW k \in DOMAIN W, NEW e \in Entry,
         NEW P, IsFiniteSet(P), Open(e) <=> Open(W[k]),
         W[k] \notin SeqSet(Drop(W, k)) \cup P,
         e \notin SeqSet(Drop(W, k)) \cup P
  PROVE  Cardinality(OpenSet([W EXCEPT ![k] = e], P))
           = Cardinality(OpenSet(W, P))
<1> DEFINE V == [W EXCEPT ![k] = e]
           B == Drop(W, k)
<1>1. /\ V \in Seq(Entry) /\ Len(V) = Len(W) /\ V[k] = e
      /\ \A i \in DOMAIN W : i # k => V[i] = W[i]
  OBVIOUS
<1>2. B \in Seq(Entry) BY DropIs
<1>3. SeqSet(W) = SeqSet(B) \cup {W[k]} BY DropSet
<1> HIDE DEF V
<1>4. SeqSet(V) = SeqSet(B) \cup {e} BY <1>1, DropSet
<1> HIDE DEF B
<1>5. SeqSet(W) \cup P = (SeqSet(B) \cup P) \cup {W[k]} BY <1>3
<1>6. SeqSet(V) \cup P = (SeqSet(B) \cup P) \cup {e} BY <1>4
<1>7. e \notin SeqSet(B) \cup P /\ W[k] \notin SeqSet(B) \cup P BY DEF B
<1>8. Cardinality(OpenSet(W, P))
        = Cardinality(OpenSet(B, P)) + (IF Open(W[k]) THEN 1 ELSE 0)
  BY <1>2, <1>5, <1>7, OpenGains
<1>9. Cardinality(OpenSet(V, P))
        = Cardinality(OpenSet(B, P)) + (IF Open(e) THEN 1 ELSE 0)
  BY <1>2, <1>6, <1>7, OpenGains
<1> QED BY <1>8, <1>9 DEF V

(* The peer's record moves on for nobody who waits.                        *)
SameTxn(t, u) == u.kind = t.kind /\ u.rsp = t.rsp /\ u.owed = t.owed

LEMMA WaitsSame ==
  ASSUME NEW e, NEW t, NEW u, NEW R, NEW S,
         Waits(e, t, R), SameTxn(t, u),
         Ungranted(e, t, R) => Ungranted(e, u, S),
         Granting(e, t, R) => Granting(e, u, S)
  PROVE  Waits(e, u, S)
BY DEF Waits, SameTxn

LEMMA WaitsGranted ==
  ASSUME NEW e, NEW t, NEW u, NEW R, NEW S,
         Waits(e, t, R), u.kind = t.kind, u.rsp # <<>>, Granting(e, u, S)
  PROVE  Waits(e, u, S)
BY DEF Waits

LEMMA TxnView ==
  ASSUME NEW W \in Seq(Entry), NEW P \in SUBSET Entry,
         NEW R \in Seq(RspFlit), NEW D \in Seq(DatFlit), NEW n \in Nat,
         NEW T \in Seq(Txn), NEW x \in Int, Views(W, P, R, D, n, T, x),
         NEW U \in Seq(Txn), Len(T) <= Len(U),
         \A i \in DOMAIN W : SameTxn(T[W[i].num], U[W[i].num])
  PROVE  Views(W, P, R, D, n, U, x)
<1>1. Known(W, P, R, U)
  <2>1. Len(T) \in Nat /\ Len(U) \in Nat OBVIOUS
  <2>2. \A e \in Entry : e.num \in Nat BY DEF Entry
  <2>3. \A f \in RspFlit : f.num \in Nat BY DEF RspFlit
  <2>4. /\ \A i \in DOMAIN W : W[i].num \in Nat
        /\ \A e \in P : e.num \in Nat
        /\ \A i \in DOMAIN R : R[i].num \in Nat
    BY <2>2, <2>3
  <2> QED BY <2>1, <2>4 DEF Views, Known
<1>2. Writes(W, P, R, U)
  <2>1. ASSUME NEW i \in DOMAIN W PROVE Waits(W[i], U[W[i].num], R)
    <3> DEFINE e == W[i]
               t == T[e.num]
               u == U[e.num]
    <3>1. Waits(e, t, R) BY DEF Views, Writes
    <3>2. SameTxn(t, u) OBVIOUS
    <3> HIDE DEF e, t, u
    <3>3. Waits(e, u, R)
      BY <3>1, <3>2 DEF Waits, SameTxn, Ungranted, Granting
    <3> QED BY <3>3 DEF e, u
  <2> QED BY <2>1 DEF Views, Writes
<1> QED BY <1>1, <1>2 DEF Views

(* A beat that is not the last arrives for the write at k.                 *)
LEMMA BeatView ==
  ASSUME NEW W \in Seq(Entry), NEW P \in SUBSET Entry,
         NEW R \in Seq(RspFlit), NEW D \in Seq(DatFlit), NEW n \in Nat,
         NEW T \in Seq(Txn), NEW x \in Int, Views(W, P, R, D, n, T, x),
         NEW U \in Seq(Txn), Len(T) = Len(U),
         NEW k \in DOMAIN W, NEW e \in Entry,
         e.op = W[k].op, e.num = W[k].num, e.beats = W[k].beats,
         e.split = W[k].split, e.seen = W[k].seen + 1, e.seen < e.beats,
         T[e.num].owed > 0,
         U[e.num].kind = T[e.num].kind, U[e.num].rsp = T[e.num].rsp,
         U[e.num].owed = T[e.num].owed - 1,
         \A i \in DOMAIN W : i # k => SameTxn(T[W[i].num], U[W[i].num])
  PROVE  Views([W EXCEPT ![k] = e], P, R, D, n, U, x)
<1> DEFINE V == [W EXCEPT ![k] = e]
           B == Drop(W, k)
           w == W[k]
<1>1. /\ V \in Seq(Entry) /\ Len(V) = Len(W) /\ DOMAIN V = DOMAIN W
      /\ V[k] = e /\ \A i \in DOMAIN W : i # k => V[i] = W[i]
  OBVIOUS
<1>2. w \in Entry /\ w.seen \in Nat
  <2>1. w \in Entry OBVIOUS
  <2> QED BY <2>1 DEF Entry
<1>3. /\ e.op = w.op /\ e.num = w.num /\ e.beats = w.beats
      /\ e.split = w.split /\ e.seen = w.seen + 1
  OBVIOUS
<1> HIDE DEF V, B, w
<1>4. \A i \in DOMAIN W : i # k => W[i].num # e.num
  BY <1>3 DEF Views, Distinct, w
<1>5. Activity(V, P, R, D, n, x)
  <2>1. IsFiniteSet(P) /\ Activity(W, P, R, D, n, x)
    BY DEF Views, Activity
  <2>4. B \in Seq(Entry) BY DropIs DEF B
  <2>5. \A i \in DOMAIN B : B[i].num # e.num
    BY <1>3, DropView DEF B, w
  <2>6. \A f \in P : f.num # e.num BY <1>3 DEF Views, Distinct, w
  <2>7. w \notin SeqSet(B) \cup P /\ e \notin SeqSet(B) \cup P
    BY <1>3, <2>5, <2>6 DEF SeqSet
  <2>12. Open(e) <=> Open(w) BY <1>3 DEF Open, IsRead
  <2>13. /\ Cardinality(OpenSet(V, P)) = Cardinality(OpenSet(W, P)) + 0
         /\ Cardinality(OpenSet(W, P)) \in Nat
    <3>1. Cardinality(OpenSet(V, P)) = Cardinality(OpenSet(W, P))
      <4>1. IsFiniteSet(P) BY <2>1
      <4>2. Open(e) <=> Open(W[k]) BY <2>12 DEF w
      <4>3. /\ W[k] \notin SeqSet(Drop(W, k)) \cup P
            /\ e \notin SeqSet(Drop(W, k)) \cup P
        BY <2>7 DEF w, B
      <4>4. Cardinality(OpenSet([W EXCEPT ![k] = e], P))
              = Cardinality(OpenSet(W, P))
        BY <4>1, <4>2, <4>3, OpenSwap
      <4> QED BY <4>4 DEF V
    <3>2. Cardinality(OpenSet(W, P)) \in Nat BY <2>1, OpenFinite
    <3> QED BY <3>1, <3>2
  <2>14. /\ Cardinality(Marks(D, LastBeat)) \in Nat
         /\ Cardinality(Marks(R, Closing)) \in Nat
    BY MarksFinite
  <2>15. 0 \in Int /\ n \in Int /\ n = n + 0 + (x - x) OBVIOUS
  <2> QED BY <2>1, <2>13, <2>14, <2>15, ActivityOpen
<1>6. Distinct(V, P)
  <2>1. \A i \in DOMAIN W : V[i].num = W[i].num BY <1>1, <1>3 DEF w
  <2>2. Distinct(W, P) BY DEF Views
  <2>3. DOMAIN V = DOMAIN W BY <1>1
  <2>4. ASSUME NEW i \in DOMAIN V, NEW j \in DOMAIN V, V[i].num = V[j].num
        PROVE  i = j
    BY <2>1, <2>2, <2>3, <2>4 DEF Distinct
  <2>5. ASSUME NEW i \in DOMAIN V, NEW f \in P PROVE V[i].num # f.num
    BY <2>1, <2>2, <2>3 DEF Distinct
  <2> QED BY <2>2, <2>4, <2>5 DEF Distinct
<1>7. Known(V, P, R, U) BY <1>1, <1>3 DEF Views, Known, w
<1>8. Writes(V, P, R, U)
  <2>1. ASSUME NEW i \in DOMAIN W, i # k PROVE Waits(V[i], U[V[i].num], R)
    <3> DEFINE f == W[i]
               t == T[f.num]
               u == U[f.num]
    <3>1. Waits(f, t, R) BY DEF Views, Writes
    <3>2. SameTxn(t, u) BY <2>1
    <3> HIDE DEF f, t, u
    <3>3. Waits(f, u, R)
      BY <3>1, <3>2 DEF Waits, SameTxn, Ungranted, Granting
    <3>4. V[i] = f BY <1>1, <2>1 DEF f
    <3> QED BY <3>3, <3>4 DEF u
  <2>2. Waits(e, U[e.num], R)
    <3> DEFINE t == T[e.num]
               u == U[e.num]
    <3>1. Waits(w, t, R) BY <1>3 DEF Views, Writes, w
    <3>2. t.owed > 0 /\ u.kind = t.kind /\ u.rsp = t.rsp
          /\ u.owed = t.owed - 1
      OBVIOUS
    <3>3. t.owed \in Nat
      <4>1. w.num \in 1 .. Len(T)
        <5>1. w.num \in Nat \ {0} BY <1>2 DEF Entry
        <5>2. w.num <= Len(T) BY DEF Views, Known, w
        <5> QED BY <5>1, <5>2
      <4>2. t \in Txn BY <1>3, <4>1
      <4> QED BY <4>2 DEF Txn
    <3>4. e.seen < e.beats OBVIOUS
    <3>5. e.beats \in Nat BY DEF Entry
    <3> HIDE DEF t, u
    <3>6. t.rsp # <<>> BY <3>1, <3>2, <3>3 DEF Waits, Ungranted
    <3>7. w.seen + t.owed = w.beats /\ \A i \in DOMAIN R : R[i].num # w.num
      BY <3>1, <3>6 DEF Waits, Granting
    <3>8. e.seen + u.owed = e.beats
      BY <1>2, <1>3, <3>2, <3>3, <3>5, <3>7
    <3>9. Waits(e, u, R)
      BY <1>3, <3>1, <3>2, <3>4, <3>6, <3>7, <3>8 DEF Waits, Granting
    <3> QED BY <3>9 DEF u
  <2>3. \A f \in P : f.op = "WRITE" => f.seen = f.beats
    BY DEF Views, Writes
  <2> QED BY <1>1, <2>1, <2>2, <2>3 DEF Writes
<1>9. Views(V, P, R, D, n, U, x) BY <1>5, <1>6, <1>7, <1>8 DEF Views
<1> QED BY <1>9 DEF V

(* The counter does not run out before the final flits have gone.          *)
LEMMA CounterPositive ==
  ASSUME NEW W \in Seq(Entry), NEW P \in SUBSET Entry,
         NEW R \in Seq(RspFlit), NEW D \in Seq(DatFlit), NEW n \in Nat,
         Activity(W, P, R, D, n, 0),
         \/ R # <<>> /\ rsp_flit_closes_activity(Head(R))
         \/ D # <<>> /\ Head(D).last
  PROVE  n > 0
<1> DEFINE a == Cardinality(Marks(R, Closing))
           b == Cardinality(Marks(D, LastBeat))
           c == Cardinality(OpenSet(W, P))
<1>1. a \in Nat /\ b \in Nat BY MarksFinite
<1>2. c \in Nat BY OpenFinite DEF Activity
<1>3. n = a + b + c + 0 BY DEF Activity
<1>4. CASE R # <<>> /\ rsp_flit_closes_activity(Head(R))
  <2>1. Head(R) \in Closing BY <1>4 DEF Closing
  <2>2. Cardinality(Marks(Tail(R), Closing)) \in Nat
        /\ a = Cardinality(Marks(Tail(R), Closing)) + 1
    BY <1>4, <2>1, MarksTail
  <2> HIDE DEF a, b, c
  <2> QED BY <1>1, <1>2, <1>3, <2>2
<1>5. CASE D # <<>> /\ Head(D).last
  <2>1. Head(D) \in LastBeat BY <1>5 DEF LastBeat
  <2>2. Cardinality(Marks(Tail(D), LastBeat)) \in Nat
        /\ b = Cardinality(Marks(Tail(D), LastBeat)) + 1
    BY <1>5, <2>1, MarksTail
  <2> HIDE DEF a, b, c
  <2> QED BY <1>1, <1>2, <1>3, <2>2
<1> QED BY <1>4, <1>5

(* A response goes out; if it is the grant of a write, data is owed.       *)
Received(t, u, f) ==
  /\ u.kind = t.kind /\ u.rsp # <<>>
  /\ Grants(f) /\ t.kind.op = "WRITE" => u.owed = t.kind.beats

LEMMA SendRspView ==
  ASSUME NEW W \in Seq(Entry), NEW P \in SUBSET Entry,
         NEW R \in Seq(RspFlit), NEW D \in Seq(DatFlit), NEW n \in Nat,
         NEW T \in Seq(Txn), NEW x \in Int, Views(W, P, R, D, n, T, x),
         R # <<>>, NEW m \in Int,
         m = n - (IF rsp_flit_closes_activity(Head(R)) THEN 1 ELSE 0),
         NEW U \in Seq(Txn), Len(T) = Len(U),
         \A i \in DOMAIN W :
           LET t == T[W[i].num]
               u == U[W[i].num]
           IN IF W[i].num = Head(R).num THEN Received(t, u, Head(R))
              ELSE SameTxn(t, u)
  PROVE  Views(W, P, Tail(R), D, m, U, x)
<1> DEFINE f == Head(R)
           S == Tail(R)
           r == IF rsp_flit_closes_activity(f) THEN 1 ELSE 0
<1>1. /\ S \in Seq(RspFlit) /\ DOMAIN S = 1 .. Len(R) - 1
      /\ DOMAIN R = 1 .. Len(R) /\ Len(R) \in Nat \ {0}
      /\ \A i \in 1 .. Len(R) - 1 : S[i] = R[i + 1]
      /\ f = R[1] /\ f \in RspFlit
  OBVIOUS
<1>2. Activity(W, P, S, D, m, x)
  <2>1. IsFiniteSet(P) /\ Activity(W, P, R, D, n, x)
    BY DEF Views, Activity
  <2>2. f \in Closing <=> rsp_flit_closes_activity(f) BY <1>1 DEF Closing
  <2>3. /\ Cardinality(Marks(S, Closing)) \in Nat
        /\ Cardinality(Marks(R, Closing)) \in Nat
        /\ Cardinality(Marks(R, Closing))
             = Cardinality(Marks(S, Closing))
                 + (IF f \in Closing THEN 1 ELSE 0)
    BY MarksTail
  <2>4. /\ -r \in Int /\ r \in Int
        /\ Cardinality(Marks(S, Closing))
             = Cardinality(Marks(R, Closing)) + (-r)
    BY <2>2, <2>3
  <2>5. Cardinality(Marks(D, LastBeat)) \in Nat BY MarksFinite
  <2>6. Cardinality(OpenSet(W, P)) \in Nat BY <2>1, OpenFinite
  <2>7. n \in Int /\ m = n + (-r) + (x - x) OBVIOUS
  <2> HIDE DEF r, S
  <2> QED BY <2>1, <2>3, <2>4, <2>5, <2>6, <2>7, ActivityRsp
<1>3. \A i \in DOMAIN S : S[i] = R[i + 1] /\ i + 1 \in DOMAIN R /\ i + 1 # 1
  BY <1>1
<1>4. 1 \in DOMAIN R BY <1>1
<1> HIDE DEF S
<1>5. Known(W, P, S, U) BY <1>3 DEF Views, Known
<1>6. ASSUME NEW i \in DOMAIN W PROVE Waits(W[i], U[W[i].num], S)
  <2> DEFINE e == W[i]
             t == T[e.num]
             u == U[e.num]
  <2>1. Waits(e, t, R) BY DEF Views, Writes
  <2>2. IF e.num = f.num THEN Received(t, u, f) ELSE SameTxn(t, u)
    OBVIOUS
  <2>3. e.beats \in Nat
    <3>1. e \in Entry OBVIOUS
    <3> QED BY <3>1 DEF Entry
  <2> SUFFICES Waits(e, u, S) OBVIOUS
  <2> HIDE DEF e, t, u, f
  <2>4. CASE e.num = f.num
    <3>1. t.rsp = <<>> BY <1>1, <1>4, <2>1, <2>4 DEF Waits, Granting
    <3>2. Ungranted(e, t, R) BY <2>1, <3>1 DEF Waits
    <3>3. Grants(f) BY <1>1, <1>4, <2>4, <3>2 DEF Ungranted
    <3>4. u.kind = t.kind /\ u.rsp # <<>> /\ u.owed = e.beats
      BY <2>1, <2>2, <2>4, <3>3 DEF Received, Waits
    <3>5. e.seen + u.owed = e.beats BY <2>3, <3>2, <3>4 DEF Ungranted
    <3>6. \A j \in DOMAIN S : S[j].num # e.num
      BY <1>1, <1>3, <1>4, <2>4, <3>2 DEF Ungranted
    <3>7. Granting(e, u, S) BY <3>5, <3>6 DEF Granting
    <3> QED BY <2>1, <3>4, <3>7, WaitsGranted
  <2>5. CASE e.num # f.num
    <3>1. SameTxn(t, u) BY <2>2, <2>5
    <3>2. ASSUME Ungranted(e, t, R) PROVE Ungranted(e, u, S)
      <4>1. ASSUME NEW j \in DOMAIN S, NEW k \in DOMAIN S,
                   S[j].num = e.num, S[k].num = e.num
            PROVE  j = k
        <5>1. j + 1 = k + 1 BY <1>3, <3>2, <4>1 DEF Ungranted
        <5>2. j \in Int /\ k \in Int BY <1>1 DEF S
        <5> QED BY <5>1, <5>2
      <4> QED BY <1>3, <3>1, <3>2, <4>1 DEF Ungranted, SameTxn
    <3>3. ASSUME Granting(e, t, R) PROVE Granting(e, u, S)
      BY <1>3, <3>1, <3>3 DEF Granting, SameTxn
    <3> QED BY <2>1, <3>1, <3>2, <3>3, WaitsSame
  <2> QED BY <2>4, <2>5
<1>7. Writes(W, P, S, U) BY <1>6 DEF Views, Writes
<1>8. Views(W, P, S, D, m, U, x) BY <1>2, <1>5, <1>7 DEF Views
<1> QED BY <1>8 DEF S

(* A beat goes out.                                                        *)
LEMMA SendDatView ==
  ASSUME NEW W \in Seq(Entry), NEW P \in SUBSET Entry,
         NEW R \in Seq(RspFlit), NEW D \in Seq(DatFlit), NEW n \in Nat,
         NEW T \in Seq(Txn), NEW x \in Int, Views(W, P, R, D, n, T, x),
         D # <<>>, NEW m \in Int,
         m = n - (IF Head(D).last THEN 1 ELSE 0)
  PROVE  Views(W, P, R, Tail(D), m, T, x)
<1> DEFINE f == Head(D)
           S == Tail(D)
           r == IF f.last THEN 1 ELSE 0
<1>1. IsFiniteSet(P) /\ Activity(W, P, R, D, n, x)
  BY DEF Views, Activity
<1>2. f \in LastBeat <=> f.last BY DEF LastBeat
<1>3. /\ Cardinality(Marks(S, LastBeat)) \in Nat
      /\ Cardinality(Marks(D, LastBeat)) \in Nat
      /\ Cardinality(Marks(D, LastBeat))
           = Cardinality(Marks(S, LastBeat))
               + (IF f \in LastBeat THEN 1 ELSE 0)
  BY MarksTail
<1>4. /\ -r \in Int /\ r \in Int
      /\ Cardinality(Marks(S, LastBeat))
           = Cardinality(Marks(D, LastBeat)) + (-r)
  BY <1>2, <1>3
<1>5. Cardinality(Marks(R, Closing)) \in Nat BY MarksFinite
<1>6. Cardinality(OpenSet(W, P)) \in Nat BY <1>1, OpenFinite
<1>7. n \in Int /\ m = n + (-r) + (x - x) OBVIOUS
<1> HIDE DEF r, S
<1>8. Activity(W, P, R, S, m, x)
  BY <1>1, <1>3, <1>4, <1>5, <1>6, <1>7, ActivityDat
<1>9. Views(W, P, R, S, m, T, x) BY <1>8 DEF Views
<1> QED BY <1>9 DEF S

-----------------------------------------------------------------------------
(* The driver's fields under an update.                                    *)

(* What the handlers of flits leave alone.                                 *)
Kept(d, g) ==
  /\ g.cfg = d.cfg /\ g.link_active = d.link_active
  /\ g.grant_pending = d.grant_pending /\ g.send_credits = d.send_credits
  /\ g.rsp_announce = d.rsp_announce /\ g.dat_announce = d.dat_announce

SameQueues(d, g) ==
  /\ g.wr_await_q = d.wr_await_q /\ g.req_port = d.req_port
  /\ g.rsp_send_q = d.rsp_send_q /\ g.dat_send_q = d.dat_send_q
  /\ g.rsp_announce = d.rsp_announce /\ g.dat_announce = d.dat_announce
  /\ g.tx_activity_count = d.tx_activity_count

LEMMA KeptTransitive ==
  ASSUME NEW d, NEW f, NEW g, Kept(d, f), Kept(f, g)
  PROVE  Kept(d, g)
BY DEF Kept

LEMMA UpdateRsp ==
  ASSUME NEW d \in Driver, NEW v \in Seq(RspFlit),
         NEW g, g = [d EXCEPT !.rsp_send_q = v]
  PROVE  /\ g \in Driver /\ Kept(d, g) /\ g.rsp_send_q = v
         /\ g.wr_await_q = d.wr_await_q /\ g.req_port = d.req_port
         /\ g.dat_send_q = d.dat_send_q
         /\ g.tx_activity_count = d.tx_activity_count
<1>1. g \in Driver BY Zenon DEF Driver
<1>2. /\ Kept(d, g) /\ g.rsp_send_q = v
      /\ g.wr_await_q = d.wr_await_q /\ g.req_port = d.req_port
      /\ g.dat_send_q = d.dat_send_q
      /\ g.tx_activity_count = d.tx_activity_count
  BY DEF Driver, Kept
<1> QED BY <1>1, <1>2

LEMMA UpdateDat ==
  ASSUME NEW d \in Driver, NEW v \in Seq(DatFlit),
         NEW g, g = [d EXCEPT !.dat_send_q = v]
  PROVE  /\ g \in Driver /\ Kept(d, g) /\ g.dat_send_q = v
         /\ g.wr_await_q = d.wr_await_q /\ g.req_port = d.req_port
         /\ g.rsp_send_q = d.rsp_send_q
         /\ g.tx_activity_count = d.tx_activity_count
<1>1. g \in Driver BY Zenon DEF Driver
<1>2. /\ Kept(d, g) /\ g.dat_send_q = v
      /\ g.wr_await_q = d.wr_await_q /\ g.req_port = d.req_port
      /\ g.rsp_send_q = d.rsp_send_q
      /\ g.tx_activity_count = d.tx_activity_count
  BY DEF Driver, Kept
<1> QED BY <1>1, <1>2

LEMMA UpdatePort ==
  ASSUME NEW d \in Driver, NEW v \in SUBSET Entry,
         NEW g, g = [d EXCEPT !.req_port = v]
  PROVE  /\ g \in Driver /\ Kept(d, g) /\ g.req_port = v
         /\ g.wr_await_q = d.wr_await_q /\ g.dat_send_q = d.dat_send_q
         /\ g.rsp_send_q = d.rsp_send_q
         /\ g.tx_activity_count = d.tx_activity_count
<1>1. g \in Driver BY Zenon DEF Driver
<1>2. /\ Kept(d, g) /\ g.req_port = v
      /\ g.wr_await_q = d.wr_await_q /\ g.dat_send_q = d.dat_send_q
      /\ g.rsp_send_q = d.rsp_send_q
      /\ g.tx_activity_count = d.tx_activity_count
  BY DEF Driver, Kept
<1> QED BY <1>1, <1>2

LEMMA UpdateAwait ==
  ASSUME NEW d \in Driver, NEW v \in Seq(Entry),
         NEW g, g = [d EXCEPT !.wr_await_q = v]
  PROVE  /\ g \in Driver /\ Kept(d, g) /\ g.wr_await_q = v
         /\ g.req_port = d.req_port /\ g.dat_send_q = d.dat_send_q
         /\ g.rsp_send_q = d.rsp_send_q
         /\ g.tx_activity_count = d.tx_activity_count
<1>1. g \in Driver BY Zenon DEF Driver
<1>2. /\ Kept(d, g) /\ g.wr_await_q = v
      /\ g.req_port = d.req_port /\ g.dat_send_q = d.dat_send_q
      /\ g.rsp_send_q = d.rsp_send_q
      /\ g.tx_activity_count = d.tx_activity_count
  BY DEF Driver, Kept
<1> QED BY <1>1, <1>2

LEMMA UpdateCount ==
  ASSUME NEW d \in Driver, NEW v \in Nat,
         NEW g, g = [d EXCEPT !.tx_activity_count = v]
  PROVE  /\ g \in Driver /\ Kept(d, g) /\ g.tx_activity_count = v
         /\ g.wr_await_q = d.wr_await_q /\ g.req_port = d.req_port
         /\ g.dat_send_q = d.dat_send_q /\ g.rsp_send_q = d.rsp_send_q
<1>1. g \in Driver BY Zenon DEF Driver
<1>2. /\ Kept(d, g) /\ g.tx_activity_count = v
      /\ g.wr_await_q = d.wr_await_q /\ g.req_port = d.req_port
      /\ g.dat_send_q = d.dat_send_q /\ g.rsp_send_q = d.rsp_send_q
  BY DEF Driver, Kept
<1> QED BY <1>1, <1>2

(* The queues on their way out, typed.                                     *)
LEMMA OutTypes ==
  ASSUME NEW d \in Driver
  PROVE  /\ ROut(d) \in Seq(RspFlit) /\ DOut(d) \in Seq(DatFlit)
         /\ d.wr_await_q \in Seq(Entry) /\ d.req_port \in SUBSET Entry
         /\ d.rsp_send_q \in Seq(RspFlit) /\ d.dat_send_q \in Seq(DatFlit)
         /\ d.rsp_announce \in Seq(RspFlit)
         /\ d.dat_announce \in Seq(DatFlit)
         /\ d.tx_activity_count \in Nat
<1>1. /\ d.wr_await_q \in Seq(Entry) /\ d.req_port \in SUBSET Entry
      /\ d.rsp_send_q \in Seq(RspFlit) /\ d.dat_send_q \in Seq(DatFlit)
      /\ d.rsp_announce \in Seq(RspFlit) /\ d.dat_announce \in Seq(DatFlit)
      /\ d.tx_activity_count \in Nat
  BY DEF Driver
<1> QED BY <1>1, ConcatProperties DEF ROut, DOut

LEMMA ConcatAppend ==
  ASSUME NEW X, NEW s \in Seq(X), NEW t \in Seq(X), NEW f \in X
  PROVE  s \o Append(t, f) = Append(s \o t, f)
<1>1. Append(t, f) \in Seq(X) /\ <<f>> \in Seq(X) OBVIOUS
<1>2. Append(t, f) = t \o <<f>> OBVIOUS
<1>3. Append(s \o t, f) = (s \o t) \o <<f>>
  <2>1. s \o t \in Seq(X) BY ConcatProperties
  <2> QED BY <2>1
<1>4. (s \o t) \o <<f>> = s \o (t \o <<f>>) BY <1>1, ConcatAssociative
<1> QED BY <1>2, <1>3, <1>4

LEMMA RspConcat ==
  \A a, q \in Seq(RspFlit) : \A f \in RspFlit :
    a \o Append(q, f) = Append(a \o q, f)
BY ConcatAppend

LEMMA DatConcat ==
  \A a, q, b \in Seq(DatFlit) : a \o (q \o b) = (a \o q) \o b
BY ConcatAssociative

-----------------------------------------------------------------------------
(* What the handlers do to the book.                                       *)

(* No entry is of request n.                                               *)
Free(d, n) ==
  /\ \A i \in DOMAIN d.wr_await_q : d.wr_await_q[i].num # n
  /\ \A g \in d.req_port : g.num # n

Final(op) == IF op \in {"COMP", "COMP_DBID_RESP", "COMP_PERSIST"} THEN 1 ELSE 0

Brings(e) == IF Open(e) THEN 1 ELSE 0

RspOf(e, op, timed) ==
  [op |-> op, num |-> e.num, timed |-> timed,
   err |-> IF op = "DBID_RESP" THEN "OKAY" ELSE e.err]

LEMMA PushBook ==
  ASSUME NEW d, NEW T, NEW x \in Int, Book(d, T, x),
         NEW e \in Entry, NEW op \in RspOp, NEW timed \in BOOLEAN,
         e.num <= Len(T), Free(d, e.num),
         NEW g, g = push_rsp(d, e, op, timed)
  PROVE  /\ Book(g, T, x - Final(op)) /\ Kept(d, g)
         /\ g.wr_await_q = d.wr_await_q /\ g.req_port = d.req_port
         /\ g.dat_send_q = d.dat_send_q
         /\ ROut(g) = Append(ROut(d), RspOf(e, op, timed))
<1> DEFINE f == RspOf(e, op, timed)
           v == Append(d.rsp_send_q, f)
<1>1. d \in Driver /\ T \in Seq(Txn) BY DEF Book
<1>2. f \in RspFlit
  <2>1. e.num \in Nat \ {0} /\ e.err \in Err BY DEF Entry
  <2>2. "OKAY" \in Err BY DEF Err
  <2> QED BY <2>1, <2>2 DEF RspFlit, RspOf
<1>3. v \in Seq(RspFlit) BY <1>1, <1>2, OutTypes
<1>4. g = [d EXCEPT !.rsp_send_q = v]
  BY <1>1 DEF push_rsp, RspOf, Driver
<1>5. f.num = e.num /\ f.op = op BY DEF RspOf
<1>6. rsp_flit_closes_activity(f)
        <=> op \in {"COMP", "COMP_DBID_RESP", "COMP_PERSIST"}
  BY <1>5 DEF rsp_flit_closes_activity
<1> HIDE DEF f, v
<1>7. /\ g \in Driver /\ Kept(d, g) /\ g.rsp_send_q = v
      /\ g.wr_await_q = d.wr_await_q /\ g.req_port = d.req_port
      /\ g.dat_send_q = d.dat_send_q
      /\ g.tx_activity_count = d.tx_activity_count
  BY <1>1, <1>3, <1>4, UpdateRsp
<1>8. ROut(g) = Append(ROut(d), f)
  <2>1. ROut(g) = d.rsp_announce \o Append(d.rsp_send_q, f)
    BY <1>7 DEF ROut, Kept, v
  <2>2. d.rsp_announce \in Seq(RspFlit) /\ d.rsp_send_q \in Seq(RspFlit)
    BY <1>1, OutTypes
  <2>3. d.rsp_announce \o Append(d.rsp_send_q, f)
          = Append(d.rsp_announce \o d.rsp_send_q, f)
    BY <1>2, <2>2, RspConcat, Zenon
  <2> QED BY <2>1, <2>3 DEF ROut
<1>9. DOut(g) = DOut(d) BY <1>7 DEF DOut, Kept
<1>10. Views(d.wr_await_q, d.req_port, Append(ROut(d), f), DOut(d),
             d.tx_activity_count, T, x - Final(op))
  <2>1. Views(d.wr_await_q, d.req_port, ROut(d), DOut(d),
              d.tx_activity_count, T, x)
    BY DEF Book
  <2>2. Final(op) = IF rsp_flit_closes_activity(f) THEN 1 ELSE 0
    BY <1>6 DEF Final
  <2>3. \A i \in DOMAIN d.wr_await_q : d.wr_await_q[i].num # f.num
    BY <1>5 DEF Free
  <2>4. f.num <= Len(T) BY <1>5
  <2> QED BY <1>1, <1>2, <2>1, <2>2, <2>3, <2>4, OutTypes, PushView
<1>11. Book(g, T, x - Final(op))
  BY <1>1, <1>7, <1>8, <1>9, <1>10 DEF Book, Kept
<1> QED BY <1>7, <1>8, <1>11 DEF f

LEMMA BeatsBook ==
  ASSUME NEW d, NEW T, NEW x \in Int, Book(d, T, x), NEW e \in Entry,
         NEW g, g = [d EXCEPT !.dat_send_q = @ \o Beats(e)]
  PROVE  /\ Book(g, T, x - 1) /\ Kept(d, g)
         /\ g.wr_await_q = d.wr_await_q /\ g.req_port = d.req_port
<1> DEFINE v == d.dat_send_q \o Beats(e)
<1>1. d \in Driver /\ T \in Seq(Txn) BY DEF Book
<1>2. Beats(e) \in Seq(DatFlit)
  <2>1. <<>> \in Seq(DatFlit) OBVIOUS
  <2> QED BY <2>1, MarksBeats
<1>3. v \in Seq(DatFlit) BY <1>1, <1>2, OutTypes, ConcatProperties
<1>4. g = [d EXCEPT !.dat_send_q = v] OBVIOUS
<1> HIDE DEF v
<1>5. /\ g \in Driver /\ Kept(d, g) /\ g.dat_send_q = v
      /\ g.wr_await_q = d.wr_await_q /\ g.req_port = d.req_port
      /\ g.rsp_send_q = d.rsp_send_q
      /\ g.tx_activity_count = d.tx_activity_count
  BY ONLY <1>1, <1>3, <1>4, UpdateDat
<1>6. ROut(g) = ROut(d) BY <1>5 DEF ROut, Kept
<1>7. DOut(g) = DOut(d) \o Beats(e)
  <2>1. DOut(g) = d.dat_announce \o (d.dat_send_q \o Beats(e))
    BY <1>5 DEF DOut, Kept, v
  <2>2. d.dat_announce \in Seq(DatFlit) /\ d.dat_send_q \in Seq(DatFlit)
    BY <1>1, OutTypes
  <2>3. d.dat_announce \o (d.dat_send_q \o Beats(e))
          = (d.dat_announce \o d.dat_send_q) \o Beats(e)
    BY <1>2, <2>2, DatConcat, Zenon
  <2> QED BY <2>1, <2>3 DEF DOut
<1>8. Views(d.wr_await_q, d.req_port, ROut(d), DOut(d) \o Beats(e),
            d.tx_activity_count, T, x - 1)
  <2>1. Views(d.wr_await_q, d.req_port, ROut(d), DOut(d),
              d.tx_activity_count, T, x)
    BY DEF Book
  <2> QED BY <1>1, <2>1, OutTypes, BeatsView
<1>9. Book(g, T, x - 1) BY <1>1, <1>5, <1>6, <1>7, <1>8 DEF Book, Kept
<1> QED BY <1>5, <1>9

LEMMA IssueBook ==
  ASSUME NEW d, NEW T, NEW x \in Int, Book(d, T, x), NEW e \in Entry,
         e.num <= Len(T), Free(d, e.num),
         e.op = "WRITE" => e.seen = e.beats,
         NEW g, g = issue_request(d, e)
  PROVE  Book(g, T, x - Brings(e)) /\ Kept(d, g)
<1> DEFINE v == d.req_port \cup {e}
<1>1. d \in Driver /\ T \in Seq(Txn) BY DEF Book
<1>2. v \in SUBSET Entry BY <1>1, OutTypes
<1>3. g = [d EXCEPT !.req_port = v] BY DEF issue_request
<1> HIDE DEF v
<1>4. /\ g \in Driver /\ Kept(d, g) /\ g.req_port = v
      /\ g.wr_await_q = d.wr_await_q /\ g.dat_send_q = d.dat_send_q
      /\ g.rsp_send_q = d.rsp_send_q
      /\ g.tx_activity_count = d.tx_activity_count
  <2>1. d \in Driver BY <1>1
  <2> QED BY ONLY <2>1, <1>2, <1>3, UpdatePort
<1>5. ROut(g) = ROut(d) /\ DOut(g) = DOut(d) BY <1>4 DEF ROut, DOut, Kept
<1>6. Views(d.wr_await_q, d.req_port \cup {e}, ROut(d), DOut(d),
            d.tx_activity_count, T, x - Brings(e))
  <2>1. Views(d.wr_await_q, d.req_port, ROut(d), DOut(d),
              d.tx_activity_count, T, x)
    BY DEF Book
  <2>2. /\ \A i \in DOMAIN d.wr_await_q : d.wr_await_q[i].num # e.num
        /\ \A f \in d.req_port : f.num # e.num
    BY DEF Free
  <2>3. Views(d.wr_await_q, d.req_port \cup {e}, ROut(d), DOut(d),
              d.tx_activity_count, T, x - (IF Open(e) THEN 1 ELSE 0))
    BY <1>1, <2>1, <2>2, OutTypes, IssueView
  <2> QED BY <2>3 DEF Brings
<1>7. Book(g, T, x - Brings(e)) BY <1>1, <1>4, <1>5, <1>6 DEF Book, Kept, v
<1> QED BY <1>4, <1>7

LEMMA AwaitBook ==
  ASSUME NEW d, NEW T, NEW x \in Int, Book(d, T, x), NEW e \in Entry,
         e.num <= Len(T), Free(d, e.num), Waits(e, T[e.num], ROut(d)),
         NEW g, g = [d EXCEPT !.wr_await_q = Append(@, e)]
  PROVE  Book(g, T, x - Brings(e)) /\ Kept(d, g)
<1> DEFINE v == Append(d.wr_await_q, e)
<1>1. d \in Driver /\ T \in Seq(Txn) BY DEF Book
<1>2. v \in Seq(Entry) BY <1>1, OutTypes
<1>3. g = [d EXCEPT !.wr_await_q = v] OBVIOUS
<1> HIDE DEF v
<1>4. /\ g \in Driver /\ Kept(d, g) /\ g.wr_await_q = v
      /\ g.req_port = d.req_port /\ g.dat_send_q = d.dat_send_q
      /\ g.rsp_send_q = d.rsp_send_q
      /\ g.tx_activity_count = d.tx_activity_count
  <2>1. d \in Driver BY <1>1
  <2> QED BY ONLY <2>1, <1>2, <1>3, UpdateAwait
<1>5. ROut(g) = ROut(d) /\ DOut(g) = DOut(d) BY <1>4 DEF ROut, DOut, Kept
<1>6. Views(Append(d.wr_await_q, e), d.req_port, ROut(d), DOut(d),
            d.tx_activity_count, T, x - Brings(e))
  <2>1. Views(d.wr_await_q, d.req_port, ROut(d), DOut(d),
              d.tx_activity_count, T, x)
    BY DEF Book
  <2>2. /\ \A i \in DOMAIN d.wr_await_q : d.wr_await_q[i].num # e.num
        /\ \A f \in d.req_port : f.num # e.num
    BY DEF Free
  <2>3. Views(Append(d.wr_await_q, e), d.req_port, ROut(d), DOut(d),
              d.tx_activity_count, T, x - (IF Open(e) THEN 1 ELSE 0))
    BY <1>1, <2>1, <2>2, OutTypes, AwaitView
  <2> QED BY <2>3 DEF Brings
<1>7. Book(g, T, x - Brings(e)) BY <1>1, <1>4, <1>5, <1>6 DEF Book, Kept, v
<1> QED BY <1>4, <1>7

LEMMA DropBook ==
  ASSUME NEW d, NEW T, NEW x \in Int, Book(d, T, x),
         NEW k \in DOMAIN d.wr_await_q,
         NEW g, g = [d EXCEPT !.wr_await_q = Drop(@, k)]
  PROVE  /\ Book(g, T, x + Brings(d.wr_await_q[k])) /\ Kept(d, g)
         /\ Free(g, d.wr_await_q[k].num)
<1> DEFINE v == Drop(d.wr_await_q, k)
           e == d.wr_await_q[k]
<1>1. d \in Driver /\ T \in Seq(Txn) BY DEF Book
<1>2. v \in Seq(Entry) BY <1>1, OutTypes, DropIs
<1>3. g = [d EXCEPT !.wr_await_q = v] OBVIOUS
<1> HIDE DEF v, e
<1>4. /\ g \in Driver /\ Kept(d, g) /\ g.wr_await_q = v
      /\ g.req_port = d.req_port /\ g.dat_send_q = d.dat_send_q
      /\ g.rsp_send_q = d.rsp_send_q
      /\ g.tx_activity_count = d.tx_activity_count
  <2>1. d \in Driver BY <1>1
  <2> QED BY ONLY <2>1, <1>2, <1>3, UpdateAwait
<1>5. ROut(g) = ROut(d) /\ DOut(g) = DOut(d) BY <1>4 DEF ROut, DOut, Kept
<1>6. Views(d.wr_await_q, d.req_port, ROut(d), DOut(d),
            d.tx_activity_count, T, x)
  BY DEF Book
<1>7. /\ Views(Drop(d.wr_await_q, k), d.req_port, ROut(d), DOut(d),
               d.tx_activity_count, T,
               x + (IF Open(d.wr_await_q[k]) THEN 1 ELSE 0))
      /\ \A i \in DOMAIN Drop(d.wr_await_q, k) :
           Drop(d.wr_await_q, k)[i].num # d.wr_await_q[k].num
  BY <1>1, <1>6, OutTypes, DropView
<1>8. Book(g, T, x + Brings(e))
  BY <1>1, <1>4, <1>5, <1>7 DEF Book, Kept, Brings, v, e
<1>9. Free(g, e.num)
  <2>1. \A f \in d.req_port : f.num # e.num
    BY <1>6 DEF Views, Distinct, e
  <2> QED BY <1>4, <1>7, <2>1 DEF Free, v, e
<1> QED BY <1>4, <1>8, <1>9 DEF e

LEMMA FinishBook ==
  ASSUME NEW d, NEW T, NEW x \in Int, Book(d, T, x), NEW e \in d.req_port,
         NEW g, g = [d EXCEPT !.req_port = @ \ {e}]
  PROVE  Book(g, T, x + Brings(e)) /\ Kept(d, g) /\ Free(g, e.num)
<1> DEFINE v == d.req_port \ {e}
<1>1. d \in Driver /\ T \in Seq(Txn) BY DEF Book
<1>2. v \in SUBSET Entry BY <1>1, OutTypes
<1>3. g = [d EXCEPT !.req_port = v] OBVIOUS
<1> HIDE DEF v
<1>4. /\ g \in Driver /\ Kept(d, g) /\ g.req_port = v
      /\ g.wr_await_q = d.wr_await_q /\ g.dat_send_q = d.dat_send_q
      /\ g.rsp_send_q = d.rsp_send_q
      /\ g.tx_activity_count = d.tx_activity_count
  <2>1. d \in Driver BY <1>1
  <2> QED BY ONLY <2>1, <1>2, <1>3, UpdatePort
<1>5. ROut(g) = ROut(d) /\ DOut(g) = DOut(d) BY <1>4 DEF ROut, DOut, Kept
<1>6. Views(d.wr_await_q, d.req_port, ROut(d), DOut(d),
            d.tx_activity_count, T, x)
  BY DEF Book
<1>7. Views(d.wr_await_q, d.req_port \ {e}, ROut(d), DOut(d),
            d.tx_activity_count, T, x + (IF Open(e) THEN 1 ELSE 0))
  BY <1>1, <1>6, OutTypes, FinishView
<1>8. Book(g, T, x + Brings(e))
  BY <1>1, <1>4, <1>5, <1>7 DEF Book, Kept, Brings, v
<1>9. Free(g, e.num) BY <1>4, <1>6 DEF Free, Views, Distinct, v
<1> QED BY <1>4, <1>8, <1>9

(* A request is counted before its replies are.                            *)
LEMMA CountBook ==
  ASSUME NEW d, NEW T, Book(d, T, 0),
         NEW g, g = [d EXCEPT !.tx_activity_count = @ + 1]
  PROVE  /\ Book(g, T, 1) /\ Kept(d, g)
         /\ g.wr_await_q = d.wr_await_q /\ g.req_port = d.req_port
         /\ ROut(g) = ROut(d)
<1> DEFINE v == d.tx_activity_count + 1
<1>1. d \in Driver /\ T \in Seq(Txn) BY DEF Book
<1>2. v \in Nat BY <1>1, OutTypes
<1>3. g = [d EXCEPT !.tx_activity_count = v] OBVIOUS
<1> HIDE DEF v
<1>4. /\ g \in Driver /\ Kept(d, g) /\ g.tx_activity_count = v
      /\ g.wr_await_q = d.wr_await_q /\ g.req_port = d.req_port
      /\ g.dat_send_q = d.dat_send_q /\ g.rsp_send_q = d.rsp_send_q
  <2>1. d \in Driver BY <1>1
  <2> QED BY ONLY <2>1, <1>2, <1>3, UpdateCount
<1>5. ROut(g) = ROut(d) /\ DOut(g) = DOut(d) BY <1>4 DEF ROut, DOut, Kept
<1>6. Views(d.wr_await_q, d.req_port, ROut(d), DOut(d), v, T, 1)
  <2> DEFINE W == d.wr_await_q
             P == d.req_port
             R == ROut(d)
             D == DOut(d)
             n == d.tx_activity_count
  <2>1. Views(W, P, R, D, n, T, 0) BY DEF Book
  <2>2. /\ Cardinality(Marks(R, Closing)) \in Nat
        /\ Cardinality(Marks(D, LastBeat)) \in Nat
    BY <1>1, OutTypes, MarksFinite
  <2>3. Cardinality(OpenSet(W, P)) \in Nat /\ IsFiniteSet(P)
    BY <1>1, <2>1, OutTypes, OpenFinite DEF Views, Activity
  <2>4. v = n + 1 BY DEF v
  <2>5. n = Cardinality(Marks(R, Closing)) + Cardinality(Marks(D, LastBeat))
              + Cardinality(OpenSet(W, P)) + 0
    BY <2>1 DEF Views, Activity
  <2> HIDE DEF W, P, R, D, n
  <2>6. v = Cardinality(Marks(R, Closing)) + Cardinality(Marks(D, LastBeat))
              + Cardinality(OpenSet(W, P)) + 1
    BY <2>2, <2>3, <2>4, <2>5
  <2>7. Views(W, P, R, D, v, T, 1) BY <2>1, <2>3, <2>6 DEF Views, Activity
  <2> QED BY <2>7 DEF W, P, R, D
<1>7. Book(g, T, 1) BY <1>1, <1>4, <1>5, <1>6 DEF Book, Kept
<1> QED BY <1>4, <1>5, <1>7

LEMMA TxnBook ==
  ASSUME NEW d, NEW T, NEW x \in Int, Book(d, T, x),
         NEW U \in Seq(Txn), Len(T) <= Len(U),
         \A i \in DOMAIN d.wr_await_q :
           SameTxn(T[d.wr_await_q[i].num], U[d.wr_await_q[i].num])
  PROVE  Book(d, U, x)
<1>1. d \in Driver /\ T \in Seq(Txn) BY DEF Book
<1>2. Views(d.wr_await_q, d.req_port, ROut(d), DOut(d),
            d.tx_activity_count, T, x)
  BY DEF Book
<1>3. Views(d.wr_await_q, d.req_port, ROut(d), DOut(d),
            d.tx_activity_count, U, x)
  BY <1>1, <1>2, OutTypes, TxnView
<1> QED BY <1>1, <1>3 DEF Book

(* What the book does not look at may change.                              *)
LEMMA SameBook ==
  ASSUME NEW d, NEW T, NEW x, Book(d, T, x), NEW g \in Driver,
         SameQueues(d, g)
  PROVE  Book(g, T, x)
BY DEF Book, SameQueues, ROut, DOut

LEMMA WriteCompletion ==
  ASSUME NEW d, NEW T, NEW x \in Int, Book(d, T, x), NEW e \in Entry,
         e.num <= Len(T), Free(d, e.num), ~IsRead(e),
         NEW g, g = enqueue_write_completion(d, e)
  PROVE  Book(g, T, x - Brings(e)) /\ Kept(d, g)
<1>1. CASE e.split
  <2> DEFINE timed == ~e.pre
             op == "COMP"
  <2>1. g = push_rsp(d, e, op, timed)
    BY <1>1 DEF enqueue_write_completion
  <2>2. op \in RspOp /\ timed \in BOOLEAN BY DEF RspOp
  <2>3. Final(op) = 1 /\ Brings(e) = 1
    BY <1>1 DEF Final, Brings, Open
  <2> HIDE DEF timed, op
  <2>4. Book(g, T, x - Final(op)) /\ Kept(d, g)
    BY ONLY <2>1, <2>2, PushBook, Book(d, T, x), x \in Int, e \in Entry,
            e.num <= Len(T), Free(d, e.num)
  <2> QED BY <2>3, <2>4
<1>2. CASE ~e.split
  <2>1. g = d BY <1>2 DEF enqueue_write_completion
  <2>2. Brings(e) = 0
    BY <1>2 DEF Brings, Open
  <2>3. x - 0 = x OBVIOUS
  <2> QED BY <2>1, <2>2, <2>3 DEF Kept
<1> QED BY <1>1, <1>2

LEMMA ReadCompletion ==
  ASSUME NEW d, NEW T, NEW x \in Int, Book(d, T, x), NEW e \in Entry,
         e.num <= Len(T), Free(d, e.num),
         NEW g, g = enqueue_read_completion(d, e)
  PROVE  Book(g, T, x - 1) /\ Kept(d, g)
<1> DEFINE d1 == IF e.op = "READ_SEP"
                 THEN push_rsp(d, e, "RESP_SEP_DATA", ~e.pre) ELSE d
<1>1. g = [d1 EXCEPT !.dat_send_q = @ \o Beats(e)]
  BY DEF enqueue_read_completion
<1>2. Book(d1, T, x) /\ Kept(d, d1)
  <2>1. CASE e.op = "READ_SEP"
    <3>1. "RESP_SEP_DATA" \in RspOp /\ (~e.pre) \in BOOLEAN BY DEF RspOp
    <3>2. Final("RESP_SEP_DATA") = 0 BY DEF Final
    <3>3. d1 = push_rsp(d, e, "RESP_SEP_DATA", ~e.pre) BY <2>1
    <3> HIDE DEF d1
    <3>4. Book(d1, T, x - Final("RESP_SEP_DATA")) /\ Kept(d, d1)
      BY <3>1, <3>3, PushBook
    <3>5. x - 0 = x OBVIOUS
    <3> QED BY <3>2, <3>4, <3>5
  <2>2. CASE e.op # "READ_SEP" BY <2>2 DEF Kept
  <2> QED BY <2>1, <2>2
<1> HIDE DEF d1
<1>3. Book(g, T, x - 1) /\ Kept(d1, g)
  BY ONLY <1>1, <1>2, BeatsBook, e \in Entry, x \in Int
<1> QED BY <1>2, <1>3, KeptTransitive

(* The backend's answer.                                                   *)
LEMMA CompleteBook ==
  ASSUME NEW d, NEW T, Book(d, T, 0), NEW e \in d.req_port,
         NEW err \in {"OKAY", "DERR"},
         NEW g, g = complete([d EXCEPT !.req_port = @ \ {e}], e, err)
  PROVE  Book(g, T, 0) /\ Kept(d, g)
<1> DEFINE d1 == [d EXCEPT !.req_port = @ \ {e}]
           e1 == [e EXCEPT !.err = err]
<1>1. d \in Driver /\ T \in Seq(Txn) BY DEF Book
<1>2. e \in Entry BY <1>1, OutTypes
<1>3. e1 \in Entry
  <2>1. err \in Err BY DEF Err
  <2> QED BY <1>2, <2>1, Zenon DEF Entry
<1>4. /\ e1.op = e.op /\ e1.num = e.num /\ e1.split = e.split
  BY <1>2 DEF Entry
<1>5. Open(e1) <=> Open(e) BY <1>4 DEF Open, IsRead
<1>6. Brings(e1) = Brings(e) /\ Brings(e) \in Int BY <1>5 DEF Brings
<1>7. 0 \in Int OBVIOUS
<1>8. e.num <= Len(T) BY DEF Book, Views, Known
<1> HIDE DEF d1, e1
<1>9. Book(d1, T, 0 + Brings(e)) /\ Kept(d, d1) /\ Free(d1, e.num)
  BY <1>7, FinishBook DEF d1
<1>10. Book(d1, T, Brings(e)) /\ Free(d1, e1.num) /\ e1.num <= Len(T)
  <2>1. 0 + Brings(e) = Brings(e) BY <1>6
  <2> QED BY <1>4, <1>8, <1>9, <2>1
<1>11. CASE IsRead(e)
  <2>1. g = enqueue_read_completion(d1, e1)
    BY <1>11 DEF complete, d1, e1
  <2>2. Book(g, T, Brings(e) - 1) /\ Kept(d1, g)
    BY <1>3, <1>6, <1>10, <2>1, ReadCompletion
  <2>3. Brings(e) - 1 = 0 BY <1>11 DEF Brings, Open
  <2> QED BY <1>9, <2>2, <2>3, KeptTransitive
<1>12. CASE ~IsRead(e)
  <2>1. g = enqueue_write_completion(d1, e1)
    BY <1>12 DEF complete, d1, e1
  <2>2. ~IsRead(e1) BY <1>4, <1>12 DEF IsRead
  <2>3. Book(g, T, Brings(e) - Brings(e1)) /\ Kept(d1, g)
    BY <1>3, <1>6, <1>10, <2>1, <2>2, WriteCompletion
  <2>4. Brings(e) - Brings(e1) = 0 BY <1>6
  <2> QED BY <1>9, <2>3, <2>4, KeptTransitive
<1> QED BY <1>11, <1>12

(* Data that is not the last of its write.                                 *)
LEMMA BeatBook ==
  ASSUME NEW d, NEW T, NEW x \in Int, Book(d, T, x),
         NEW U \in Seq(Txn), Len(T) = Len(U),
         NEW k \in DOMAIN d.wr_await_q, NEW e \in Entry,
         e.op = d.wr_await_q[k].op, e.num = d.wr_await_q[k].num,
         e.beats = d.wr_await_q[k].beats, e.split = d.wr_await_q[k].split,
         e.seen = d.wr_await_q[k].seen + 1, e.seen < e.beats,
         T[e.num].owed > 0,
         U[e.num].kind = T[e.num].kind, U[e.num].rsp = T[e.num].rsp,
         U[e.num].owed = T[e.num].owed - 1,
         \A i \in DOMAIN d.wr_await_q :
           i # k => SameTxn(T[d.wr_await_q[i].num], U[d.wr_await_q[i].num]),
         NEW g, g = [d EXCEPT !.wr_await_q[k] = e]
  PROVE  Book(g, U, x) /\ Kept(d, g)
<1> DEFINE v == [d.wr_await_q EXCEPT ![k] = e]
<1>1. d \in Driver /\ T \in Seq(Txn) BY DEF Book
<1>2. v \in Seq(Entry) BY <1>1, OutTypes
<1>3. g = [d EXCEPT !.wr_await_q = v] OBVIOUS
<1>4. Views(v, d.req_port, ROut(d), DOut(d), d.tx_activity_count, U, x)
  <2>1. Views(d.wr_await_q, d.req_port, ROut(d), DOut(d),
              d.tx_activity_count, T, x)
    BY DEF Book
  <2> QED BY <1>1, <2>1, OutTypes, BeatView
<1> HIDE DEF v
<1>5. /\ g \in Driver /\ Kept(d, g) /\ g.wr_await_q = v
      /\ g.req_port = d.req_port /\ g.dat_send_q = d.dat_send_q
      /\ g.rsp_send_q = d.rsp_send_q
      /\ g.tx_activity_count = d.tx_activity_count
  <2>1. d \in Driver BY <1>1
  <2> QED BY ONLY <2>1, <1>2, <1>3, UpdateAwait
<1>6. ROut(g) = ROut(d) /\ DOut(g) = DOut(d) BY <1>5 DEF ROut, DOut, Kept
<1>7. Book(g, U, x) BY <1>1, <1>4, <1>5, <1>6 DEF Book, Kept
<1> QED BY <1>5, <1>7

(* At most one write waits for the data of request n.                      *)
LEMMA OneWaits ==
  ASSUME NEW d, NEW T, Book(d, T, 0), NEW n, Awaiting(d, n) # {}
  PROVE  \E k \in DOMAIN d.wr_await_q :
           /\ d.wr_await_q[k].num = n
           /\ Awaiting(d, n) = {k}
           /\ handle_write_data(d, n) = WithBeat(d, k)
<1>1. PICK k \in DOMAIN d.wr_await_q : d.wr_await_q[k].num = n
  BY DEF Awaiting
<1>2. Awaiting(d, n) = {k}
  BY <1>1 DEF Awaiting, Book, Views, Distinct
<1>3. k \in Nat
  <2>1. d \in Driver BY DEF Book
  <2>2. d.wr_await_q \in Seq(Entry) BY <2>1, OutTypes
  <2> QED BY <2>2
<1>4. k = CHOOSE i \in Awaiting(d, n) : \A j \in Awaiting(d, n) : i <= j
  BY <1>2, <1>3
<1>5. handle_write_data(d, n) = WithBeat(d, k)
  BY <1>2, <1>4 DEF handle_write_data
<1> QED BY <1>1, <1>2, <1>5

(* A data beat is taken: what the peer owed is one less.                   *)
LEMMA DataBook ==
  ASSUME NEW d, NEW T, Book(d, T, 0), NEW n \in DOMAIN T, T[n].owed > 0,
         NEW U \in Seq(Txn), Len(T) = Len(U),
         U[n].kind = T[n].kind, U[n].rsp = T[n].rsp,
         U[n].owed = T[n].owed - 1,
         \A i \in DOMAIN T : i # n => SameTxn(T[i], U[i]),
         NEW g, g = handle_write_data(d, n)
  PROVE  Book(g, U, 0) /\ Kept(d, g)
<1>1. /\ d \in Driver /\ T \in Seq(Txn)
      /\ Views(d.wr_await_q, d.req_port, ROut(d), DOut(d),
               d.tx_activity_count, T, 0)
  BY DEF Book
<1>2. \A i \in DOMAIN d.wr_await_q :
        /\ d.wr_await_q[i] \in Entry /\ d.wr_await_q[i].num \in DOMAIN T
        /\ d.wr_await_q[i].num # n =>
             SameTxn(T[d.wr_await_q[i].num], U[d.wr_await_q[i].num])
  <2> TAKE i \in DOMAIN d.wr_await_q
  <2>1. d.wr_await_q[i] \in Entry BY <1>1, OutTypes
  <2>2. d.wr_await_q[i].num \in Nat \ {0} BY <2>1 DEF Entry
  <2>3. d.wr_await_q[i].num <= Len(T) BY <1>1 DEF Views, Known
  <2>4. d.wr_await_q[i].num \in DOMAIN T BY <1>1, <2>2, <2>3
  <2> QED BY <2>1, <2>4
<1>3. CASE Awaiting(d, n) = {}
  <2>1. g = d BY <1>3 DEF handle_write_data
  <2>2. \A i \in DOMAIN d.wr_await_q :
          SameTxn(T[d.wr_await_q[i].num], U[d.wr_await_q[i].num])
    BY <1>2, <1>3 DEF Awaiting
  <2>3. Len(T) <= Len(U) /\ 0 \in Int BY <1>1
  <2>4. Book(d, U, 0) BY <2>2, <2>3, TxnBook
  <2> QED BY <2>1, <2>4 DEF Kept
<1>4. CASE Awaiting(d, n) # {}
  <2> PICK k \in DOMAIN d.wr_await_q :
        /\ d.wr_await_q[k].num = n /\ Awaiting(d, n) = {k}
        /\ handle_write_data(d, n) = WithBeat(d, k)
    BY <1>4, OneWaits
  <2> DEFINE w == d.wr_await_q[k]
             e == [w EXCEPT !.seen = @ + 1]
             d1 == [d EXCEPT !.wr_await_q = Drop(@, k)]
  <2>1. w \in Entry /\ w.num = n BY <1>2
  <2>2. g = IF e.seen < e.beats THEN [d EXCEPT !.wr_await_q[k] = e]
            ELSE IF e.err = "NDERR"
            THEN enqueue_write_completion(d1, make_pre_resolved(e))
            ELSE issue_request(d1, e)
    BY DEF WithBeat
  <2>3. Waits(w, T[n], ROut(d)) BY <1>1 DEF Views, Writes
  <2>4. /\ \A i \in DOMAIN d.wr_await_q : i # k =>
             SameTxn(T[d.wr_await_q[i].num], U[d.wr_await_q[i].num])
    BY <1>2 DEF Awaiting
  <2> HIDE DEF w
  <2>5. w.seen \in Nat /\ w.beats \in Nat \ {0} /\ w.num \in Nat \ {0}
    BY <2>1 DEF Entry
  <2>6. /\ e.op = w.op /\ e.num = w.num /\ e.beats = w.beats
        /\ e.split = w.split /\ e.err = w.err /\ e.seen = w.seen + 1
    BY <2>1 DEF Entry
  <2>7. e \in Entry
    <3>1. w.seen + 1 \in Nat BY <2>5
    <3> QED BY <2>1, <3>1, Zenon DEF Entry
  <2> HIDE DEF e
  <2>8. CASE e.seen < e.beats
    <3>1. g = [d EXCEPT !.wr_await_q[k] = e] BY <2>2, <2>8
    <3>2. /\ e.op = d.wr_await_q[k].op /\ e.num = d.wr_await_q[k].num
          /\ e.beats = d.wr_await_q[k].beats
          /\ e.split = d.wr_await_q[k].split
          /\ e.seen = d.wr_await_q[k].seen + 1
      BY <2>6 DEF w
    <3>3. e.num = n BY <2>1, <2>6
    <3>4. /\ T[e.num].owed > 0
          /\ U[e.num].kind = T[e.num].kind /\ U[e.num].rsp = T[e.num].rsp
          /\ U[e.num].owed = T[e.num].owed - 1
      BY ONLY <3>3, T[n].owed > 0, U[n].kind = T[n].kind,
              U[n].rsp = T[n].rsp, U[n].owed = T[n].owed - 1
    <3> QED
      BY ONLY <2>4, <2>7, <2>8, <3>1, <3>2, <3>4, BeatBook, Book(d, T, 0),
              k \in DOMAIN d.wr_await_q, U \in Seq(Txn), Len(T) = Len(U),
              0 \in Int
  <2>9. CASE ~(e.seen < e.beats)
    <3> HIDE DEF d1
    <3>1. e.seen = e.beats /\ e.op = "WRITE"
      BY <2>3, <2>5, <2>6, <2>9 DEF Waits
    <3>2. Book(d1, T, 0 + Brings(w)) /\ Kept(d, d1) /\ Free(d1, n)
      BY <2>1, DropBook, 0 \in Int DEF w, d1
    <3>3. Brings(w) = Brings(e) /\ Brings(w) \in Int
      BY <2>6 DEF Brings, Open, IsRead
    <3>4. \A i \in DOMAIN d1.wr_await_q :
            SameTxn(T[d1.wr_await_q[i].num], U[d1.wr_await_q[i].num])
      <4>1. d1 \in Driver BY <3>2 DEF Book
      <4>2. ASSUME NEW i \in DOMAIN d1.wr_await_q
            PROVE  SameTxn(T[d1.wr_await_q[i].num], U[d1.wr_await_q[i].num])
        <5>1. d1.wr_await_q[i] \in Entry BY <4>1, OutTypes
        <5>2. d1.wr_await_q[i].num \in Nat \ {0} BY <5>1 DEF Entry
        <5>3. d1.wr_await_q[i].num <= Len(T)
          BY <3>2 DEF Book, Views, Known
        <5>4. d1.wr_await_q[i].num \in DOMAIN T BY <1>1, <5>2, <5>3
        <5>5. d1.wr_await_q[i].num # n BY <3>2 DEF Free
        <5> QED BY <5>4, <5>5
      <4> QED BY <4>2
    <3>5. Book(d1, U, Brings(e))
      <4>1. 0 + Brings(w) = Brings(e) BY <3>3
      <4>2. Len(T) <= Len(U) BY <1>1
      <4>3. Book(d1, T, Brings(e)) BY <3>2, <4>1
      <4> QED BY <3>3, <3>4, <4>2, <4>3, TxnBook
    <3>6. e.num <= Len(U) /\ e.num = n BY <1>1, <2>1, <2>6
    <3>7. CASE e.err = "NDERR"
      <4> DEFINE p == make_pre_resolved(e)
      <4>1. g = enqueue_write_completion(d1, p)
        BY <2>2, <2>9, <3>7 DEF d1
      <4>2. p \in Entry
        <5>1. "NDERR" \in Err BY DEF Err
        <5> QED BY <2>7, <5>1, Zenon DEF Entry, make_pre_resolved
      <4>3. p.op = e.op /\ p.num = e.num /\ p.split = e.split
        BY <2>7 DEF Entry, make_pre_resolved
      <4> HIDE DEF p
      <4>4. ~IsRead(p) BY <3>1, <4>3 DEF IsRead
      <4>5. Brings(p) = Brings(e) BY <4>3 DEF Brings, Open, IsRead
      <4>6. Brings(e) \in Int /\ Brings(e) - Brings(e) = 0 BY <3>3
      <4>7. Free(d1, p.num) /\ p.num <= Len(U) BY <3>2, <3>6, <4>3
      <4>8. Book(g, U, Brings(e) - Brings(p)) /\ Kept(d1, g)
        BY ONLY <3>5, <4>1, <4>2, <4>4, <4>6, <4>7, WriteCompletion
      <4> QED BY <3>2, <4>5, <4>6, <4>8, KeptTransitive
    <3>8. CASE e.err # "NDERR"
      <4>1. g = issue_request(d1, e) BY <2>2, <2>9, <3>8 DEF d1
      <4>2. Brings(e) \in Int /\ Brings(e) - Brings(e) = 0 BY <3>3
      <4>3. Free(d1, e.num) BY <3>2, <3>6
      <4>4. Book(g, U, Brings(e) - Brings(e)) /\ Kept(d1, g)
        BY ONLY <2>7, <3>1, <3>5, <3>6, <4>1, <4>2, <4>3, IssueBook
      <4> QED BY <3>2, <4>2, <4>4, KeptTransitive
    <3> QED BY <3>7, <3>8
  <2> QED BY <2>8, <2>9
<1> QED BY <1>3, <1>4

(* A response that finishes nothing.                                       *)
LEMMA PushOpen ==
  ASSUME NEW d, NEW T, NEW x \in Int, Book(d, T, x),
         NEW e \in Entry, NEW op \in RspOp, Final(op) = 0,
         e.num <= Len(T), Free(d, e.num),
         NEW g, g = push_rsp(d, e, op, FALSE)
  PROVE  Book(g, T, x) /\ Kept(d, g) /\ Free(g, e.num)
<1> DEFINE timed == FALSE
<1>0. timed \in BOOLEAN /\ g = push_rsp(d, e, op, timed) OBVIOUS
<1> HIDE DEF timed
<1>1. /\ Book(g, T, x - Final(op)) /\ Kept(d, g)
      /\ g.wr_await_q = d.wr_await_q /\ g.req_port = d.req_port
  BY ONLY <1>0, PushBook, Book(d, T, x), x \in Int, e \in Entry,
          op \in RspOp, e.num <= Len(T), Free(d, e.num)
<1>2. x - Final(op) = x OBVIOUS
<1> QED BY <1>1, <1>2 DEF Free

LEMMA PushFinal ==
  ASSUME NEW d, NEW T, NEW x \in Int, Book(d, T, x),
         NEW e \in Entry, NEW op \in RspOp,
         e.num <= Len(T), Free(d, e.num),
         NEW g, g = push_rsp(d, e, op, FALSE)
  PROVE  Book(g, T, x - Final(op)) /\ Kept(d, g)
<1> DEFINE timed == FALSE
<1>1. timed \in BOOLEAN /\ g = push_rsp(d, e, op, timed) OBVIOUS
<1> HIDE DEF timed
<1> QED
  BY ONLY <1>1, PushBook, Book(d, T, x), x \in Int, e \in Entry,
          op \in RspOp, e.num <= Len(T), Free(d, e.num)

(* The entry of a request that is answered at once.                        *)
LEMMA PreResolved ==
  ASSUME NEW e \in Entry, NEW p, p = make_pre_resolved(e)
  PROVE  /\ p \in Entry /\ p.op = e.op /\ p.num = e.num /\ p.split = e.split
         /\ Brings(p) = Brings(e) /\ Brings(e) \in Int
<1>1. p \in Entry
  <2>1. "NDERR" \in Err BY DEF Err
  <2> QED BY <2>1, Zenon DEF Entry, make_pre_resolved
<1>2. p.op = e.op /\ p.num = e.num /\ p.split = e.split
  BY DEF Entry, make_pre_resolved
<1>3. Brings(p) = Brings(e) /\ Brings(e) \in Int
  BY <1>2 DEF Brings, Open, IsRead
<1> QED BY <1>1, <1>2, <1>3

LEMMA ReadReqBook ==
  ASSUME NEW d, NEW T, Book(d, T, 1), NEW e \in Entry,
         e.num <= Len(T), Free(d, e.num), e.op \in {"READ", "READ_SEP"},
         NEW k, NEW g, g = handle_read_req(d, k, e)
  PROVE  Book(g, T, 0) /\ Kept(d, g)
<1> DEFINE d1 == IF k.order THEN push_rsp(d, e, "READ_RECEIPT", FALSE) ELSE d
           p == make_pre_resolved(e)
<1>1. g = IF k.err THEN enqueue_read_completion(d1, p)
          ELSE issue_request(d1, e)
  BY DEF handle_read_req
<1>2. Book(d1, T, 1) /\ Kept(d, d1) /\ Free(d1, e.num)
  <2>1. CASE k.order
    <3>1. d1 = push_rsp(d, e, "READ_RECEIPT", FALSE) BY <2>1
    <3>2. "READ_RECEIPT" \in RspOp /\ Final("READ_RECEIPT") = 0 /\ 1 \in Int
      BY DEF RspOp, Final
    <3> HIDE DEF d1
    <3> QED BY <3>1, <3>2, PushOpen
  <2>2. CASE ~k.order BY <2>2 DEF Kept
  <2> QED BY <2>1, <2>2
<1>3. /\ p \in Entry /\ p.num = e.num
  BY PreResolved
<1> HIDE DEF d1, p
<1>4. 1 \in Int /\ 1 - 1 = 0 OBVIOUS
<1>5. CASE k.err
  <2>1. g = enqueue_read_completion(d1, p) BY <1>1, <1>5
  <2>2. Book(g, T, 1 - 1) /\ Kept(d1, g)
    BY <1>2, <1>3, <1>4, <2>1, ReadCompletion
  <2> QED BY <1>2, <1>4, <2>2, KeptTransitive
<1>6. CASE ~k.err
  <2>1. g = issue_request(d1, e) BY <1>1, <1>6
  <2>2. Brings(e) = 1 BY DEF Brings, Open, IsRead
  <2>3. ~(e.op = "WRITE") OBVIOUS
  <2>4. Book(g, T, 1 - Brings(e)) /\ Kept(d1, g)
    BY <1>2, <1>4, <2>1, <2>3, IssueBook
  <2> QED BY <1>2, <1>4, <2>2, <2>4, KeptTransitive
<1> QED BY <1>5, <1>6

LEMMA WriteReqBook ==
  ASSUME NEW d, NEW T, Book(d, T, 1), NEW e \in Entry,
         e.num <= Len(T), Free(d, e.num), e.op = "WRITE", e.seen = 0,
         NEW k, T[e.num].kind.op = "WRITE", T[e.num].kind.beats = e.beats,
         T[e.num].rsp = <<>>, T[e.num].owed = 0,
         \A i \in DOMAIN ROut(d) : ROut(d)[i].num # e.num,
         NEW g, g = handle_write_req(d, k, e)
  PROVE  Book(g, T, 0) /\ Kept(d, g)
<1> DEFINE e1 == [e EXCEPT !.err = IF k.err THEN "NDERR" ELSE @]
           op == IF e1.split THEN "DBID_RESP" ELSE "COMP_DBID_RESP"
           d1 == push_rsp(d, e1, op, FALSE)
           f == RspOf(e1, op, FALSE)
<1>1. g = [d1 EXCEPT !.wr_await_q = Append(@, e1)]
  BY DEF handle_write_req, queue_write_grant
<1>2. e1 \in Entry
  <2>1. (IF k.err THEN "NDERR" ELSE e.err) \in Err BY DEF Entry, Err
  <2> QED BY <2>1, Zenon DEF Entry
<1>3. /\ e1.op = e.op /\ e1.num = e.num /\ e1.beats = e.beats
      /\ e1.seen = e.seen
  BY DEF Entry
<1> HIDE DEF e1
<1>4. op \in RspOp /\ Final(op) + Brings(e1) = 1 /\ Final(op) \in Int
  BY <1>3 DEF RspOp, Final, Brings, Open, IsRead
<1>5. Free(d, e1.num) /\ e1.num <= Len(T) BY <1>3
<1>6. f.num = e.num /\ Grants(f) BY <1>3 DEF RspOf, Grants
<1> HIDE DEF op, d1, f
<1>7. /\ Book(d1, T, 1 - Final(op)) /\ Kept(d, d1)
      /\ d1.wr_await_q = d.wr_await_q /\ d1.req_port = d.req_port
      /\ ROut(d1) = Append(ROut(d), f)
  <2> DEFINE timed == FALSE
  <2>1. timed \in BOOLEAN /\ 1 \in Int OBVIOUS
  <2>2. d1 = push_rsp(d, e1, op, timed) /\ f = RspOf(e1, op, timed)
    BY DEF d1, f
  <2> HIDE DEF timed
  <2> QED
    BY ONLY <1>2, <1>4, <1>5, <2>1, <2>2, PushBook, Book(d, T, 1)
<1>8. Waits(e1, T[e1.num], ROut(d1))
  <2>1. ROut(d) \in Seq(RspFlit)
    <3>1. d \in Driver BY DEF Book
    <3> QED BY <3>1, OutTypes
  <2>2. ROut(d1)[Len(ROut(d)) + 1] = f
    BY <1>7, <2>1
  <2>3. \A i \in DOMAIN ROut(d1) :
          i = Len(ROut(d)) + 1 \/ (i \in DOMAIN ROut(d)
                                   /\ ROut(d1)[i] = ROut(d)[i])
    BY <1>7, <2>1
  <2>4. \A i \in DOMAIN ROut(d1) :
          ROut(d1)[i].num = e.num => i = Len(ROut(d)) + 1
    BY <2>3
  <2>5. e.beats \in Nat \ {0} BY DEF Entry
  <2>6. Ungranted(e1, T[e.num], ROut(d1))
    BY <1>3, <1>6, <2>2, <2>4 DEF Ungranted
  <2>7. e1.seen < e1.beats BY <1>3, <2>5
  <2> QED BY <1>3, <2>6, <2>7 DEF Waits
<1>9. Free(d1, e1.num) BY <1>5, <1>7 DEF Free
<1>10. 1 - Final(op) \in Int /\ (1 - Final(op)) - Brings(e1) = 0
  BY <1>4 DEF Brings
<1>11. Book(g, T, (1 - Final(op)) - Brings(e1)) /\ Kept(d1, g)
  BY ONLY <1>1, <1>2, <1>5, <1>7, <1>8, <1>9, <1>10, AwaitBook
<1> QED BY <1>7, <1>10, <1>11, KeptTransitive

LEMMA ZeroReqBook ==
  ASSUME NEW d, NEW T, Book(d, T, 1), NEW e \in Entry,
         e.num <= Len(T), Free(d, e.num), e.op = "WRITE_ZERO", e.split,
         NEW k, NEW g, g = handle_write_zero_req(d, k, e)
  PROVE  Book(g, T, 0) /\ Kept(d, g)
<1> DEFINE d1 == push_rsp(d, e, "DBID_RESP", FALSE)
           p == make_pre_resolved(e)
<1>1. g = IF k.err THEN enqueue_write_completion(d1, p)
          ELSE issue_request(d1, e)
  BY DEF handle_write_zero_req, queue_write_grant
<1>2. Book(d1, T, 1) /\ Kept(d, d1) /\ Free(d1, e.num)
  <2>1. "DBID_RESP" \in RspOp /\ Final("DBID_RESP") = 0 /\ 1 \in Int
    BY DEF RspOp, Final
  <2> QED BY <2>1, PushOpen
<1>3. /\ p \in Entry /\ p.op = e.op /\ p.num = e.num
      /\ Brings(p) = Brings(e)
  BY PreResolved
<1>4. Brings(e) = 1 BY DEF Brings, Open
<1>5. 1 \in Int /\ 1 - 1 = 0 OBVIOUS
<1> HIDE DEF d1, p
<1>6. CASE k.err
  <2>1. g = enqueue_write_completion(d1, p) BY <1>1, <1>6
  <2>2. ~IsRead(p) BY <1>3 DEF IsRead
  <2>3. Book(g, T, 1 - Brings(p)) /\ Kept(d1, g)
    BY <1>2, <1>3, <1>5, <2>1, <2>2, WriteCompletion
  <2> QED BY <1>2, <1>3, <1>4, <1>5, <2>3, KeptTransitive
<1>7. CASE ~k.err
  <2>1. g = issue_request(d1, e) BY <1>1, <1>7
  <2>2. ~(e.op = "WRITE") OBVIOUS
  <2>3. Book(g, T, 1 - Brings(e)) /\ Kept(d1, g)
    BY <1>2, <1>5, <2>1, <2>2, IssueBook
  <2> QED BY <1>2, <1>4, <1>5, <2>3, KeptTransitive
<1> QED BY <1>6, <1>7

LEMMA PersistBook ==
  ASSUME NEW d, NEW T, Book(d, T, 1), NEW e \in Entry,
         e.num <= Len(T), Free(d, e.num),
         NEW g, g = handle_persist_req(d, e)
  PROVE  Book(g, T, 0) /\ Kept(d, g)
<1> DEFINE d1 == push_rsp(d, e, "PERSIST", FALSE)
<1>0. 1 \in Int /\ 1 - 1 = 0 OBVIOUS
<1>1. {"PERSIST", "COMP_PERSIST", "COMP"} \subseteq RspOp BY DEF RspOp
<1>2. Final("PERSIST") = 0 /\ Final("COMP_PERSIST") = 1 /\ Final("COMP") = 1
  BY DEF Final
<1>3. CASE e.op = "PERSIST_SEP"
  <2>1. Book(d1, T, 1) /\ Kept(d, d1) /\ Free(d1, e.num)
    BY <1>0, <1>1, <1>2, PushOpen
  <2>2. g = push_rsp(d1, e, "COMP_PERSIST", FALSE)
    BY <1>3 DEF handle_persist_req
  <2> HIDE DEF d1
  <2>3. Book(g, T, 1 - Final("COMP_PERSIST")) /\ Kept(d1, g)
    BY <1>0, <1>1, <2>1, <2>2, PushFinal
  <2> QED BY <1>0, <1>2, <2>1, <2>3, KeptTransitive
<1>4. CASE e.op # "PERSIST_SEP"
  <2>1. g = push_rsp(d, e, "COMP", FALSE) BY <1>4 DEF handle_persist_req
  <2>2. Book(g, T, 1 - Final("COMP")) /\ Kept(d, g)
    BY <1>0, <1>1, <2>1, PushFinal
  <2> QED BY <1>0, <1>2, <2>2
<1> QED BY <1>3, <1>4

LEMMA UnsupportedBook ==
  ASSUME NEW d, NEW T, Book(d, T, 1), NEW e \in Entry,
         e.num <= Len(T), Free(d, e.num), e.split,
         e.op \notin {"READ", "READ_SEP"},
         NEW g, g = handle_unsupported_req(d, e)
  PROVE  Book(g, T, 0) /\ Kept(d, g)
<1> DEFINE p == make_pre_resolved(e)
<1>1. /\ p \in Entry /\ p.op = e.op /\ p.num = e.num
      /\ Brings(p) = Brings(e)
  BY PreResolved
<1>2. Brings(e) = 1 BY DEF Brings, Open
<1>3. 1 \in Int /\ 1 - 1 = 0 OBVIOUS
<1>4. g = IF e.op = "ATOMIC" THEN enqueue_read_completion(d, p)
          ELSE enqueue_write_completion(d, p)
  BY DEF handle_unsupported_req
<1> HIDE DEF p
<1>5. CASE e.op = "ATOMIC"
  <2>1. g = enqueue_read_completion(d, p) BY <1>4, <1>5
  <2>2. Book(g, T, 1 - 1) /\ Kept(d, g)
    BY <1>1, <1>3, <2>1, ReadCompletion
  <2> QED BY <1>3, <2>2
<1>6. CASE e.op # "ATOMIC"
  <2>1. g = enqueue_write_completion(d, p) BY <1>4, <1>6
  <2>2. ~IsRead(p) BY <1>1, <1>6 DEF IsRead
  <2>3. Book(g, T, 1 - Brings(p)) /\ Kept(d, g)
    BY <1>1, <1>3, <2>1, <2>2, WriteCompletion
  <2> QED BY <1>1, <1>2, <1>3, <2>3
<1> QED BY <1>5, <1>6

(* A request arrives: the peer holds it as the last of its list.           *)
LEMMA ReqBook ==
  ASSUME NEW d, NEW T, Book(d, T, 0), NEW k \in Request, NEW n \in Nat \ {0},
         n <= Len(T), Free(d, n), drv.cfg.split_write_rsp \in BOOLEAN,
         T[n].kind = k, T[n].rsp = <<>>, T[n].owed = 0,
         \A i \in DOMAIN ROut(d) : ROut(d)[i].num # n,
         NEW g, g = handle_req(d, k, n)
  PROVE  Book(g, T, 0) /\ Kept(d, g)
<1> DEFINE e == new_entry_from_req(k, n)
           d1 == [d EXCEPT !.tx_activity_count = @ + 1]
<1>1. /\ e.op = k.op /\ e.num = n /\ e.beats = k.beats /\ e.seen = 0
      /\ e.split = (drv.cfg.split_write_rsp \/ k.op # "WRITE")
  BY DEF new_entry_from_req
<1>2. e \in Entry
  <2>1. k.op \in ReqOp /\ k.beats \in Nat \ {0} /\ "OKAY" \in Err
    BY DEF Request, ReqOp, Err
  <2>2. (drv.cfg.split_write_rsp \/ k.op # "WRITE") \in BOOLEAN OBVIOUS
  <2>3. 0 \in Nat /\ FALSE \in BOOLEAN OBVIOUS
  <2> DEFINE s == drv.cfg.split_write_rsp \/ k.op # "WRITE"
  <2>4. e = [op |-> k.op, num |-> n, beats |-> k.beats, seen |-> 0,
             pre |-> FALSE, split |-> s, err |-> "OKAY"]
    BY DEF new_entry_from_req
  <2>5. s \in BOOLEAN BY <2>2
  <2> HIDE DEF s
  <2> QED BY ONLY <2>1, <2>3, <2>4, <2>5, n \in Nat \ {0} DEF Entry
<1>3. /\ Book(d1, T, 1) /\ Kept(d, d1)
      /\ d1.wr_await_q = d.wr_await_q /\ d1.req_port = d.req_port
      /\ ROut(d1) = ROut(d)
  BY CountBook
<1>4. g = CASE k.op \in {"READ", "READ_SEP"} -> handle_read_req(d1, k, e)
            [] k.op = "WRITE" -> handle_write_req(d1, k, e)
            [] k.op = "WRITE_ZERO" -> handle_write_zero_req(d1, k, e)
            [] k.op \in {"PERSIST", "PERSIST_SEP"} ->
                 handle_persist_req(d1, e)
            [] OTHER -> handle_unsupported_req(d1, e)
  BY DEF handle_req
<1> HIDE DEF e, d1
<1>5. Free(d1, e.num) /\ e.num <= Len(T) BY <1>1, <1>3 DEF Free
<1>6. Book(g, T, 0) /\ Kept(d1, g)
  <2>1. CASE k.op \in {"READ", "READ_SEP"}
    <3>1. g = handle_read_req(d1, k, e) BY <1>4, <2>1
    <3> QED BY ONLY <1>1, <1>2, <1>3, <1>5, <2>1, <3>1, ReadReqBook
  <2>2. CASE k.op = "WRITE"
    <3>1. g = handle_write_req(d1, k, e) BY <1>4, <2>2
    <3>2. /\ T[e.num].kind.op = "WRITE" /\ T[e.num].kind.beats = e.beats
          /\ T[e.num].rsp = <<>> /\ T[e.num].owed = 0
          /\ \A i \in DOMAIN ROut(d1) : ROut(d1)[i].num # e.num
          /\ e.op = "WRITE"
      BY <1>1, <1>3, <2>2
    <3> QED BY ONLY <1>1, <1>2, <1>3, <1>5, <3>1, <3>2, WriteReqBook
  <2>3. CASE k.op = "WRITE_ZERO"
    <3>1. g = handle_write_zero_req(d1, k, e) BY <1>4, <2>3
    <3>2. e.op = "WRITE_ZERO" /\ e.split BY <1>1, <2>3
    <3> QED BY ONLY <1>2, <1>3, <1>5, <3>1, <3>2, ZeroReqBook
  <2>4. CASE k.op \in {"PERSIST", "PERSIST_SEP"}
    <3>1. g = handle_persist_req(d1, e) BY <1>4, <2>4
    <3> QED BY ONLY <1>2, <1>3, <1>5, <3>1, PersistBook
  <2>5. CASE k.op \notin {"READ", "READ_SEP", "WRITE", "WRITE_ZERO",
                          "PERSIST", "PERSIST_SEP"}
    <3>1. g = handle_unsupported_req(d1, e) BY <1>4, <2>5
    <3>2. e.split /\ e.op \notin {"READ", "READ_SEP"} BY <1>1, <2>5
    <3> QED BY ONLY <1>2, <1>3, <1>5, <3>1, <3>2, UnsupportedBook
  <2> QED BY <2>1, <2>2, <2>3, <2>4, <2>5
<1> QED BY <1>3, <1>6, KeptTransitive

-----------------------------------------------------------------------------
(* The link and the credits.                                               *)

(* What the steps of the link leave alone.                                 *)
Aside(d, g) ==
  /\ SameQueues(d, g) /\ g.cfg = d.cfg

LEMMA AsideTransitive ==
  ASSUME NEW d, NEW f, NEW g, Aside(d, f), Aside(f, g)
  PROVE  Aside(d, g)
BY DEF Aside, SameQueues

LEMMA AsideBook ==
  ASSUME NEW d, NEW T, NEW x, Book(d, T, x), NEW g \in Driver, Aside(d, g)
  PROVE  Book(g, T, x)
BY SameBook DEF Aside

LEMMA UpdateLink ==
  ASSUME NEW d \in Driver, NEW v \in BOOLEAN, NEW w \in BOOLEAN,
         NEW g, g = [d EXCEPT !.txlinkactivereq = v, !.txlinkactiveack = w]
  PROVE  /\ g \in Driver /\ Aside(d, g)
         /\ g.link_active = d.link_active
         /\ g.grant_pending = d.grant_pending
         /\ g.send_credits = d.send_credits
<1>1. g \in Driver BY Zenon DEF Driver
<1>2. /\ Aside(d, g) /\ g.link_active = d.link_active
      /\ g.grant_pending = d.grant_pending
      /\ g.send_credits = d.send_credits
  BY DEF Driver, Aside, SameQueues
<1> QED BY <1>1, <1>2

LEMMA UpdateActive ==
  ASSUME NEW d \in Driver, NEW w \in BOOLEAN,
         NEW g, g = [d EXCEPT !.link_active = w]
  PROVE  /\ g \in Driver /\ Aside(d, g) /\ g.link_active = w
         /\ g.grant_pending = d.grant_pending
         /\ g.send_credits = d.send_credits
<1>1. g \in Driver BY Zenon DEF Driver
<1>2. /\ Aside(d, g) /\ g.link_active = w
      /\ g.grant_pending = d.grant_pending
      /\ g.send_credits = d.send_credits
  BY DEF Driver, Aside, SameQueues
<1> QED BY <1>1, <1>2

LEMMA UpdateGrants ==
  ASSUME NEW d \in Driver, NEW v \in [Channel -> Nat],
         NEW g, g = [d EXCEPT !.grant_pending = v]
  PROVE  /\ g \in Driver /\ Aside(d, g)
         /\ g.link_active = d.link_active /\ g.grant_pending = v
         /\ g.send_credits = d.send_credits
<1>1. g \in Driver BY Zenon DEF Driver
<1>2. /\ Aside(d, g) /\ g.link_active = d.link_active
      /\ g.grant_pending = v /\ g.send_credits = d.send_credits
  BY DEF Driver, Aside, SameQueues
<1> QED BY <1>1, <1>2

LEMMA UpdateCredits ==
  ASSUME NEW d \in Driver, NEW v \in [{"rsp", "dat"} -> Nat],
         NEW g, g = [d EXCEPT !.send_credits = v]
  PROVE  /\ g \in Driver /\ Aside(d, g)
         /\ g.link_active = d.link_active
         /\ g.grant_pending = d.grant_pending /\ g.send_credits = v
<1>1. g \in Driver BY Zenon DEF Driver
<1>2. /\ Aside(d, g) /\ g.link_active = d.link_active
      /\ g.grant_pending = d.grant_pending /\ g.send_credits = v
  BY DEF Driver, Aside, SameQueues
<1> QED BY <1>1, <1>2

LEMMA DriverTypes ==
  ASSUME NEW d \in Driver
  PROVE  /\ d.cfg \in Cfg /\ d.link_active \in BOOLEAN
         /\ d.txlinkactivereq \in BOOLEAN /\ d.txlinkactiveack \in BOOLEAN
         /\ d.grant_pending \in [Channel -> Nat]
         /\ d.send_credits \in [{"rsp", "dat"} -> Nat]
BY DEF Driver

LEMMA CfgTypes ==
  ASSUME NEW c \in Cfg
  PROVE  /\ c.initial_credits \in Nat \ {0} /\ c.peer_credits \in Nat \ {0}
         /\ c.split_write_rsp \in BOOLEAN /\ c.kind \subseteq Request
BY ChiAssumption

(* Credits of a channel go up by one.                                      *)
LEMMA RegrantIs ==
  ASSUME NEW d \in Driver, NEW c \in Channel, NEW g, g = Regrant(d, c)
  PROVE  /\ g \in Driver /\ Aside(d, g)
         /\ g.link_active = d.link_active
         /\ g.send_credits = d.send_credits
         /\ \A b \in Channel :
              g.grant_pending[b]
                = d.grant_pending[b] + (IF b = c THEN 1 ELSE 0)
<1> DEFINE v == [d.grant_pending EXCEPT ![c] = @ + 1]
<1>1. d.grant_pending \in [Channel -> Nat] BY DriverTypes
<1>2. v \in [Channel -> Nat] BY <1>1
<1>3. \A b \in Channel :
        v[b] = d.grant_pending[b] + (IF b = c THEN 1 ELSE 0)
  BY <1>1
<1>4. g = [d EXCEPT !.grant_pending = v] BY DEF Regrant
<1> HIDE DEF v
<1>5. /\ g \in Driver /\ Aside(d, g) /\ g.link_active = d.link_active
      /\ g.grant_pending = v /\ g.send_credits = d.send_credits
  BY ONLY <1>2, <1>4, UpdateGrants, d \in Driver
<1> QED BY <1>3, <1>5

(* The link at an edge: its state, the first grants, the credits that came.*)
LEMMA LinkIs ==
  ASSUME NEW d \in Driver, d.cfg = drv.cfg, NEW in, in.link \in BOOLEAN,
         NEW g, g = link(d, in)
  PROVE  /\ g \in Driver /\ Aside(d, g)
         /\ g.link_active = (d.link_active \/ in.link)
         /\ \A c \in Channel :
              g.grant_pending[c]
                = d.grant_pending[c]
                    + (IF ~d.link_active /\ in.link
                       THEN d.cfg.initial_credits ELSE 0)
         /\ \A c \in {"rsp", "dat"} :
              g.send_credits[c]
                = d.send_credits[c] + (IF c \in in.lcrdv THEN 1 ELSE 0)
<1> DEFINE d1 == drive_link_sideband(d, in)
           d2 == schedule_initial_credit_grants(d1, in)
<1>1. /\ d1 \in Driver /\ Aside(d, d1) /\ d1.link_active = d.link_active
      /\ d1.grant_pending = d.grant_pending
      /\ d1.send_credits = d.send_credits
  <2>1. CASE in.hold
    <3>1. d1 = d BY <2>1 DEF drive_link_sideband
    <3> QED BY <3>1 DEF Aside, SameQueues
  <2>2. CASE ~in.hold
    <3> DEFINE up == d.txlinkactivereq \/ d.txlinkactiveack
               want == \/ in.link
                       \/ up /\ ~link_drained(d)
                       \/ d.txlinkactivereq /\ ~d.txlinkactiveack
    <3>1. d1 = [d EXCEPT !.txlinkactivereq = want,
                         !.txlinkactiveack = d.txlinkactivereq]
      BY <2>2 DEF drive_link_sideband
    <3>2. want \in BOOLEAN OBVIOUS
    <3>3. d.txlinkactivereq \in BOOLEAN BY DriverTypes
    <3> HIDE DEF want, d1
    <3> QED BY ONLY <3>1, <3>2, <3>3, UpdateLink, d \in Driver
  <2> QED BY <2>1, <2>2
<1> HIDE DEF d1
<1>2. /\ d2 \in Driver /\ Aside(d1, d2)
      /\ d2.link_active = (d1.link_active \/ in.link)
      /\ d2.send_credits = d1.send_credits
      /\ \A c \in Channel :
           d2.grant_pending[c]
             = d1.grant_pending[c]
                 + (IF ~d1.link_active /\ in.link
                    THEN d.cfg.initial_credits ELSE 0)
  <2>0. d1.grant_pending \in [Channel -> Nat] /\ d1.link_active \in BOOLEAN
    BY <1>1, DriverTypes
  <2>1. CASE d1.link_active \/ ~in.link
    <3>1. d2 = d1 BY <2>1 DEF schedule_initial_credit_grants
    <3>2. \A c \in Channel : d1.grant_pending[c] + 0 = d1.grant_pending[c]
      BY <2>0
    <3>3. d1.link_active = (d1.link_active \/ in.link) BY <2>0, <2>1
    <3> HIDE DEF d2
    <3> QED BY <1>1, <2>1, <3>1, <3>2, <3>3 DEF Aside, SameQueues
  <2>2. CASE ~(d1.link_active \/ ~in.link)
    <3> DEFINE v == [c \in Channel |->
                       d1.grant_pending[c] + drv.cfg.initial_credits]
               w == TRUE
               d0 == [d1 EXCEPT !.link_active = w]
    <3>1. d2 = [d0 EXCEPT !.grant_pending = v]
      BY <2>2 DEF schedule_initial_credit_grants
    <3>2. drv.cfg.initial_credits \in Nat BY DriverTypes, CfgTypes
    <3>3. v \in [Channel -> Nat] BY <2>0, <3>2
    <3>4. \A c \in Channel :
            v[c] = d1.grant_pending[c] + d.cfg.initial_credits
      OBVIOUS
    <3>5. w \in BOOLEAN /\ d0 = [d1 EXCEPT !.link_active = w] OBVIOUS
    <3>6. w = TRUE OBVIOUS
    <3> HIDE DEF v, d0, d2, w
    <3>7. d0 \in Driver /\ Aside(d1, d0) /\ d0.link_active = w
          /\ d0.send_credits = d1.send_credits
      BY <1>1, <3>5, UpdateActive
    <3>8. /\ d2 \in Driver /\ Aside(d0, d2)
          /\ d2.link_active = d0.link_active /\ d2.grant_pending = v
          /\ d2.send_credits = d0.send_credits
      BY ONLY <3>1, <3>3, <3>7, UpdateGrants
    <3>9. Aside(d1, d2) BY <3>7, <3>8, AsideTransitive
    <3> QED BY <2>2, <3>4, <3>6, <3>7, <3>8, <3>9
  <2> QED BY <2>1, <2>2
<1>3. g = receive_credits(d2, in) BY DEF link, d1
<1> HIDE DEF d2
<1> DEFINE v == [c \in {"rsp", "dat"} |->
                   d2.send_credits[c] + IF c \in in.lcrdv THEN 1 ELSE 0]
<1>4. g = [d2 EXCEPT !.send_credits = v] BY <1>3 DEF receive_credits
<1>5. v \in [{"rsp", "dat"} -> Nat] BY <1>2, DriverTypes
<1>6. \A c \in {"rsp", "dat"} :
        v[c] = d.send_credits[c] + (IF c \in in.lcrdv THEN 1 ELSE 0)
  BY <1>1, <1>2
<1> HIDE DEF v
<1>7. /\ g \in Driver /\ Aside(d2, g) /\ g.link_active = d2.link_active
      /\ g.grant_pending = d2.grant_pending /\ g.send_credits = v
  BY ONLY <1>2, <1>4, <1>5, UpdateCredits
<1>8. Aside(d, g) BY <1>1, <1>2, <1>7, AsideTransitive
<1> QED BY <1>1, <1>2, <1>6, <1>7, <1>8

-----------------------------------------------------------------------------
(* What arrives.                                                           *)

(* What a peer that keeps the protocol does at an edge.                    *)
Sane(in) ==
  /\ in.link \in BOOLEAN /\ in.ack \in BOOLEAN
  /\ in.num = Len(peer.txn) + 1
  /\ in.req \in drv.cfg.kind \cup {None, Return}
  /\ in.dat \in {None, Return, Data}
  /\ in.dat = Data =>
       in.datnum \in DOMAIN peer.txn /\ peer.txn[in.datnum].owed > 0
  /\ \A c \in Spent(in) : peer.credits[c] > 0
  /\ in.lcrdv \subseteq Room

LEMMA InputSane ==
  ASSUME peer \in Peer, drv \in Driver,
         NEW in \in Input(SUBSET Room, Spendable("req", Requests))
  PROVE  Sane(in)
<1>1. /\ in.link \in LinkRequest /\ in.lcrdv \in SUBSET Room
      /\ in.req \in Spendable("req", Requests)
      /\ in.num \in {Len(peer.txn) + 1}
      /\ in.dat \in Spendable("dat", IF Owes = {} THEN {} ELSE {Data})
      /\ in.datnum \in (IF Owes = {} THEN {0} ELSE Owes)
      /\ in.ack \in (IF peer.credits["rsp"] > 0 THEN BOOLEAN ELSE {FALSE})
  BY Zenon DEF Input
<1>2. peer.credits \in [Channel -> Nat] BY DEF Peer
<1>3. None # Return /\ None # Data /\ Return # Data
  <2>1. None.op = "none" /\ Return.op = "return" /\ Data.op = "data"
    BY DEF None, Return, Data
  <2> QED BY <2>1
<1>4. in.link \in BOOLEAN BY <1>1 DEF LinkRequest
<1>5. in.ack \in BOOLEAN /\ (in.ack => peer.credits["rsp"] > 0) BY <1>1
<1>6. /\ in.req \in drv.cfg.kind \cup {None, Return}
      /\ in.req # None => peer.credits["req"] # 0
  BY <1>1 DEF Spendable, Flit, Requests
<1>7. /\ in.dat \in {None, Return, Data}
      /\ in.dat # None => peer.credits["dat"] # 0
      /\ in.dat = Data => Owes # {}
  BY <1>1, <1>3 DEF Spendable, Flit
<1>8. in.dat = Data =>
        in.datnum \in DOMAIN peer.txn /\ peer.txn[in.datnum].owed > 0
  BY <1>1, <1>7 DEF Owes
<1>9. ASSUME NEW c \in Spent(in) PROVE peer.credits[c] > 0
  <2>1. c \in Channel /\ peer.credits[c] \in Nat BY <1>2 DEF Spent
  <2>2. CASE c = "req" BY <1>6, <1>9, <2>1, <2>2 DEF Spent
  <2>3. CASE c = "dat" BY <1>7, <1>9, <2>1, <2>3 DEF Spent
  <2>4. CASE c = "rsp" BY <1>5, <1>9, <2>4 DEF Spent
  <2> QED BY <2>1, <2>2, <2>3, <2>4 DEF Channel
<1> QED BY <1>1, <1>4, <1>5, <1>6, <1>7, <1>8, <1>9 DEF Sane

(* What the peer keeps once it has sent a request, and data.               *)
Asked(in) ==
  IF in.req \in drv.cfg.kind THEN Append(peer.txn, NewTxn(in.req))
  ELSE peer.txn

Paid(in) ==
  [i \in DOMAIN Asked(in) |->
     IF in.dat = Data /\ in.datnum = i
     THEN [Asked(in)[i] EXCEPT !.owed = @ - 1] ELSE Asked(in)[i]]

(* A request is none of the other flits.                                   *)
LEMMA RequestIs ==
  ASSUME NEW k \in Request
  PROVE  k \notin {None, Return}
<1>1. k.op \notin {"none", "return"} BY DEF Request
<1>2. None.op = "none" /\ Return.op = "return" BY DEF None, Return
<1> QED BY <1>1, <1>2

LEMMA NewTxnIs ==
  ASSUME NEW k \in Request
  PROVE  NewTxn(k) \in Txn
<1>1. <<>> \in Seq(RspOp) OBVIOUS
<1> QED BY <1>1 DEF NewTxn, Txn

LEMMA AskedIs ==
  ASSUME peer \in Peer, drv \in Driver, NEW in, Sane(in)
  PROVE  /\ Asked(in) \in Seq(Txn)
         /\ Len(Asked(in)) >= Len(peer.txn)
         /\ \A i \in DOMAIN peer.txn : Asked(in)[i] = peer.txn[i]
         /\ in.req \in drv.cfg.kind =>
              /\ in.req \in Request /\ Len(Asked(in)) = Len(peer.txn) + 1
              /\ Asked(in)[Len(peer.txn) + 1] = NewTxn(in.req)
<1> DEFINE T == peer.txn
<1>1. T \in Seq(Txn) BY DEF Peer
<1>2. drv.cfg.kind \subseteq Request BY DriverTypes, CfgTypes
<1> HIDE DEF T
<1>3. CASE in.req \in drv.cfg.kind
  <2>1. in.req \in Request BY <1>2, <1>3
  <2>2. NewTxn(in.req) \in Txn BY <2>1, NewTxnIs
  <2>3. Asked(in) = Append(T, NewTxn(in.req)) BY <1>3 DEF Asked, T
  <2>4. ASSUME NEW t \in Txn
        PROVE  /\ Append(T, t) \in Seq(Txn) /\ Len(T) \in Nat
               /\ Len(Append(T, t)) = Len(T) + 1
               /\ \A i \in DOMAIN T : Append(T, t)[i] = T[i]
               /\ Append(T, t)[Len(T) + 1] = t
    BY <1>1
  <2>5. Len(T) \in Nat /\ Len(T) + 1 >= Len(T) BY <1>1
  <2> QED BY <2>1, <2>2, <2>3, <2>4, <2>5 DEF T
<1>4. CASE in.req \notin drv.cfg.kind
  <2>1. Asked(in) = T BY <1>4 DEF Asked, T
  <2>2. Len(T) >= Len(T) BY <1>1
  <2> QED BY <1>1, <1>4, <2>1, <2>2 DEF T
<1> QED BY <1>3, <1>4

LEMMA PaidIs ==
  ASSUME peer \in Peer, drv \in Driver, NEW in, Sane(in)
  PROVE  /\ Paid(in) \in Seq(Txn) /\ Len(Paid(in)) = Len(Asked(in))
         /\ DOMAIN Paid(in) = DOMAIN Asked(in)
         /\ \A i \in DOMAIN Asked(in) :
              /\ Paid(in)[i].kind = Asked(in)[i].kind
              /\ Paid(in)[i].rsp = Asked(in)[i].rsp
              /\ Paid(in)[i].dat = Asked(in)[i].dat
              /\ Paid(in)[i].nderr = Asked(in)[i].nderr
              /\ Paid(in)[i].owed
                   = Asked(in)[i].owed
                       - (IF in.dat = Data /\ in.datnum = i THEN 1 ELSE 0)
         /\ in.dat = Data =>
              /\ in.datnum \in DOMAIN Asked(in)
              /\ Asked(in)[in.datnum].owed > 0
<1> DEFINE T == Asked(in)
           U == Paid(in)
<1>1. T \in Seq(Txn) /\ DOMAIN T = 1 .. Len(T) /\ Len(T) \in Nat
  BY AskedIs
<1>2. in.dat = Data => in.datnum \in DOMAIN T /\ T[in.datnum].owed > 0
  <2> SUFFICES ASSUME in.dat = Data
               PROVE  in.datnum \in DOMAIN T /\ T[in.datnum].owed > 0
    OBVIOUS
  <2>1. in.datnum \in DOMAIN peer.txn /\ peer.txn[in.datnum].owed > 0
    BY DEF Sane
  <2>2. T[in.datnum] = peer.txn[in.datnum] BY <2>1, AskedIs
  <2>3. peer.txn \in Seq(Txn) BY DEF Peer
  <2>4. Len(T) >= Len(peer.txn) BY AskedIs
  <2> HIDE DEF T
  <2>5. in.datnum \in DOMAIN T BY <1>1, <2>1, <2>3, <2>4
  <2> QED BY <2>1, <2>2, <2>5
<1>3. U = [i \in DOMAIN T |->
             IF in.dat = Data /\ in.datnum = i
             THEN [T[i] EXCEPT !.owed = @ - 1] ELSE T[i]]
  BY DEF Paid
<1> HIDE DEF T, U
<1>4. ASSUME NEW i \in DOMAIN T
      PROVE  /\ U[i] \in Txn
             /\ U[i].kind = T[i].kind /\ U[i].rsp = T[i].rsp
             /\ U[i].dat = T[i].dat /\ U[i].nderr = T[i].nderr
             /\ U[i].owed
                  = T[i].owed
                      - (IF in.dat = Data /\ in.datnum = i THEN 1 ELSE 0)
  <2>1. T[i] \in Txn BY <1>1
  <2>2. T[i].owed \in Nat BY <2>1 DEF Txn
  <2>3. CASE in.dat = Data /\ in.datnum = i
    <3>1. U[i] = [T[i] EXCEPT !.owed = @ - 1] BY <1>3, <2>3
    <3>2. T[i].owed - 1 \in Nat BY <1>2, <2>2, <2>3
    <3>3. U[i] \in Txn BY <2>1, <3>1, <3>2, Zenon DEF Txn
    <3> QED BY <2>1, <2>3, <3>1, <3>3 DEF Txn
  <2>4. CASE ~(in.dat = Data /\ in.datnum = i)
    <3>1. U[i] = T[i] BY <1>3, <2>4
    <3> QED BY <2>1, <2>2, <2>4, <3>1
  <2> QED BY <2>3, <2>4
<1>5. DOMAIN U = 1 .. Len(T) BY <1>1, <1>3
<1>6. U \in [1 .. Len(T) -> Txn] BY <1>1, <1>3, <1>4
<1>7. U \in Seq(Txn) BY <1>1, <1>6
<1>8. Len(U) = Len(T) BY <1>1, <1>5, <1>7
<1>9. DOMAIN U = DOMAIN T BY <1>1, <1>5
<1> QED BY <1>2, <1>4, <1>7, <1>8, <1>9 DEF T, U

(* What the receipt of flits leaves alone; the grants that are owed for it *)
(* are counted apart.                                                      *)
Still(d, g) ==
  /\ g.cfg = d.cfg /\ g.link_active = d.link_active
  /\ g.send_credits = d.send_credits
  /\ g.rsp_announce = d.rsp_announce /\ g.dat_announce = d.dat_announce

LEMMA StillTransitive ==
  ASSUME NEW d, NEW f, NEW g, Still(d, f), Still(f, g)
  PROVE  Still(d, g)
BY DEF Still

LEMMA RegrantBook ==
  ASSUME NEW d, NEW f, NEW T, Book(f, T, 0), Kept(d, f), NEW c \in Channel,
         NEW g, g = Regrant(f, c)
  PROVE  /\ Book(g, T, 0) /\ Still(d, g)
         /\ \A b \in Channel :
              g.grant_pending[b]
                = d.grant_pending[b] + (IF b = c THEN 1 ELSE 0)
<1>1. f \in Driver BY DEF Book
<1>2. /\ g \in Driver /\ Aside(f, g) /\ g.link_active = f.link_active
      /\ g.send_credits = f.send_credits
      /\ \A b \in Channel :
           g.grant_pending[b]
             = f.grant_pending[b] + (IF b = c THEN 1 ELSE 0)
  BY <1>1, RegrantIs
<1>3. Book(g, T, 0) BY <1>2, AsideBook
<1>4. Still(d, g) BY <1>2 DEF Still, Kept, Aside, SameQueues
<1> QED BY <1>2, <1>3, <1>4 DEF Kept

LEMMA ReceiveReqBook ==
  ASSUME peer \in Peer, drv \in Driver, NEW in, Sane(in),
         NEW d, Book(d, peer.txn, 0), NEW g, g = receive_req(d, in)
  PROVE  /\ Book(g, Asked(in), 0) /\ Still(d, g)
         /\ \A b \in Channel :
              g.grant_pending[b]
                = d.grant_pending[b]
                    + (IF b = "req" /\ in.req \notin {None, Return}
                       THEN 1 ELSE 0)
<1> DEFINE T == Asked(in)
           n == Len(peer.txn) + 1
<1>1. /\ T \in Seq(Txn) /\ Len(T) >= Len(peer.txn)
      /\ \A i \in DOMAIN peer.txn : T[i] = peer.txn[i]
  BY AskedIs
<1>2. peer.txn \in Seq(Txn) /\ d \in Driver BY DEF Book
<1>3. \A i \in DOMAIN d.wr_await_q :
        d.wr_await_q[i].num \in DOMAIN peer.txn
  <2> TAKE i \in DOMAIN d.wr_await_q
  <2>1. d.wr_await_q[i] \in Entry BY <1>2, OutTypes
  <2>2. d.wr_await_q[i].num \in Nat \ {0} BY <2>1 DEF Entry
  <2>3. d.wr_await_q[i].num <= Len(peer.txn) BY DEF Book, Views, Known
  <2> QED BY <1>2, <2>2, <2>3
<1>4. Book(d, T, 0)
  <2>1. \A i \in DOMAIN d.wr_await_q :
          SameTxn(peer.txn[d.wr_await_q[i].num], T[d.wr_await_q[i].num])
    BY <1>1, <1>3 DEF SameTxn
  <2>2. Len(peer.txn) <= Len(T) BY <1>1, <1>2
  <2> HIDE DEF T
  <2> QED BY <1>1, <2>1, <2>2, TxnBook, 0 \in Int
<1>5. CASE in.req \in {None, Return}
  <2>1. g = d BY <1>5 DEF receive_req
  <2>2. d.grant_pending \in [Channel -> Nat] BY <1>2, DriverTypes
  <2>3. \A b \in Channel : d.grant_pending[b] = d.grant_pending[b] + 0
    BY <2>2
  <2> HIDE DEF T
  <2> QED BY <1>4, <1>5, <2>1, <2>3 DEF Still, T
<1>6. CASE in.req \notin {None, Return}
  <2> DEFINE f == handle_req(d, in.req, n)
  <2>1. in.num = n BY DEF Sane
  <2>2. g = Regrant(f, "req") BY <1>6, <2>1 DEF receive_req
  <2>3. in.req \in drv.cfg.kind BY <1>6 DEF Sane
  <2>4. /\ in.req \in Request /\ Len(T) = Len(peer.txn) + 1
        /\ T[Len(peer.txn) + 1] = NewTxn(in.req)
    BY <2>3, AskedIs
  <2>5. n \in Nat \ {0} /\ n <= Len(T) /\ Len(peer.txn) \in Nat
    BY <1>2, <2>4
  <2>6. T[n].kind = in.req /\ T[n].rsp = <<>> /\ T[n].owed = 0
    BY <2>4 DEF NewTxn
  <2>7. Free(d, n)
    <3>1. \A i \in DOMAIN d.wr_await_q : d.wr_await_q[i].num # n
      BY <1>2, <1>3, <2>5
    <3>2. ASSUME NEW e \in d.req_port PROVE e.num # n
      <4>1. e.num <= Len(peer.txn) BY DEF Book, Views, Known
      <4> QED BY <2>5, <4>1
    <3> QED BY <3>1, <3>2 DEF Free
  <2>8. \A i \in DOMAIN ROut(d) : ROut(d)[i].num # n
    <3>1. \A i \in DOMAIN ROut(d) : ROut(d)[i].num <= Len(peer.txn)
      BY DEF Book, Views, Known
    <3> QED BY <2>5, <3>1
  <2>9. drv.cfg.split_write_rsp \in BOOLEAN BY DriverTypes, CfgTypes
  <2> HIDE DEF T, n, f
  <2>10. Book(f, T, 0) /\ Kept(d, f)
    BY <1>4, <2>4, <2>5, <2>6, <2>7, <2>8, <2>9, ReqBook DEF f
  <2>11. "req" \in Channel BY DEF Channel
  <2>12. /\ Book(g, T, 0) /\ Still(d, g)
         /\ \A b \in Channel :
              g.grant_pending[b]
                = d.grant_pending[b] + (IF b = "req" THEN 1 ELSE 0)
    BY ONLY <2>2, <2>10, <2>11, RegrantBook
  <2> QED BY <1>6, <2>12 DEF T
<1> QED BY <1>5, <1>6

LEMMA ReceiveDatBook ==
  ASSUME peer \in Peer, drv \in Driver, NEW in, Sane(in),
         NEW d, Book(d, Asked(in), 0), NEW g, g = receive_dat(d, in)
  PROVE  /\ Book(g, Paid(in), 0) /\ Still(d, g)
         /\ \A b \in Channel :
              g.grant_pending[b]
                = d.grant_pending[b]
                    + (IF b = "dat" /\ in.dat # None THEN 1 ELSE 0)
<1> DEFINE T == Asked(in)
           U == Paid(in)
           f == IF in.dat = Return THEN d ELSE handle_write_data(d, in.datnum)
<1>1. /\ U \in Seq(Txn) /\ Len(U) = Len(T) /\ DOMAIN U = DOMAIN T
      /\ \A i \in DOMAIN T :
           /\ U[i].kind = T[i].kind /\ U[i].rsp = T[i].rsp
           /\ U[i].owed
                = T[i].owed
                    - (IF in.dat = Data /\ in.datnum = i THEN 1 ELSE 0)
      /\ in.dat = Data => in.datnum \in DOMAIN T /\ T[in.datnum].owed > 0
  BY PaidIs
<1>2. T \in Seq(Txn) /\ d \in Driver /\ Book(d, T, 0) BY DEF Book
<1>3. \A i \in DOMAIN T : T[i].owed \in Nat
  <2> TAKE i \in DOMAIN T
  <2> HIDE DEF T
  <2>1. T[i] \in Txn BY <1>2
  <2> QED BY <2>1 DEF Txn
<1>4. Data # Return /\ Data # None
  <2>1. Data.op = "data" /\ Return.op = "return" /\ None.op = "none"
    BY DEF Data, Return, None
  <2> QED BY <2>1
<1>5. in.dat \in {None, Return, Data} BY DEF Sane
<1>6. g = IF in.dat = None THEN d ELSE Regrant(f, "dat")
  BY DEF receive_dat
<1> HIDE DEF T, U, f
<1>7. /\ in.dat # None => Book(f, U, 0) /\ Kept(d, f)
      /\ in.dat = None => Book(d, U, 0)
  <2>1. CASE in.dat = Data
    <3> DEFINE n == in.datnum
    <3>1. f = handle_write_data(d, n) BY <1>4, <2>1 DEF f
    <3>2. n \in DOMAIN T /\ T[n].owed > 0 /\ U[n].owed = T[n].owed - 1
          /\ U[n].kind = T[n].kind /\ U[n].rsp = T[n].rsp
      BY <1>1, <2>1
    <3>3. \A i \in DOMAIN T : i # n => SameTxn(T[i], U[i])
      <4> TAKE i \in DOMAIN T
      <4> HAVE i # n
      <4>1. U[i].owed = T[i].owed - 0 /\ T[i].owed \in Nat
        BY <1>1, <1>3
      <4> QED BY <1>1, <4>1 DEF SameTxn
    <3> HIDE DEF n
    <3>4. Book(f, U, 0) /\ Kept(d, f)
      BY <1>1, <1>2, <3>1, <3>2, <3>3, DataBook
    <3> QED BY <1>4, <2>1, <3>4
  <2>2. CASE in.dat # Data
    <3>1. \A i \in DOMAIN T : SameTxn(T[i], U[i])
      <4> TAKE i \in DOMAIN T
      <4>1. U[i].owed = T[i].owed - 0 /\ T[i].owed \in Nat
        BY <1>1, <1>3, <2>2
      <4> QED BY <1>1, <4>1 DEF SameTxn
    <3>2. \A i \in DOMAIN d.wr_await_q : d.wr_await_q[i].num \in DOMAIN T
      <4> TAKE i \in DOMAIN d.wr_await_q
      <4>1. d.wr_await_q[i] \in Entry BY <1>2, OutTypes
      <4>2. d.wr_await_q[i].num \in Nat \ {0} BY <4>1 DEF Entry
      <4>3. d.wr_await_q[i].num <= Len(T) BY <1>2 DEF Book, Views, Known
      <4> QED BY <1>2, <4>2, <4>3
    <3>3. Len(T) <= Len(U) BY <1>1, <1>2
    <3>4. \A i \in DOMAIN d.wr_await_q :
            SameTxn(T[d.wr_await_q[i].num], U[d.wr_await_q[i].num])
      BY <3>1, <3>2
    <3>5. Book(d, U, 0) BY <1>1, <1>2, <3>3, <3>4, TxnBook, 0 \in Int
    <3>6. CASE in.dat = Return
      <4>1. f = d BY <3>6 DEF f
      <4> QED BY <3>5, <4>1 DEF Kept
    <3>7. CASE in.dat = None BY <3>5, <3>7
    <3> QED BY <1>5, <2>2, <3>6, <3>7
  <2> QED BY <2>1, <2>2
<1>8. CASE in.dat = None
  <2>1. g = d BY <1>6, <1>8
  <2>2. d.grant_pending \in [Channel -> Nat] BY <1>2, DriverTypes
  <2>3. \A b \in Channel : d.grant_pending[b] = d.grant_pending[b] + 0
    BY <2>2
  <2> QED BY <1>7, <1>8, <2>1, <2>3 DEF Still, U
<1>9. CASE in.dat # None
  <2>1. g = Regrant(f, "dat") BY <1>6, <1>9
  <2>2. "dat" \in Channel BY DEF Channel
  <2>3. Book(f, U, 0) /\ Kept(d, f) BY <1>7, <1>9
  <2>4. /\ Book(g, U, 0) /\ Still(d, g)
        /\ \A b \in Channel :
             g.grant_pending[b]
               = d.grant_pending[b] + (IF b = "dat" THEN 1 ELSE 0)
    BY ONLY <2>1, <2>2, <2>3, RegrantBook
  <2> QED BY <1>9, <2>4 DEF U
<1> QED BY <1>8, <1>9

LEMMA ReceiveRspBook ==
  ASSUME NEW in, NEW d, NEW T, Book(d, T, 0), NEW g, g = receive_rsp(d, in)
  PROVE  /\ Book(g, T, 0) /\ Still(d, g)
         /\ \A b \in Channel :
              g.grant_pending[b]
                = d.grant_pending[b]
                    + (IF b = "rsp" /\ in.ack THEN 1 ELSE 0)
<1>1. d \in Driver BY DEF Book
<1>2. CASE in.ack
  <2>1. g = Regrant(d, "rsp") BY <1>2 DEF receive_rsp
  <2>2. "rsp" \in Channel /\ Kept(d, d) BY DEF Channel, Kept
  <2>3. /\ Book(g, T, 0) /\ Still(d, g)
        /\ \A b \in Channel :
             g.grant_pending[b]
               = d.grant_pending[b] + (IF b = "rsp" THEN 1 ELSE 0)
    BY <2>1, <2>2, RegrantBook
  <2> QED BY <1>2, <2>3
<1>3. CASE ~in.ack
  <2>1. g = d BY <1>3 DEF receive_rsp
  <2>2. d.grant_pending \in [Channel -> Nat] BY <1>1, DriverTypes
  <2>3. \A b \in Channel : d.grant_pending[b] = d.grant_pending[b] + 0
    BY <2>2
  <2> QED BY <1>3, <2>1, <2>3 DEF Still
<1> QED BY <1>2, <1>3

(* What is granted again is what was spent, without a credit returned on   *)
(* REQ.                                                                    *)
Regranted(in) == {c \in Spent(in) : ~(c = "req" /\ in.req = Return)}

LEMMA ReceiveBook ==
  ASSUME peer \in Peer, drv \in Driver, NEW in, Sane(in),
         NEW d, Book(d, peer.txn, 0), NEW g, g = receive(d, in)
  PROVE  /\ Book(g, Paid(in), 0) /\ Still(d, g)
         /\ \A b \in Channel :
              g.grant_pending[b]
                = d.grant_pending[b] + (IF b \in Regranted(in) THEN 1 ELSE 0)
<1> DEFINE d1 == receive_req(d, in)
           d2 == receive_dat(d1, in)
<1>0. d.grant_pending \in [Channel -> Nat]
  <2>1. d \in Driver BY DEF Book
  <2> QED BY <2>1, DriverTypes
<1>1. /\ Book(d1, Asked(in), 0) /\ Still(d, d1)
      /\ \A b \in Channel :
           d1.grant_pending[b]
             = d.grant_pending[b]
                 + (IF b = "req" /\ in.req \notin {None, Return}
                    THEN 1 ELSE 0)
  BY ReceiveReqBook
<1> HIDE DEF d1
<1>2. /\ Book(d2, Paid(in), 0) /\ Still(d1, d2)
      /\ \A b \in Channel :
           d2.grant_pending[b]
             = d1.grant_pending[b]
                 + (IF b = "dat" /\ in.dat # None THEN 1 ELSE 0)
  BY <1>1, ReceiveDatBook
<1>3. g = receive_rsp(d2, in) BY DEF receive, d1
<1> HIDE DEF d2
<1>4. /\ Book(g, Paid(in), 0) /\ Still(d2, g)
      /\ \A b \in Channel :
           g.grant_pending[b]
             = d2.grant_pending[b]
                 + (IF b = "rsp" /\ in.ack THEN 1 ELSE 0)
  BY <1>2, <1>3, ReceiveRspBook
<1>5. Still(d, g) BY <1>1, <1>2, <1>4, StillTransitive
<1>6. ASSUME NEW b \in Channel
      PROVE  g.grant_pending[b]
               = d.grant_pending[b] + (IF b \in Regranted(in) THEN 1 ELSE 0)
  <2>1. None # Return
    <3>1. None.op = "none" /\ Return.op = "return" BY DEF None, Return
    <3> QED BY <3>1
  <2>2. d.grant_pending[b] \in Nat BY <1>0
  <2>3. b \in {"req", "dat", "rsp"} BY DEF Channel
  <2>4. b \in Regranted(in) <=>
          CASE b = "req" -> in.req \notin {None, Return}
            [] b = "dat" -> in.dat # None
            [] OTHER -> in.ack
    <3>1. CASE b = "req" BY <2>1, <3>1 DEF Regranted, Spent
    <3>2. CASE b = "dat" BY <3>2 DEF Regranted, Spent
    <3>3. CASE b = "rsp" BY <3>3 DEF Regranted, Spent
    <3> QED BY <2>3, <3>1, <3>2, <3>3
  <2>5. CASE b = "req" BY <1>1, <1>2, <1>4, <2>2, <2>4, <2>5
  <2>6. CASE b = "dat" BY <1>1, <1>2, <1>4, <2>2, <2>4, <2>6
  <2>7. CASE b = "rsp" BY <1>1, <1>2, <1>4, <2>2, <2>4, <2>7
  <2> QED BY <2>3, <2>5, <2>6, <2>7
<1> QED BY <1>4, <1>5, <1>6

(* One credit a channel and edge is granted.                               *)
LEMMA GrantIs ==
  ASSUME NEW d \in Driver, NEW g, g = drive_credit_grants(d)
  PROVE  /\ g \in Driver /\ Aside(d, g)
         /\ g.link_active = d.link_active
         /\ g.send_credits = d.send_credits
         /\ \A c \in Channel :
              g.grant_pending[c]
                = d.grant_pending[c] - (IF c \in Granted(d) THEN 1 ELSE 0)
<1> DEFINE v == [c \in Channel |->
                   d.grant_pending[c] - IF c \in Granted(d) THEN 1 ELSE 0]
<1>1. d.grant_pending \in [Channel -> Nat] BY DriverTypes
<1>2. v \in [Channel -> Nat] BY <1>1 DEF Granted
<1>3. \A c \in Channel :
        v[c] = d.grant_pending[c] - (IF c \in Granted(d) THEN 1 ELSE 0)
  OBVIOUS
<1>4. g = [d EXCEPT !.grant_pending = v] BY DEF drive_credit_grants
<1> HIDE DEF v
<1>5. /\ g \in Driver /\ Aside(d, g) /\ g.link_active = d.link_active
      /\ g.grant_pending = v /\ g.send_credits = d.send_credits
  BY ONLY <1>2, <1>4, UpdateGrants, d \in Driver
<1> QED BY <1>3, <1>5

-----------------------------------------------------------------------------
(* What is sent.                                                           *)

LEMMA OneAhead ==
  ASSUME NEW X, NEW a \in Seq(X), NEW q \in Seq(X), Len(a) <= 1, a # <<>>
  PROVE  /\ a \o q # <<>> /\ Head(a \o q) = Head(a)
         /\ Tail(a \o q) = <<>> \o q
<1>1. Len(a) = 1 /\ Head(a) = a[1] /\ Len(q) \in Nat
  <2>1. Len(a) \in Nat \ {0} BY EmptySeq
  <2>2. Len(a) = 1
    <3> DEFINE n == Len(a)
    <3>1. n \in Nat \ {0} BY <2>1
    <3>2. n <= 1 OBVIOUS
    <3> HIDE DEF n
    <3>3. n = 1 BY ONLY <3>1, <3>2
    <3> QED BY ONLY <3>3 DEF n
  <2>3. Head(a) = a[1] /\ Len(q) \in Nat OBVIOUS
  <2> QED BY <2>2, <2>3
<1>2. /\ a \o q \in Seq(X) /\ Len(a \o q) = 1 + Len(q)
      /\ \A i \in 1 .. 1 + Len(q) :
           (a \o q)[i] = IF i <= 1 THEN a[i] ELSE q[i - 1]
  <2>1. /\ a \o q \in Seq(X) /\ Len(a \o q) = Len(a) + Len(q)
        /\ \A i \in 1 .. Len(a) + Len(q) :
             (a \o q)[i] = IF i <= Len(a) THEN a[i] ELSE q[i - Len(a)]
    BY ConcatProperties, Zenon
  <2> QED BY ONLY <1>1, <2>1
<1>3. <<>> \o q = q OBVIOUS
<1> DEFINE r == a \o q
<1> HIDE DEF r
<1>4. /\ r \in Seq(X) /\ Len(r) = 1 + Len(q)
      /\ \A i \in 1 .. 1 + Len(q) : r[i] = IF i <= 1 THEN a[i] ELSE q[i - 1]
  BY <1>2 DEF r
<1>5. r # <<>> /\ Head(r) = r[1] /\ r[1] = a[1]
  BY <1>1, <1>4
<1>6. /\ Tail(r) \in Seq(X) /\ Len(Tail(r)) = Len(q)
      /\ \A i \in 1 .. Len(q) : Tail(r)[i] = r[i + 1]
  BY <1>1, <1>4, <1>5
<1>7. \A i \in 1 .. Len(q) : Tail(r)[i] = q[i]
  BY <1>1, <1>4, <1>6
<1>8. Tail(r) = q BY <1>6, <1>7, SeqEqual
<1> QED BY <1>1, <1>3, <1>5, <1>8 DEF r

LEMMA AheadIs ==
  ASSUME NEW X, NEW q \in Seq(X), q # <<>>
  PROVE  <<Head(q)>> \o Tail(q) = <<>> \o q
<1>1. /\ Head(q) \in X /\ Tail(q) \in Seq(X) /\ Len(q) \in Nat
      /\ Len(q) >= 1 /\ Len(Tail(q)) = Len(q) - 1 /\ Head(q) = q[1]
      /\ \A i \in 1 .. Len(q) - 1 : Tail(q)[i] = q[i + 1]
  OBVIOUS
<1> DEFINE a == <<Head(q)>>
           b == Tail(q)
<1>2. a \in Seq(X) /\ Len(a) = 1 /\ a[1] = q[1] BY <1>1
<1>3. b \in Seq(X) /\ Len(b) = Len(q) - 1
      /\ \A i \in 1 .. Len(q) - 1 : b[i] = q[i + 1]
  BY <1>1
<1>4. <<>> \o q = q OBVIOUS
<1> HIDE DEF a, b
<1>5. /\ a \o b \in Seq(X) /\ Len(a \o b) = Len(q)
      /\ \A i \in 1 .. Len(q) :
           (a \o b)[i] = IF i <= 1 THEN a[i] ELSE b[i - 1]
  <2>1. Len(a) + Len(b) = Len(q) BY <1>1, <1>2, <1>3
  <2>2. /\ a \o b \in Seq(X) /\ Len(a \o b) = Len(a) + Len(b)
        /\ \A i \in 1 .. Len(a) + Len(b) :
             (a \o b)[i] = IF i <= Len(a) THEN a[i] ELSE b[i - Len(a)]
    <3>1. a \in Seq(X) BY <1>2
    <3>2. b \in Seq(X) BY <1>3
    <3> QED BY <3>1, <3>2, ConcatProperties, Zenon
  <2>3. Len(a) = 1 BY <1>2
  <2> QED BY ONLY <2>1, <2>2, <2>3
<1>6. \A i \in 1 .. Len(q) : (a \o b)[i] = q[i]
  <2> TAKE i \in 1 .. Len(q)
  <2>1. CASE i <= 1
    <3>1. i = 1 BY <1>1, <2>1
    <3> QED BY <1>2, <1>5, <3>1
  <2>2. CASE ~(i <= 1)
    <3>1. i - 1 \in 1 .. Len(q) - 1 /\ i - 1 + 1 = i BY <1>1, <2>2
    <3> QED BY <1>3, <1>5, <2>2, <3>1
  <2> QED BY <2>1, <2>2
<1>7. a \o b = q BY <1>5, <1>6, SeqEqual
<1> QED BY <1>4, <1>7 DEF a, b

(* What sending leaves alone.                                              *)
Sending(d, g) ==
  /\ g.cfg = d.cfg /\ g.link_active = d.link_active
  /\ g.grant_pending = d.grant_pending
  /\ g.wr_await_q = d.wr_await_q /\ g.req_port = d.req_port

LEMMA SendingTransitive ==
  ASSUME NEW d, NEW f, NEW g, Sending(d, f), Sending(f, g)
  PROVE  Sending(d, g)
BY DEF Sending

SameRsp(d, g) ==
  /\ g.rsp_announce = d.rsp_announce /\ g.rsp_send_q = d.rsp_send_q

SameDat(d, g) ==
  /\ g.dat_announce = d.dat_announce /\ g.dat_send_q = d.dat_send_q

(* A flit is announced, a flit goes.                                       *)
RspSet(d, v, w) == [d EXCEPT !.rsp_announce = v, !.rsp_send_q = w]
DatSet(d, v, w) == [d EXCEPT !.dat_announce = v, !.dat_send_q = w]
RspGone(d, v, s) == [d EXCEPT !.rsp_announce = v, !.send_credits = s]
DatGone(d, v, s) == [d EXCEPT !.dat_announce = v, !.send_credits = s]
RspSent(d, v, s, m) == [RspGone(d, v, s) EXCEPT !.tx_activity_count = m]
DatSent(d, v, s, m) == [DatGone(d, v, s) EXCEPT !.tx_activity_count = m]

LEMMA UpdateRspOut ==
  ASSUME NEW d \in Driver, NEW v \in Seq(RspFlit), NEW w \in Seq(RspFlit),
         NEW g, g = RspSet(d, v, w)
  PROVE  /\ g \in Driver /\ Sending(d, g) /\ SameDat(d, g)
         /\ g.rsp_announce = v /\ g.rsp_send_q = w
         /\ g.send_credits = d.send_credits
         /\ g.tx_activity_count = d.tx_activity_count
<1>1. g \in Driver BY Zenon DEF Driver, RspSet
<1>2. /\ Sending(d, g) /\ SameDat(d, g)
      /\ g.rsp_announce = v /\ g.rsp_send_q = w
      /\ g.send_credits = d.send_credits
      /\ g.tx_activity_count = d.tx_activity_count
  BY DEF RspSet, Driver, Sending, SameDat
<1> QED BY <1>1, <1>2

LEMMA UpdateDatOut ==
  ASSUME NEW d \in Driver, NEW v \in Seq(DatFlit), NEW w \in Seq(DatFlit),
         NEW g, g = DatSet(d, v, w)
  PROVE  /\ g \in Driver /\ Sending(d, g) /\ SameRsp(d, g)
         /\ g.dat_announce = v /\ g.dat_send_q = w
         /\ g.send_credits = d.send_credits
         /\ g.tx_activity_count = d.tx_activity_count
<1>1. g \in Driver BY Zenon DEF Driver, DatSet
<1>2. /\ Sending(d, g) /\ SameRsp(d, g)
      /\ g.dat_announce = v /\ g.dat_send_q = w
      /\ g.send_credits = d.send_credits
      /\ g.tx_activity_count = d.tx_activity_count
  BY DEF DatSet, Driver, Sending, SameRsp
<1> QED BY <1>1, <1>2

LEMMA UpdateSentRsp ==
  ASSUME NEW d \in Driver, NEW v \in Seq(RspFlit),
         NEW s \in [{"rsp", "dat"} -> Nat], NEW m \in Nat,
         NEW g, g = RspSent(d, v, s, m)
  PROVE  /\ g \in Driver /\ Sending(d, g) /\ SameDat(d, g)
         /\ g.rsp_announce = v /\ g.rsp_send_q = d.rsp_send_q
         /\ g.send_credits = s /\ g.tx_activity_count = m
<1> DEFINE f == RspGone(d, v, s)
<1>0. g = [f EXCEPT !.tx_activity_count = m] BY DEF RspSent
<1>1. f \in Driver BY Zenon DEF Driver, RspGone
<1>2. g \in Driver
  <2> HIDE DEF f
  <2> QED BY <1>0, <1>1, Zenon DEF Driver
<1>3. /\ Sending(d, f) /\ SameDat(d, f)
      /\ f.rsp_announce = v /\ f.rsp_send_q = d.rsp_send_q
      /\ f.send_credits = s
  BY DEF RspGone, Driver, Sending, SameDat
<1> HIDE DEF f
<1>4. /\ Sending(f, g) /\ SameDat(f, g) /\ SameRsp(f, g)
      /\ g.send_credits = f.send_credits
      /\ g.tx_activity_count = m
  BY <1>0, <1>1 DEF Driver, Sending, SameDat, SameRsp
<1>5. Sending(d, g) BY <1>3, <1>4, SendingTransitive
<1> QED BY <1>2, <1>3, <1>4, <1>5 DEF SameDat, SameRsp

LEMMA UpdateSentDat ==
  ASSUME NEW d \in Driver, NEW v \in Seq(DatFlit),
         NEW s \in [{"rsp", "dat"} -> Nat], NEW m \in Nat,
         NEW g, g = DatSent(d, v, s, m)
  PROVE  /\ g \in Driver /\ Sending(d, g) /\ SameRsp(d, g)
         /\ g.dat_announce = v /\ g.dat_send_q = d.dat_send_q
         /\ g.send_credits = s /\ g.tx_activity_count = m
<1> DEFINE f == DatGone(d, v, s)
<1>0. g = [f EXCEPT !.tx_activity_count = m] BY DEF DatSent
<1>1. f \in Driver BY Zenon DEF Driver, DatGone
<1>2. g \in Driver
  <2> HIDE DEF f
  <2> QED BY <1>0, <1>1, Zenon DEF Driver
<1>3. /\ Sending(d, f) /\ SameRsp(d, f)
      /\ f.dat_announce = v /\ f.dat_send_q = d.dat_send_q
      /\ f.send_credits = s
  BY DEF DatGone, Driver, Sending, SameRsp
<1> HIDE DEF f
<1>4. /\ Sending(f, g) /\ SameDat(f, g) /\ SameRsp(f, g)
      /\ g.send_credits = f.send_credits
      /\ g.tx_activity_count = m
  BY <1>0, <1>1 DEF Driver, Sending, SameDat, SameRsp
<1>5. Sending(d, g) BY <1>3, <1>4, SendingTransitive
<1> QED BY <1>2, <1>3, <1>4, <1>5 DEF SameDat, SameRsp

(* The flits on their way out, when one is announced and when one goes.    *)
LEMMA RspAhead ==
  ASSUME NEW d \in Driver, Len(d.rsp_announce) <= 1
  PROVE  /\ d.rsp_announce # <<>> =>
              /\ ROut(d) # <<>> /\ Head(ROut(d)) = Head(d.rsp_announce)
              /\ Tail(ROut(d)) = <<>> \o d.rsp_send_q
              /\ Len(d.rsp_announce) = 1
         /\ d.rsp_send_q # <<>> =>
              <<Head(d.rsp_send_q)>> \o Tail(d.rsp_send_q)
                = <<>> \o d.rsp_send_q
<1> DEFINE a == d.rsp_announce
           q == d.rsp_send_q
<1>1. a \in Seq(RspFlit) /\ q \in Seq(RspFlit) BY OutTypes
<1>2. ROut(d) = a \o q BY DEF ROut
<1>3. Len(a) <= 1 OBVIOUS
<1> HIDE DEF a, q
<1>4. ASSUME a # <<>>
      PROVE  /\ a \o q # <<>> /\ Head(a \o q) = Head(a)
             /\ Tail(a \o q) = <<>> \o q
             /\ Len(a) = 1
  <2>1. Len(a) \in Nat \ {0} BY <1>1, <1>4, EmptySeq
  <2>2. Len(a) = 1
    <3> DEFINE n == Len(a)
    <3>1. n \in Nat \ {0} /\ n <= 1 BY <1>3, <2>1
    <3> HIDE DEF n
    <3>2. n = 1 BY ONLY <3>1
    <3> QED BY ONLY <3>2 DEF n
  <2> QED BY <1>1, <1>3, <1>4, <2>2, OneAhead
<1>5. ASSUME q # <<>>
      PROVE  <<Head(q)>> \o Tail(q) = <<>> \o q
  BY <1>1, <1>5, AheadIs
<1> QED BY <1>2, <1>4, <1>5 DEF a, q

LEMMA DatAhead ==
  ASSUME NEW d \in Driver, Len(d.dat_announce) <= 1
  PROVE  /\ d.dat_announce # <<>> =>
              /\ DOut(d) # <<>> /\ Head(DOut(d)) = Head(d.dat_announce)
              /\ Tail(DOut(d)) = <<>> \o d.dat_send_q
              /\ Len(d.dat_announce) = 1
         /\ d.dat_send_q # <<>> =>
              <<Head(d.dat_send_q)>> \o Tail(d.dat_send_q)
                = <<>> \o d.dat_send_q
<1> DEFINE a == d.dat_announce
           q == d.dat_send_q
<1>1. a \in Seq(DatFlit) /\ q \in Seq(DatFlit) BY OutTypes
<1>2. DOut(d) = a \o q BY DEF DOut
<1>3. Len(a) <= 1 OBVIOUS
<1> HIDE DEF a, q
<1>4. ASSUME a # <<>>
      PROVE  /\ a \o q # <<>> /\ Head(a \o q) = Head(a)
             /\ Tail(a \o q) = <<>> \o q
             /\ Len(a) = 1
  <2>1. Len(a) \in Nat \ {0} BY <1>1, <1>4, EmptySeq
  <2>2. Len(a) = 1
    <3> DEFINE n == Len(a)
    <3>1. n \in Nat \ {0} /\ n <= 1 BY <1>3, <2>1
    <3> HIDE DEF n
    <3>2. n = 1 BY ONLY <3>1
    <3> QED BY ONLY <3>2 DEF n
  <2> QED BY <1>1, <1>3, <1>4, <2>2, OneAhead
<1>5. ASSUME q # <<>>
      PROVE  <<Head(q)>> \o Tail(q) = <<>> \o q
  BY <1>1, <1>5, AheadIs
<1> QED BY <1>2, <1>4, <1>5 DEF a, q

LEMMA CreditTypes ==
  ASSUME NEW d \in Driver, Backed(d)
  PROVE  /\ d.send_credits["rsp"] \in Nat /\ d.send_credits["dat"] \in Nat
         /\ Len(d.rsp_announce) \in Nat /\ Len(d.dat_announce) \in Nat
         /\ d.cfg.peer_credits \in Nat
         /\ Len(d.rsp_announce) <= d.send_credits["rsp"]
         /\ d.send_credits["rsp"] <= d.cfg.peer_credits
         /\ Len(d.dat_announce) <= d.send_credits["dat"]
         /\ d.send_credits["dat"] <= d.cfg.peer_credits
<1>1. d.cfg.peer_credits \in Nat BY DriverTypes, CfgTypes
<1>2. d.send_credits["rsp"] \in Nat /\ d.send_credits["dat"] \in Nat
  BY DriverTypes
<1>3. Len(d.rsp_announce) \in Nat /\ Len(d.dat_announce) \in Nat
  <2>1. d.rsp_announce \in Seq(RspFlit) /\ d.dat_announce \in Seq(DatFlit)
    BY OutTypes
  <2> QED BY <2>1, LenProperties
<1> QED BY <1>1, <1>2, <1>3 DEF Backed

LEMMA AnnounceRspBook ==
  ASSUME NEW d, NEW T, Book(d, T, 0), Backed(d), d.rsp_announce = <<>>,
         NEW due, NEW g, g = announce_rsp_flit(d, due)
  PROVE  /\ Book(g, T, 0) /\ Backed(g) /\ Sending(d, g) /\ SameDat(d, g)
         /\ g.tx_activity_count = d.tx_activity_count
<1> DEFINE q == d.rsp_send_q
           v == <<Head(q)>>
           w == Tail(q)
<1>1. d \in Driver /\ T \in Seq(Txn) /\ Len(d.rsp_announce) <= 1
  BY DEF Book
<1>2. CASE \/ q = <<>> \/ d.send_credits["rsp"] <= 0
           \/ ~send_time_reached(Head(q), due)
  <2>1. g = d BY <1>2 DEF announce_rsp_flit
  <2> QED BY <2>1 DEF Sending, SameDat
<1>3. CASE ~(\/ q = <<>> \/ d.send_credits["rsp"] <= 0
             \/ ~send_time_reached(Head(q), due))
  <2>1. g = RspSet(d, v, w)
    BY <1>3 DEF announce_rsp_flit, RspSet
  <2>2. q # <<>> /\ ~(d.send_credits["rsp"] <= 0) BY <1>3
  <2>3. q \in Seq(RspFlit) BY <1>1, OutTypes
  <2>4. v \o w = <<>> \o q BY <1>1, <2>2, RspAhead
  <2> HIDE DEF q
  <2>5. Head(q) \in RspFlit /\ w \in Seq(RspFlit) BY <2>2, <2>3
  <2>6. v \in Seq(RspFlit) /\ Len(v) = 1 BY <2>5
  <2> HIDE DEF v, w
  <2>7. /\ g \in Driver /\ Sending(d, g) /\ SameDat(d, g)
        /\ g.rsp_announce = v /\ g.rsp_send_q = w
        /\ g.send_credits = d.send_credits
        /\ g.tx_activity_count = d.tx_activity_count
    <3>1. d \in Driver /\ v \in Seq(RspFlit) /\ w \in Seq(RspFlit)
      BY <1>1, <2>5, <2>6
    <3> QED BY ONLY <2>1, <3>1, UpdateRspOut
  <2>8. ROut(g) = ROut(d) /\ DOut(g) = DOut(d)
    BY <2>4, <2>7 DEF ROut, DOut, SameDat, q
  <2>9. Len(g.rsp_announce) <= 1 /\ Len(g.dat_announce) <= 1
    <3>1. Len(g.rsp_announce) = 1 BY <2>6, <2>7
    <3>2. Len(g.dat_announce) <= 1 BY <2>7 DEF Book, SameDat
    <3> QED BY ONLY <3>1, <3>2
  <2>10. Book(g, T, 0) BY <1>1, <2>7, <2>8, <2>9 DEF Book, Sending
  <2>11. Backed(g)
    <3>1. /\ d.send_credits["rsp"] \in Nat /\ d.cfg.peer_credits \in Nat
          /\ d.send_credits["rsp"] <= d.cfg.peer_credits
      BY <1>1, CreditTypes
    <3>2. d.send_credits["rsp"] \in 1 .. d.cfg.peer_credits
      BY ONLY <2>2, <3>1
    <3>3. Len(g.rsp_announce) = 1 BY <2>6, <2>7
    <3>4. d.send_credits["dat"] \in Len(d.dat_announce) .. d.cfg.peer_credits
      BY DEF Backed
    <3> QED BY ONLY <2>7, <3>2, <3>3, <3>4 DEF Backed, Sending, SameDat
  <2> QED BY <2>7, <2>10, <2>11
<1> QED BY <1>2, <1>3

LEMMA AnnounceDatBook ==
  ASSUME NEW d, NEW T, Book(d, T, 0), Backed(d), d.dat_announce = <<>>,
         NEW due, NEW g, g = announce_dat_flit(d, due)
  PROVE  /\ Book(g, T, 0) /\ Backed(g) /\ Sending(d, g) /\ SameRsp(d, g)
         /\ g.tx_activity_count = d.tx_activity_count
<1> DEFINE q == d.dat_send_q
           v == <<Head(q)>>
           w == Tail(q)
<1>1. d \in Driver /\ T \in Seq(Txn) /\ Len(d.dat_announce) <= 1
  BY DEF Book
<1>2. CASE \/ q = <<>> \/ d.send_credits["dat"] <= 0
           \/ ~send_time_reached(Head(q), due)
  <2>1. g = d BY <1>2 DEF announce_dat_flit
  <2> QED BY <2>1 DEF Sending, SameRsp
<1>3. CASE ~(\/ q = <<>> \/ d.send_credits["dat"] <= 0
             \/ ~send_time_reached(Head(q), due))
  <2>1. g = DatSet(d, v, w)
    BY <1>3 DEF announce_dat_flit, DatSet
  <2>2. q # <<>> /\ ~(d.send_credits["dat"] <= 0) BY <1>3
  <2>3. q \in Seq(DatFlit) BY <1>1, OutTypes
  <2>4. v \o w = <<>> \o q BY <1>1, <2>2, DatAhead
  <2> HIDE DEF q
  <2>5. Head(q) \in DatFlit /\ w \in Seq(DatFlit) BY <2>2, <2>3
  <2>6. v \in Seq(DatFlit) /\ Len(v) = 1 BY <2>5
  <2> HIDE DEF v, w
  <2>7. /\ g \in Driver /\ Sending(d, g) /\ SameRsp(d, g)
        /\ g.dat_announce = v /\ g.dat_send_q = w
        /\ g.send_credits = d.send_credits
        /\ g.tx_activity_count = d.tx_activity_count
    <3>1. d \in Driver /\ v \in Seq(DatFlit) /\ w \in Seq(DatFlit)
      BY <1>1, <2>5, <2>6
    <3> QED BY ONLY <2>1, <3>1, UpdateDatOut
  <2>8. ROut(g) = ROut(d) /\ DOut(g) = DOut(d)
    BY <2>4, <2>7 DEF ROut, DOut, SameRsp, q
  <2>9. Len(g.rsp_announce) <= 1 /\ Len(g.dat_announce) <= 1
    <3>1. Len(g.dat_announce) = 1 BY <2>6, <2>7
    <3>2. Len(g.rsp_announce) <= 1 BY <2>7 DEF Book, SameRsp
    <3> QED BY ONLY <3>1, <3>2
  <2>10. Book(g, T, 0) BY <1>1, <2>7, <2>8, <2>9 DEF Book, Sending
  <2>11. Backed(g)
    <3>1. /\ d.send_credits["dat"] \in Nat /\ d.cfg.peer_credits \in Nat
          /\ d.send_credits["dat"] <= d.cfg.peer_credits
      BY <1>1, CreditTypes
    <3>2. d.send_credits["dat"] \in 1 .. d.cfg.peer_credits
      BY ONLY <2>2, <3>1
    <3>3. Len(g.dat_announce) = 1 BY <2>6, <2>7
    <3>4. d.send_credits["rsp"] \in Len(d.rsp_announce) .. d.cfg.peer_credits
      BY DEF Backed
    <3> QED BY ONLY <2>7, <3>2, <3>3, <3>4 DEF Backed, Sending, SameRsp
  <2> QED BY <2>7, <2>10, <2>11
<1> QED BY <1>2, <1>3

(* What the peer keeps when response f, if there is one, reached it.       *)
Hears(d, T, U, a) ==
  \A i \in DOMAIN d.wr_await_q :
    LET t == T[d.wr_await_q[i].num]
        u == U[d.wr_await_q[i].num]
    IN IF a # <<>> /\ d.wr_await_q[i].num = Head(a).num
       THEN Received(t, u, Head(a)) ELSE SameTxn(t, u)

LEMMA SendRspBook ==
  ASSUME NEW d, NEW T, Book(d, T, 0), Backed(d),
         NEW U \in Seq(Txn), Len(T) = Len(U),
         Hears(d, T, U, d.rsp_announce),
         NEW due, NEW g, g = send_rsp(d, due)
  PROVE  Book(g, U, 0) /\ Backed(g) /\ Sending(d, g) /\ SameDat(d, g)
<1>1. /\ d \in Driver /\ T \in Seq(Txn)
      /\ Len(d.rsp_announce) <= 1 /\ Len(d.dat_announce) <= 1
      /\ Views(d.wr_await_q, d.req_port, ROut(d), DOut(d),
               d.tx_activity_count, T, 0)
  BY DEF Book
<1>2. CASE d.rsp_announce = <<>>
  <2>1. g = announce_rsp_flit(d, due) BY <1>2 DEF send_rsp
  <2>2. Book(d, U, 0)
    <3>1. \A i \in DOMAIN d.wr_await_q :
            SameTxn(T[d.wr_await_q[i].num], U[d.wr_await_q[i].num])
      BY <1>2 DEF Hears
    <3>2. Len(T) <= Len(U) BY <1>1
    <3> QED BY <3>1, <3>2, TxnBook, 0 \in Int
  <2> QED BY <1>2, <2>1, <2>2, AnnounceRspBook
<1>3. CASE d.rsp_announce # <<>>
  <2> DEFINE f == Head(d.rsp_announce)
             R == ROut(d)
             D == DOut(d)
             n == d.tx_activity_count
             closes == rsp_flit_closes_activity(f)
             m == IF closes /\ n > 0 THEN n - 1 ELSE n
             v == <<>>
             s == [d.send_credits EXCEPT !["rsp"] = @ - 1]
             h == RspGone(d, v, s)
  <2>1. R # <<>> /\ Head(R) = f /\ Tail(R) = <<>> \o d.rsp_send_q
        /\ Len(d.rsp_announce) = 1
    BY <1>1, <1>3, RspAhead
  <2>2. R \in Seq(RspFlit) /\ D \in Seq(DatFlit) /\ n \in Nat
        /\ d.wr_await_q \in Seq(Entry) /\ d.req_port \in SUBSET Entry
    BY <1>1, OutTypes
  <2>3. closes => n > 0
    <3> HIDE DEF R, D, n
    <3>1. Views(d.wr_await_q, d.req_port, R, D, n, T, 0)
      BY <1>1 DEF R, D, n
    <3>2. Activity(d.wr_await_q, d.req_port, R, D, n, 0)
      BY <3>1 DEF Views
    <3>3. closes => R # <<>> /\ rsp_flit_closes_activity(Head(R)) BY <2>1
    <3> QED BY <2>2, <3>2, <3>3, CounterPositive
  <2>4. m \in Nat /\ m = n - (IF closes THEN 1 ELSE 0)
    <3> HIDE DEF n, closes
    <3> QED BY <2>2, <2>3
  <2>5. /\ d.send_credits["rsp"] \in Nat /\ d.send_credits["dat"] \in Nat
        /\ d.cfg.peer_credits \in Nat
        /\ 1 <= d.send_credits["rsp"]
        /\ d.send_credits["rsp"] <= d.cfg.peer_credits
    BY <1>1, <2>1, CreditTypes
  <2>6. d.send_credits \in [{"rsp", "dat"} -> Nat] BY <1>1, DriverTypes
  <2>7. s \in [{"rsp", "dat"} -> Nat] /\ s["rsp"] = d.send_credits["rsp"] - 1
        /\ s["dat"] = d.send_credits["dat"]
    BY <2>5, <2>6
  <2>8. v \in Seq(RspFlit) /\ Len(v) = 0 OBVIOUS
  <2>9. h.tx_activity_count = n BY <1>1 DEF Driver, RspGone
  <2>10. g = RspSent(d, v, s, m)
    <3>1. g = Close(h, closes) BY <1>3 DEF send_rsp, RspGone
    <3> HIDE DEF h, closes, n
    <3>2. g = [h EXCEPT !.tx_activity_count = m] BY <2>9, <3>1 DEF Close
    <3> QED BY <3>2 DEF RspSent, h
  <2> HIDE DEF h, m, s, v, n, closes, f
  <2>12. /\ g \in Driver /\ Sending(d, g) /\ SameDat(d, g)
         /\ g.rsp_announce = v /\ g.rsp_send_q = d.rsp_send_q
         /\ g.send_credits = s /\ g.tx_activity_count = m
    <3>1. d \in Driver /\ v \in Seq(RspFlit) /\ m \in Nat
          /\ s \in [{"rsp", "dat"} -> Nat]
      BY <1>1, <2>4, <2>7, <2>8
    <3> QED BY ONLY <2>10, <3>1, UpdateSentRsp
  <2>13. ROut(g) = Tail(R) /\ DOut(g) = D
    BY <2>1, <2>12 DEF ROut, DOut, SameDat, v
  <2>14. Views(d.wr_await_q, d.req_port, Tail(R), D, m, U, 0)
    <3> HIDE DEF R, D
    <3>1. Views(d.wr_await_q, d.req_port, R, D, n, T, 0)
      BY <1>1 DEF R, D, n
    <3>2. m \in Int
          /\ m = n - (IF rsp_flit_closes_activity(Head(R)) THEN 1 ELSE 0)
      BY <2>1, <2>4 DEF closes
    <3>3. \A i \in DOMAIN d.wr_await_q :
            LET t == T[d.wr_await_q[i].num]
                u == U[d.wr_await_q[i].num]
            IN IF d.wr_await_q[i].num = Head(R).num
               THEN Received(t, u, Head(R)) ELSE SameTxn(t, u)
      BY <1>3, <2>1 DEF Hears, f
    <3> QED
      BY <1>1, <2>1, <2>2, <3>1, <3>2, <3>3, SendRspView, 0 \in Int
  <2>15. Len(g.rsp_announce) <= 1 /\ Len(g.dat_announce) <= 1
    <3>1. Len(g.rsp_announce) = 0 BY <2>8, <2>12
    <3>2. Len(g.dat_announce) <= 1 BY <1>1, <2>12 DEF SameDat
    <3> QED BY ONLY <3>1, <3>2
  <2>16. Book(g, U, 0)
    BY <2>12, <2>13, <2>14, <2>15 DEF Book, Sending
  <2>17. Backed(g)
    <3>1. s["rsp"] \in 0 .. d.cfg.peer_credits BY ONLY <2>5, <2>7
    <3>2. Len(g.rsp_announce) = 0 BY <2>8, <2>12
    <3>3. d.send_credits["dat"] \in Len(d.dat_announce) .. d.cfg.peer_credits
      BY DEF Backed
    <3> QED
      BY ONLY <2>7, <2>12, <3>1, <3>2, <3>3 DEF Backed, Sending, SameDat
  <2> QED BY <2>12, <2>16, <2>17
<1> QED BY <1>2, <1>3

LEMMA SendDatBook ==
  ASSUME NEW d, NEW T, Book(d, T, 0), Backed(d),
         NEW due, NEW sep, NEW g, g = send_dat(d, due, sep)
  PROVE  Book(g, T, 0) /\ Backed(g) /\ Sending(d, g) /\ SameRsp(d, g)
<1>1. /\ d \in Driver /\ T \in Seq(Txn)
      /\ Len(d.rsp_announce) <= 1 /\ Len(d.dat_announce) <= 1
      /\ Views(d.wr_await_q, d.req_port, ROut(d), DOut(d),
               d.tx_activity_count, T, 0)
  BY DEF Book
<1>2. CASE d.dat_announce = <<>> /\ ~Held(d.dat_send_q, sep)
  <2>1. g = announce_dat_flit(d, due) BY <1>2 DEF send_dat
  <2> QED BY <1>2, <2>1, AnnounceDatBook
<1>3. CASE d.dat_announce # <<>> /\ ~Held(d.dat_announce, sep)
  <2> DEFINE f == Head(d.dat_announce)
             R == ROut(d)
             D == DOut(d)
             n == d.tx_activity_count
             closes == f.last
             m == IF closes /\ n > 0 THEN n - 1 ELSE n
             v == <<>>
             s == [d.send_credits EXCEPT !["dat"] = @ - 1]
             h == DatGone(d, v, s)
  <2>1. D # <<>> /\ Head(D) = f /\ Tail(D) = <<>> \o d.dat_send_q
        /\ Len(d.dat_announce) = 1
    BY <1>1, <1>3, DatAhead
  <2>2. R \in Seq(RspFlit) /\ D \in Seq(DatFlit) /\ n \in Nat
        /\ d.wr_await_q \in Seq(Entry) /\ d.req_port \in SUBSET Entry
    BY <1>1, OutTypes
  <2>3. closes => n > 0
    <3> HIDE DEF R, D, n
    <3>1. Views(d.wr_await_q, d.req_port, R, D, n, T, 0)
      BY <1>1 DEF R, D, n
    <3>2. Activity(d.wr_await_q, d.req_port, R, D, n, 0)
      BY <3>1 DEF Views
    <3>3. closes => D # <<>> /\ Head(D).last BY <2>1
    <3> QED BY <2>2, <3>2, <3>3, CounterPositive
  <2>4. m \in Nat /\ m = n - (IF closes THEN 1 ELSE 0)
    <3> HIDE DEF n, closes
    <3> QED BY <2>2, <2>3
  <2>5. /\ d.send_credits["rsp"] \in Nat /\ d.send_credits["dat"] \in Nat
        /\ d.cfg.peer_credits \in Nat
        /\ 1 <= d.send_credits["dat"]
        /\ d.send_credits["dat"] <= d.cfg.peer_credits
    BY <1>1, <2>1, CreditTypes
  <2>6. d.send_credits \in [{"rsp", "dat"} -> Nat] BY <1>1, DriverTypes
  <2>7. s \in [{"rsp", "dat"} -> Nat] /\ s["dat"] = d.send_credits["dat"] - 1
        /\ s["rsp"] = d.send_credits["rsp"]
    BY <2>5, <2>6
  <2>8. v \in Seq(DatFlit) /\ Len(v) = 0 OBVIOUS
  <2>9. h.tx_activity_count = n BY <1>1 DEF Driver, DatGone
  <2>10. g = DatSent(d, v, s, m)
    <3>1. g = Close(h, closes) BY <1>3 DEF send_dat, DatGone
    <3> HIDE DEF h, closes, n
    <3>2. g = [h EXCEPT !.tx_activity_count = m] BY <2>9, <3>1 DEF Close
    <3> QED BY <3>2 DEF DatSent, h
  <2> HIDE DEF h, m, s, v, n, closes, f
  <2>12. /\ g \in Driver /\ Sending(d, g) /\ SameRsp(d, g)
         /\ g.dat_announce = v /\ g.dat_send_q = d.dat_send_q
         /\ g.send_credits = s /\ g.tx_activity_count = m
    <3>1. d \in Driver /\ v \in Seq(DatFlit) /\ m \in Nat
          /\ s \in [{"rsp", "dat"} -> Nat]
      BY <1>1, <2>4, <2>7, <2>8
    <3> QED BY ONLY <2>10, <3>1, UpdateSentDat
  <2>13. DOut(g) = Tail(D) /\ ROut(g) = R
    BY <2>1, <2>12 DEF ROut, DOut, SameRsp, v
  <2>14. Views(d.wr_await_q, d.req_port, R, Tail(D), m, T, 0)
    <3> HIDE DEF R, D
    <3>1. Views(d.wr_await_q, d.req_port, R, D, n, T, 0)
      BY <1>1 DEF R, D, n
    <3>2. m \in Int /\ m = n - (IF Head(D).last THEN 1 ELSE 0)
      BY <2>1, <2>4 DEF closes
    <3> QED BY <1>1, <2>1, <2>2, <3>1, <3>2, SendDatView, 0 \in Int
  <2>15. Len(g.rsp_announce) <= 1 /\ Len(g.dat_announce) <= 1
    <3>1. Len(g.dat_announce) = 0 BY <2>8, <2>12
    <3>2. Len(g.rsp_announce) <= 1 BY <1>1, <2>12 DEF SameRsp
    <3> QED BY ONLY <3>1, <3>2
  <2>16. Book(g, T, 0)
    BY <1>1, <2>12, <2>13, <2>14, <2>15 DEF Book, Sending
  <2>17. Backed(g)
    <3>1. s["dat"] \in 0 .. d.cfg.peer_credits BY ONLY <2>5, <2>7
    <3>2. Len(g.dat_announce) = 0 BY <2>8, <2>12
    <3>3. d.send_credits["rsp"] \in Len(d.rsp_announce) .. d.cfg.peer_credits
      BY DEF Backed
    <3> QED
      BY ONLY <2>7, <2>12, <3>1, <3>2, <3>3 DEF Backed, Sending, SameRsp
  <2> QED BY <2>12, <2>16, <2>17
<1>4. CASE /\ ~(d.dat_announce = <<>> /\ ~Held(d.dat_send_q, sep))
           /\ ~(d.dat_announce # <<>> /\ ~Held(d.dat_announce, sep))
  <2>1. g = d BY <1>4 DEF send_dat
  <2> QED BY <2>1 DEF Sending, SameRsp
<1> QED BY <1>2, <1>3, <1>4

(* All that is sent at an edge.                                            *)
LEMMA SendsBook ==
  ASSUME NEW d, NEW T, Book(d, T, 0), Backed(d),
         NEW U \in Seq(Txn), Len(T) = Len(U), Hears(d, T, U, SentRsp(d)),
         NEW in, NEW g, g = drive_sends(d, in)
  PROVE  Book(g, U, 0) /\ Backed(g) /\ Sending(d, g)
<1> DEFINE d1 == send_rsp(d, in.rspdue)
           d2 == send_dat(d1, in.datdue, RespSepGoes(d))
           v == d2.tx_activity_count > 0 \/ SentRsp(d) # <<>>
                  \/ SentDat(d) # <<>>
<1>1. Book(d1, U, 0) /\ Backed(d1) /\ Sending(d, d1)
  BY SendRspBook DEF SentRsp
<1> HIDE DEF d1
<1>2. Book(d2, U, 0) /\ Backed(d2) /\ Sending(d1, d2)
  BY <1>1, SendDatBook
<1>3. g = [d2 EXCEPT !.txsactive = v] BY DEF drive_sends, d1
<1>4. v \in BOOLEAN OBVIOUS
<1> HIDE DEF d2, v
<1>5. d2 \in Driver BY <1>2 DEF Book
<1>6. g \in Driver BY ONLY <1>3, <1>4, <1>5, Zenon DEF Driver
<1>7. /\ SameQueues(d2, g) /\ Sending(d2, g)
      /\ g.send_credits = d2.send_credits
  BY <1>3, <1>5 DEF SameQueues, Sending, Driver
<1>8. Book(g, U, 0) BY <1>2, <1>6, <1>7, SameBook
<1>9. Backed(g) BY <1>2, <1>7 DEF Backed, SameQueues, Sending
<1> QED BY <1>1, <1>2, <1>7, <1>8, <1>9, SendingTransitive

-----------------------------------------------------------------------------
(* What the peer sees.                                                     *)

LEMMA OpsType ==
  ASSUME NEW r \in Seq(RspFlit)
  PROVE  /\ [i \in DOMAIN r |-> r[i].op] \in Seq(RspOp)
         /\ Len([i \in DOMAIN r |-> r[i].op]) = Len(r)
<1>1. DOMAIN r = 1 .. Len(r) /\ Len(r) \in Nat OBVIOUS
<1>2. ASSUME NEW i \in DOMAIN r PROVE r[i].op \in RspOp
  <2>1. r[i] \in RspFlit OBVIOUS
  <2> QED BY <2>1 DEF RspFlit
<1>3. [i \in DOMAIN r |-> r[i].op] \in [1 .. Len(r) -> RspOp]
  BY <1>1, <1>2
<1> QED BY <1>1, <1>3

LEMMA SeenIs ==
  ASSUME NEW t \in Txn, NEW n, NEW rsp \in Seq(RspFlit),
         NEW dat \in Seq(DatFlit), NEW sent \in BOOLEAN,
         sent => t.owed > 0, NEW u, u = Seen(t, n, rsp, dat, sent)
  PROVE  /\ u \in Txn /\ u.kind = t.kind
         /\ IF rsp # <<>> /\ Head(rsp).num = n
            THEN /\ u.rsp # <<>>
                 /\ Grants(Head(rsp)) /\ t.kind.op = "WRITE" =>
                      u.owed = t.kind.beats
            ELSE /\ u.rsp = t.rsp
                 /\ u.owed = t.owed - (IF sent THEN 1 ELSE 0)
<1> DEFINE r == For(rsp, n)
           b == For(dat, n)
           w == r # <<>> /\ Grants(r[1]) /\ t.kind.op = "WRITE"
           ops == [i \in DOMAIN r |-> r[i].op]
           told == \E i \in DOMAIN (r \o b) : (r \o b)[i].err = "NDERR"
           z1 == t.rsp \o ops
           z2 == t.dat + Len(b)
           z3 == t.nderr \/ told
           z4 == IF w THEN t.kind.beats ELSE t.owed - IF sent THEN 1 ELSE 0
<1>1. /\ t.kind \in Request /\ t.rsp \in Seq(RspOp) /\ t.dat \in Nat
      /\ t.owed \in Nat /\ t.nderr \in BOOLEAN
  BY DEF Txn
<1>2. t.kind.beats \in Nat BY <1>1 DEF Request
<1>3. r \in Seq(RspFlit) /\ b \in Seq(DatFlit) BY DEF For
<1>4. u = [t EXCEPT !.rsp = z1, !.dat = z2, !.nderr = z3, !.owed = z4]
  BY DEF Seen
<1>5. (IF rsp # <<>> /\ Head(rsp).num = n THEN r = rsp ELSE r = <<>>)
  BY DEF For
<1> HIDE DEF r, b
<1>6. ops \in Seq(RspOp) /\ Len(ops) = Len(r) BY <1>3, OpsType
<1>7. r = <<>> => ops = <<>>
  <2>1. r = <<>> => Len(ops) = 0 BY <1>6
  <2> HIDE DEF ops
  <2> QED BY <1>6, <2>1
<1>8. r # <<>> => ops # <<>>
  <2>1. r # <<>> => Len(r) # 0 BY <1>3
  <2> HIDE DEF ops
  <2> QED BY <1>6, <2>1
<1> HIDE DEF ops, told
<1>9. z1 \in Seq(RspOp) BY <1>1, <1>6, ConcatProperties
<1>10. z2 \in Nat
  <2>1. Len(b) \in Nat BY <1>3, LenProperties
  <2> HIDE DEF b
  <2> QED BY <1>1, <2>1
<1>11. z3 \in BOOLEAN OBVIOUS
<1>12. z4 \in Nat BY <1>1, <1>2
<1>13. /\ r = <<>> => z1 = t.rsp /\ z4 = t.owed - (IF sent THEN 1 ELSE 0)
       /\ r # <<>> => z1 # <<>>
       /\ r # <<>> /\ Grants(r[1]) /\ t.kind.op = "WRITE" =>
            z4 = t.kind.beats
  <2>1. r = <<>> => z1 = t.rsp BY <1>1, <1>7, ConcatEmptySeq
  <2>2. r # <<>> => z1 # <<>>
    BY <1>1, <1>6, <1>8, ConcatEqualIffEmpty
  <2> QED BY <2>1, <2>2
<1> HIDE DEF z1, z2, z3, z4, w
<1>14. u \in Txn
  BY ONLY <1>4, <1>9, <1>10, <1>11, <1>12, t \in Txn, Zenon DEF Txn
<1>15. u.kind = t.kind /\ u.rsp = z1 /\ u.owed = z4
  BY <1>4 DEF Txn
<1>16. CASE rsp # <<>> /\ Head(rsp).num = n
  <2>1. r = rsp BY <1>5, <1>16
  <2>2. Head(rsp) = r[1] /\ r # <<>> BY <1>16, <2>1
  <2> QED BY <1>13, <1>14, <1>15, <1>16, <2>2
<1>17. CASE ~(rsp # <<>> /\ Head(rsp).num = n)
  <2>1. r = <<>> BY <1>5, <1>17
  <2> QED BY <1>13, <1>14, <1>15, <1>17, <2>1
<1> QED BY <1>16, <1>17

(* What one edge changes at the peer: the transactions, by what it sees on  *)
(* the response channel, and its credits, by the grants and its requests.  *)
Observed(in, T, granted, rsp, p) ==
  /\ p \in Peer
  /\ Len(p.txn) = Len(T)
  /\ \A i \in DOMAIN T :
       IF rsp # <<>> /\ i = Head(rsp).num
       THEN Received(T[i], p.txn[i], Head(rsp))
       ELSE SameTxn(T[i], p.txn[i])
  /\ \A c \in Channel :
       p.credits[c] = peer.credits[c] + (IF c \in granted THEN 1 ELSE 0)
                                      - (IF c \in Spent(in) THEN 1 ELSE 0)
  /\ p.returned = peer.returned + (IF in.req = Return THEN 1 ELSE 0)

LEMMA ObserveIs ==
  ASSUME peer \in Peer, drv \in Driver, NEW in, Sane(in), NEW granted,
         NEW rsp \in Seq(RspFlit), NEW dat \in Seq(DatFlit),
         NEW p, p = Observe(in, granted, rsp, dat)
  PROVE  Observed(in, Paid(in), granted, rsp, p)
<1> DEFINE T == Asked(in)
           U == Paid(in)
           sent(i) == in.dat = Data /\ in.datnum = i
           V == [i \in DOMAIN T |-> Seen(T[i], i, rsp, dat, sent(i))]
           C == [c \in Channel |->
                   peer.credits[c] + (IF c \in granted THEN 1 ELSE 0)
                                   - (IF c \in Spent(in) THEN 1 ELSE 0)]
           n == peer.returned + IF in.req = Return THEN 1 ELSE 0
<1>1. p = [rxlinkactivereq |-> in.link, credits |-> C, returned |-> n,
           txn |-> V]
  BY DEF Observe, Asked
<1>2. /\ U \in Seq(Txn) /\ Len(U) = Len(T) /\ DOMAIN U = DOMAIN T
      /\ \A i \in DOMAIN T :
           /\ U[i].kind = T[i].kind /\ U[i].rsp = T[i].rsp
           /\ U[i].owed = T[i].owed - (IF sent(i) THEN 1 ELSE 0)
      /\ in.dat = Data => in.datnum \in DOMAIN T /\ T[in.datnum].owed > 0
  BY PaidIs
<1>3. T \in Seq(Txn) BY AskedIs
<1>4. peer.credits \in [Channel -> Nat] /\ peer.returned \in Nat BY DEF Peer
<1>5. in.link \in BOOLEAN /\ \A c \in Spent(in) : peer.credits[c] > 0
  BY DEF Sane
<1> HIDE DEF T, U
<1>6. ASSUME NEW i \in DOMAIN T
      PROVE  /\ V[i] \in Txn
             /\ IF rsp # <<>> /\ i = Head(rsp).num
                THEN Received(U[i], V[i], Head(rsp))
                ELSE SameTxn(U[i], V[i])
  <2>1. T[i] \in Txn BY <1>3
  <2>2. V[i] = Seen(T[i], i, rsp, dat, sent(i)) OBVIOUS
  <2> DEFINE s == sent(i)
             t == T[i]
             u == V[i]
  <2>3. s \in BOOLEAN /\ (s => t.owed > 0) BY <1>2
  <2>4. u = Seen(t, i, rsp, dat, s) BY <2>2
  <2>5. /\ U[i].kind = t.kind /\ U[i].rsp = t.rsp
        /\ U[i].owed = t.owed - (IF s THEN 1 ELSE 0)
    BY <1>2
  <2> HIDE DEF s, t, u
  <2>6. /\ u \in Txn /\ u.kind = t.kind
        /\ IF rsp # <<>> /\ Head(rsp).num = i
           THEN /\ u.rsp # <<>>
                /\ Grants(Head(rsp)) /\ t.kind.op = "WRITE" =>
                     u.owed = t.kind.beats
           ELSE /\ u.rsp = t.rsp
                /\ u.owed = t.owed - (IF s THEN 1 ELSE 0)
    <3>1. t \in Txn BY <2>1 DEF t
    <3> QED
      BY ONLY <2>3, <2>4, <3>1, SeenIs, rsp \in Seq(RspFlit),
              dat \in Seq(DatFlit)
  <2>7. u = V[i] BY DEF u
  <2> HIDE DEF V
  <2>8. CASE rsp # <<>> /\ Head(rsp).num = i
    BY <2>5, <2>6, <2>7, <2>8 DEF Received
  <2>9. CASE ~(rsp # <<>> /\ Head(rsp).num = i)
    BY <2>5, <2>6, <2>7, <2>9 DEF SameTxn
  <2> QED BY <2>6, <2>7, <2>8, <2>9
<1>7. V \in Seq(Txn) /\ Len(V) = Len(T)
  <2>1. DOMAIN T = 1 .. Len(T) /\ Len(T) \in Nat BY <1>3
  <2>2. \A i \in DOMAIN T : V[i] \in Txn BY <1>6
  <2>3. V \in [1 .. Len(T) -> Txn] BY <2>1, <2>2
  <2> HIDE DEF V
  <2> QED BY <2>1, <2>3
<1>8. C \in [Channel -> Nat] BY <1>4, <1>5
<1>9. n \in Nat BY <1>4
<1>10. \A c \in Channel :
         C[c] = peer.credits[c] + (IF c \in granted THEN 1 ELSE 0)
                                - (IF c \in Spent(in) THEN 1 ELSE 0)
  OBVIOUS
<1>11. n = peer.returned + (IF in.req = Return THEN 1 ELSE 0) OBVIOUS
<1> HIDE DEF C, n, V
<1>12. p \in Peer
  BY ONLY <1>1, <1>5, <1>7, <1>8, <1>9, Zenon DEF Peer
<1>13. p.txn = V /\ p.credits = C /\ p.returned = n BY <1>1
<1>14. /\ p \in Peer /\ Len(p.txn) = Len(U)
       /\ \A i \in DOMAIN U :
            IF rsp # <<>> /\ i = Head(rsp).num
            THEN Received(U[i], p.txn[i], Head(rsp))
            ELSE SameTxn(U[i], p.txn[i])
       /\ \A c \in Channel :
            p.credits[c] = peer.credits[c] + (IF c \in granted THEN 1 ELSE 0)
                                    - (IF c \in Spent(in) THEN 1 ELSE 0)
       /\ p.returned = peer.returned + (IF in.req = Return THEN 1 ELSE 0)
  BY <1>2, <1>6, <1>7, <1>10, <1>11, <1>12, <1>13
<1>15. Observed(in, U, granted, rsp, p) BY ONLY <1>14, Zenon DEF Observed
<1> QED BY <1>15 DEF U

-----------------------------------------------------------------------------
(* The steps.                                                              *)

(* The link leaves the credits in balance; a credit that came has room.    *)
LEMMA LinkCredits ==
  ASSUME ChiInv, NEW in, Sane(in), NEW d, d = link(drv, in)
  PROVE  /\ Book(d, peer.txn, 0) /\ Backed(d)
         /\ Balanced(d, peer.credits, peer.returned)
<1>1. drv \in Driver /\ Book(drv, peer.txn, 0) BY DEF ChiInv, Book
<1>2. /\ d \in Driver /\ Aside(drv, d)
      /\ d.link_active = (drv.link_active \/ in.link)
      /\ \A c \in Channel :
           d.grant_pending[c]
             = drv.grant_pending[c]
                 + (IF ~drv.link_active /\ in.link
                    THEN drv.cfg.initial_credits ELSE 0)
      /\ \A c \in {"rsp", "dat"} :
           d.send_credits[c]
             = drv.send_credits[c] + (IF c \in in.lcrdv THEN 1 ELSE 0)
  <2>1. in.link \in BOOLEAN BY DEF Sane
  <2> QED BY <1>1, <2>1, LinkIs
<1>3. Book(d, peer.txn, 0) BY <1>1, <1>2, AsideBook
<1>4. Backed(d)
  <2>1. /\ drv.send_credits["rsp"] \in Nat /\ drv.send_credits["dat"] \in Nat
        /\ Len(drv.rsp_announce) \in Nat /\ Len(drv.dat_announce) \in Nat
        /\ drv.cfg.peer_credits \in Nat
        /\ Len(drv.rsp_announce) <= drv.send_credits["rsp"]
        /\ drv.send_credits["rsp"] <= drv.cfg.peer_credits
        /\ Len(drv.dat_announce) <= drv.send_credits["dat"]
        /\ drv.send_credits["dat"] <= drv.cfg.peer_credits
    BY <1>1, CreditTypes DEF ChiInv
  <2>2. \A c \in in.lcrdv : drv.send_credits[c] < drv.cfg.peer_credits
    BY DEF Sane, Room
  <2>3. /\ d.send_credits["rsp"]
             = drv.send_credits["rsp"] + (IF "rsp" \in in.lcrdv THEN 1 ELSE 0)
        /\ d.send_credits["dat"]
             = drv.send_credits["dat"] + (IF "dat" \in in.lcrdv THEN 1 ELSE 0)
    BY <1>2
  <2>4. /\ d.cfg = drv.cfg /\ d.rsp_announce = drv.rsp_announce
        /\ d.dat_announce = drv.dat_announce
    BY <1>2 DEF Aside, SameQueues
  <2>5. d.send_credits["rsp"] \in Len(drv.rsp_announce) .. drv.cfg.peer_credits
    BY ONLY <2>1, <2>2, <2>3
  <2>6. d.send_credits["dat"] \in Len(drv.dat_announce) .. drv.cfg.peer_credits
    BY ONLY <2>1, <2>2, <2>3
  <2> QED BY ONLY <2>4, <2>5, <2>6 DEF Backed
<1>5. Balanced(d, peer.credits, peer.returned)
  <2>1. Balanced(drv, peer.credits, peer.returned) BY DEF ChiInv
  <2>2. d.cfg = drv.cfg BY <1>2 DEF Aside
  <2>3. drv.cfg.initial_credits \in Nat BY <1>1, DriverTypes, CfgTypes
  <2>4. drv.grant_pending \in [Channel -> Nat] BY <1>1, DriverTypes
  <2>5. CASE drv.link_active
    <3>1. d.link_active BY <1>2, <2>5
    <3>2. \A c \in Channel : d.grant_pending[c] = drv.grant_pending[c]
      BY <1>2, <2>4, <2>5
    <3> QED BY <2>1, <2>2, <2>5, <3>1, <3>2 DEF Balanced
  <2>6. CASE ~drv.link_active /\ in.link
    <3>1. d.link_active BY <1>2, <2>6
    <3>2. /\ \A c \in Channel : peer.credits[c] = 0 /\ drv.grant_pending[c] = 0
          /\ peer.returned = 0
      BY <2>1, <2>6 DEF Balanced
    <3>3. \A c \in Channel : d.grant_pending[c] = drv.cfg.initial_credits
      BY <1>2, <2>3, <2>6, <3>2
    <3> QED BY <2>2, <2>3, <3>1, <3>2, <3>3 DEF Balanced
  <2>7. CASE ~drv.link_active /\ ~in.link
    <3>1. ~d.link_active BY <1>2, <2>7
    <3>2. \A c \in Channel : d.grant_pending[c] = drv.grant_pending[c]
      BY <1>2, <2>4, <2>7
    <3> QED BY <2>1, <2>7, <3>1, <3>2 DEF Balanced
  <2> QED BY <2>5, <2>6, <2>7
<1> QED BY <1>3, <1>4, <1>5

(* What is spent comes back, but for a credit returned on REQ.             *)
LEMMA BalanceKept ==
  ASSUME peer \in Peer, NEW in, Sane(in),
         NEW d \in Driver, NEW f \in Driver, NEW g, NEW p,
         Balanced(d, peer.credits, peer.returned),
         Still(d, f), g.cfg = f.cfg, g.link_active = f.link_active,
         \A b \in Channel :
           f.grant_pending[b]
             = d.grant_pending[b] + (IF b \in Regranted(in) THEN 1 ELSE 0),
         \A b \in Channel :
           g.grant_pending[b]
             = f.grant_pending[b] - (IF b \in Granted(f) THEN 1 ELSE 0),
         \A b \in Channel :
           p.credits[b] = peer.credits[b] + (IF b \in Granted(f) THEN 1 ELSE 0)
                                          - (IF b \in Spent(in) THEN 1 ELSE 0),
         p.returned = peer.returned + (IF in.req = Return THEN 1 ELSE 0)
  PROVE  Balanced(g, p.credits, p.returned)
<1>1. /\ peer.credits \in [Channel -> Nat] /\ peer.returned \in Nat
      /\ \A c \in Spent(in) : peer.credits[c] > 0
  BY DEF Peer, Sane
<1>2. d.grant_pending \in [Channel -> Nat] /\ d.cfg.initial_credits \in Nat
  BY DriverTypes, CfgTypes
<1>3. g.cfg = d.cfg /\ g.link_active = d.link_active BY DEF Still
<1>4. in.req = Return => "req" \in Spent(in)
  <2>1. None # Return
    <3>1. None.op = "none" /\ Return.op = "return" BY DEF None, Return
    <3> QED BY <3>1
  <2> QED BY <2>1 DEF Spent, Channel
<1>5. CASE d.link_active
  <2>1. ASSUME NEW c \in Channel
        PROVE  p.credits[c] + g.grant_pending[c]
                 = g.cfg.initial_credits
                     - (IF c = "req" THEN p.returned ELSE 0)
    <3>1. peer.credits[c] + d.grant_pending[c]
            = d.cfg.initial_credits - (IF c = "req" THEN peer.returned ELSE 0)
      BY <1>5 DEF Balanced
    <3> DEFINE k == peer.credits[c]
               h == d.grant_pending[c]
               y == IF c \in Granted(f) THEN 1 ELSE 0
               s == IF c \in Spent(in) THEN 1 ELSE 0
               r == IF c \in Regranted(in) THEN 1 ELSE 0
               m == peer.returned
               n == d.cfg.initial_credits
               z == IF in.req = Return THEN 1 ELSE 0
    <3>2. k \in Nat /\ h \in Nat /\ m \in Nat /\ n \in Nat
          /\ y \in Int /\ s \in Int /\ r \in Int /\ z \in Int
      BY <1>1, <1>2
    <3>3. p.credits[c] = k + y - s OBVIOUS
    <3>4. g.grant_pending[c] = (h + r) - y OBVIOUS
    <3>5. p.returned = m + z OBVIOUS
    <3>6. s - r = IF c = "req" THEN z ELSE 0
      <4>1. CASE c = "req" /\ in.req = Return
        BY <1>4, <4>1 DEF Regranted
      <4>2. CASE ~(c = "req" /\ in.req = Return)
        <5>1. s = r BY <4>2 DEF Regranted
        <5>2. (IF c = "req" THEN z ELSE 0) = 0 BY <4>2
        <5> HIDE DEF s, r
        <5> QED BY <3>2, <5>1, <5>2
      <4> QED BY <4>1, <4>2
    <3>7. k + h = n - (IF c = "req" THEN m ELSE 0) BY <3>1
    <3>8. g.cfg.initial_credits = n BY <1>3
    <3> HIDE DEF k, h, y, s, r, m, n, z
    <3> QED BY ONLY <3>2, <3>3, <3>4, <3>5, <3>6, <3>7, <3>8
  <2> QED BY <1>3, <1>5, <2>1 DEF Balanced
<1>6. CASE ~d.link_active
  <2>1. /\ \A c \in Channel : peer.credits[c] = 0 /\ d.grant_pending[c] = 0
        /\ peer.returned = 0
    BY <1>6 DEF Balanced
  <2>2. \A c \in Channel : c \notin Spent(in) BY <1>1, <2>1
  <2>3. \A c \in Channel : c \notin Regranted(in) BY <2>2 DEF Regranted
  <2>4. in.req # Return BY <1>4, <2>2 DEF Channel
  <2>5. \A c \in Channel : f.grant_pending[c] = 0 BY <2>1, <2>3
  <2>6. \A c \in Channel : c \notin Granted(f) BY <2>5 DEF Granted
  <2>7. \A c \in Channel : p.credits[c] = 0 /\ g.grant_pending[c] = 0
    BY <2>1, <2>2, <2>5, <2>6
  <2>8. p.returned = 0 BY <2>1, <2>4
  <2> QED BY <1>3, <1>6, <2>7, <2>8 DEF Balanced
<1> QED BY <1>5, <1>6

LEMMA EdgeKeeps ==
  ASSUME ChiInv, NEW in, Sane(in), Edge(in)
  PROVE  ChiInv'
<1> PICK f \in {receive(link(drv, in), in)} :
      /\ drv' = drive_sends(drive_credit_grants(f), in)
      /\ peer' = Observe(in, Granted(f), SentRsp(f), SentDat(f))
  BY DEF Edge
<1> DEFINE d == link(drv, in)
           h == drive_credit_grants(f)
           g == drive_sends(h, in)
           p == Observe(in, Granted(f), SentRsp(f), SentDat(f))
           T == Paid(in)
<1>1. f = receive(d, in) OBVIOUS
<1>2. drv' = g /\ peer' = p OBVIOUS
<1>3. peer \in Peer /\ drv \in Driver BY DEF ChiInv, Book
<1>4. /\ Book(d, peer.txn, 0) /\ Backed(d)
      /\ Balanced(d, peer.credits, peer.returned)
  BY LinkCredits
<1> HIDE DEF d
<1>5. /\ Book(f, T, 0) /\ Still(d, f)
      /\ \A b \in Channel :
           f.grant_pending[b]
             = d.grant_pending[b] + (IF b \in Regranted(in) THEN 1 ELSE 0)
  BY <1>1, <1>3, <1>4, ReceiveBook
<1>6. /\ f \in Driver /\ d \in Driver /\ T \in Seq(Txn)
      /\ Len(f.rsp_announce) <= 1
  BY <1>4, <1>5 DEF Book
<1>7. /\ h \in Driver /\ Aside(f, h) /\ h.link_active = f.link_active
      /\ h.send_credits = f.send_credits
      /\ \A c \in Channel :
           h.grant_pending[c]
             = f.grant_pending[c] - (IF c \in Granted(f) THEN 1 ELSE 0)
  BY <1>6, GrantIs
<1>8. SentRsp(f) \in Seq(RspFlit) /\ SentDat(f) \in Seq(DatFlit)
  BY <1>6, OutTypes DEF SentRsp, SentDat
<1>9. /\ p \in Peer /\ Len(p.txn) = Len(T)
      /\ \A i \in DOMAIN T :
           IF SentRsp(f) # <<>> /\ i = Head(SentRsp(f)).num
           THEN Received(T[i], p.txn[i], Head(SentRsp(f)))
           ELSE SameTxn(T[i], p.txn[i])
      /\ \A c \in Channel :
           p.credits[c] = peer.credits[c]
                            + (IF c \in Granted(f) THEN 1 ELSE 0)
                            - (IF c \in Spent(in) THEN 1 ELSE 0)
      /\ p.returned = peer.returned + (IF in.req = Return THEN 1 ELSE 0)
  <2> DEFINE a == SentRsp(f)
             b == SentDat(f)
             w == Granted(f)
  <2>1. p = Observe(in, w, a, b) OBVIOUS
  <2>2. a \in Seq(RspFlit) /\ b \in Seq(DatFlit) BY <1>8
  <2> HIDE DEF p, T, a, b, w
  <2>3. a \in Seq(RspFlit) BY <2>2
  <2>4. b \in Seq(DatFlit) BY <2>2
  <2>5. peer \in Peer BY <1>3
  <2>6. drv \in Driver BY <1>3
  <2>7. Observed(in, Paid(in), w, a, p)
    BY ONLY <2>1, <2>3, <2>4, <2>5, <2>6, ObserveIs, Sane(in), Zenon
  <2>8. Observed(in, T, w, a, p) BY <2>7 DEF T
  <2> QED BY <2>8 DEF a, w, Observed
<1> HIDE DEF h, g, p, T
<1>10. p.txn \in Seq(Txn) BY <1>9 DEF Peer
<1>11. Book(h, T, 0) BY <1>5, <1>7, AsideBook
<1>12. Backed(h) BY <1>4, <1>5, <1>7 DEF Backed, Still, Aside, SameQueues
<1>13. Hears(h, T, p.txn, SentRsp(h))
  <2>1. SentRsp(h) = SentRsp(f) BY <1>7 DEF SentRsp, Aside, SameQueues
  <2>2. \A i \in DOMAIN h.wr_await_q : h.wr_await_q[i].num \in DOMAIN T
    <3> TAKE i \in DOMAIN h.wr_await_q
    <3>1. h.wr_await_q[i] \in Entry BY <1>7, OutTypes
    <3>2. h.wr_await_q[i].num \in Nat \ {0} BY <3>1 DEF Entry
    <3>3. h.wr_await_q[i].num <= Len(T) BY <1>11 DEF Book, Views, Known
    <3> QED BY <1>6, <3>2, <3>3
  <2> QED BY <1>9, <2>1, <2>2 DEF Hears
<1>14. Book(g, p.txn, 0) /\ Backed(g) /\ Sending(h, g)
  <2>1. Len(T) = Len(p.txn) BY <1>9
  <2>2. g = drive_sends(h, in) BY DEF g, h
  <2> QED BY <1>10, <1>11, <1>12, <1>13, <2>1, <2>2, SendsBook
<1>15. Balanced(g, p.credits, p.returned)
  <2>1. g.cfg = f.cfg /\ g.link_active = f.link_active
        /\ g.grant_pending = h.grant_pending
    BY <1>7, <1>14 DEF Sending, Aside
  <2>2. \A b \in Channel :
          g.grant_pending[b]
            = f.grant_pending[b] - (IF b \in Granted(f) THEN 1 ELSE 0)
    BY <1>7, <2>1
  <2>3. g.cfg = f.cfg /\ g.link_active = f.link_active BY <2>1
  <2> QED BY <1>3, <1>4, <1>5, <1>6, <1>9, <2>2, <2>3, BalanceKept
<1> QED BY <1>2, <1>9, <1>14, <1>15 DEF ChiInv

LEMMA AnswerKeeps ==
  ASSUME ChiInv, NEW e \in drv.req_port, NEW err \in {"OKAY", "DERR"},
         Answer(e, err)
  PROVE  ChiInv'
<1> DEFINE g == complete([drv EXCEPT !.req_port = @ \ {e}], e, err)
<1>1. drv' = g /\ peer' = peer BY DEF Answer
<1>2. Book(drv, peer.txn, 0) BY DEF ChiInv
<1>3. Book(g, peer.txn, 0) /\ Kept(drv, g) BY <1>2, CompleteBook
<1> HIDE DEF g
<1>4. Balanced(g, peer.credits, peer.returned) /\ Backed(g)
  BY <1>3 DEF ChiInv, Balanced, Backed, Kept
<1>5. peer \in Peer BY DEF ChiInv
<1> QED BY <1>1, <1>3, <1>4, <1>5 DEF ChiInv

(* After a reset nothing is under way.                                     *)
LEMMA IdleBook ==
  ASSUME NEW c \in Cfg, NEW d, d = Idle(c)
  PROVE  /\ PeerIdle \in Peer
         /\ Book(d, PeerIdle.txn, 0)
         /\ Balanced(d, PeerIdle.credits, PeerIdle.returned)
         /\ Backed(d)
<1>1. /\ d.cfg = c /\ d.link_active = FALSE
      /\ d.grant_pending = [b \in Channel |-> 0]
      /\ d.send_credits = [b \in {"rsp", "dat"} |-> 0]
      /\ d.wr_await_q = <<>> /\ d.rsp_send_q = <<>> /\ d.dat_send_q = <<>>
      /\ d.rsp_announce = <<>> /\ d.dat_announce = <<>>
      /\ d.tx_activity_count = 0 /\ d.req_port = {}
  BY DEF Idle
<1>2. d \in Driver
  <2> DEFINE G == [b \in Channel |-> 0]
             S == [b \in {"rsp", "dat"} |-> 0]
  <2>1. G \in [Channel -> Nat] /\ S \in [{"rsp", "dat"} -> Nat] OBVIOUS
  <2>2. /\ <<>> \in Seq(Entry) /\ <<>> \in Seq(RspFlit)
        /\ <<>> \in Seq(DatFlit)
    OBVIOUS
  <2>3. d = [cfg |-> c, txlinkactivereq |-> FALSE, txlinkactiveack |-> FALSE,
             link_active |-> FALSE, grant_pending |-> G, send_credits |-> S,
             wr_await_q |-> <<>>, rsp_send_q |-> <<>>, dat_send_q |-> <<>>,
             rsp_announce |-> <<>>, dat_announce |-> <<>>,
             tx_activity_count |-> 0, txsactive |-> FALSE, req_port |-> {}]
    BY DEF Idle
  <2> HIDE DEF G, S
  <2>4. 0 \in Nat /\ FALSE \in BOOLEAN /\ {} \in SUBSET Entry OBVIOUS
  <2> QED BY ONLY <2>1, <2>2, <2>3, <2>4, c \in Cfg DEF Driver
<1>3. PeerIdle \in Peer
  <2>1. <<>> \in Seq(Txn) OBVIOUS
  <2> QED BY <2>1 DEF PeerIdle, Peer
<1>4. /\ PeerIdle.txn = <<>> /\ PeerIdle.returned = 0
      /\ PeerIdle.credits = [b \in Channel |-> 0]
  BY DEF PeerIdle
<1>5. ROut(d) = <<>> /\ DOut(d) = <<>> BY <1>1 DEF ROut, DOut
<1>6. Views(<<>>, {}, <<>>, <<>>, 0, <<>>, 0)
  <2>1. Marks(<<>>, Closing) = {} /\ Marks(<<>>, LastBeat) = {}
    BY DEF Marks
  <2>2. OpenSet(<<>>, {}) = {} BY DEF OpenSet, SeqSet
  <2>3. Cardinality({}) = 0 /\ IsFiniteSet({}) BY FS_EmptySet
  <2>4. Activity(<<>>, {}, <<>>, <<>>, 0, 0)
    <3> DEFINE a == Cardinality(Marks(<<>>, Closing))
               b == Cardinality(Marks(<<>>, LastBeat))
               k == Cardinality(OpenSet(<<>>, {}))
    <3>1. a = 0 /\ b = 0 /\ k = 0 BY <2>1, <2>2, <2>3
    <3> HIDE DEF a, b, k
    <3>2. 0 = a + b + k + 0 BY ONLY <3>1
    <3> QED BY <2>3, <3>2, Zenon DEF Activity, a, b, k
  <2> QED BY <2>4 DEF Views, Distinct, Known, Writes
<1>7. Book(d, PeerIdle.txn, 0)
  <2>1. Len(d.rsp_announce) <= 1 /\ Len(d.dat_announce) <= 1 BY <1>1
  <2>2. <<>> \in Seq(Txn) OBVIOUS
  <2> QED BY <1>1, <1>2, <1>4, <1>5, <1>6, <2>1, <2>2 DEF Book
<1>8. Balanced(d, PeerIdle.credits, PeerIdle.returned)
  BY <1>1, <1>4 DEF Balanced
<1>9. Backed(d)
  <2>1. c.peer_credits \in Nat BY CfgTypes
  <2> QED BY <1>1, <2>1 DEF Backed
<1> QED BY <1>3, <1>7, <1>8, <1>9

(***************************************************************************)
(* The books of requests and of credits always agree with what is queued,  *)
(* announced and on the link (run_phase and complete of                    *)
(* vip_mc_chi_driver).                                                     *)
(***************************************************************************)
THEOREM ChiBooksKept == Spec => []ChiInv
<1>1. Init => ChiInv
  <2> SUFFICES ASSUME Init PROVE ChiInv OBVIOUS
  <2>1. PICK c \in Cfg : drv = Idle(c) BY DEF Init
  <2>2. peer = PeerIdle BY DEF Init
  <2> QED BY <2>1, <2>2, IdleBook DEF ChiInv
<1>2. ChiInv /\ [Next]_vars => ChiInv'
  <2> SUFFICES ASSUME ChiInv, [Next]_vars PROVE ChiInv' OBVIOUS
  <2>0. peer \in Peer /\ drv \in Driver BY DEF ChiInv, Book
  <2>1. ASSUME NEW in \in Input(SUBSET Room, Spendable("req", Requests)),
               Edge(in)
        PROVE  ChiInv'
    BY <2>0, <2>1, InputSane, EdgeKeeps
  <2>2. ASSUME NEW e \in drv.req_port, NEW err \in {"OKAY", "DERR"},
               Answer(e, err)
        PROVE  ChiInv'
    BY <2>2, AnswerKeeps
  <2>3. CASE Reset
    <3>1. drv' = Idle(drv.cfg) /\ peer' = PeerIdle BY <2>3 DEF Reset
    <3>2. drv.cfg \in Cfg BY <2>0, DriverTypes
    <3> QED BY <3>1, <3>2, IdleBook DEF ChiInv
  <2>4. CASE UNCHANGED vars BY <2>4 DEF ChiInv, vars
  <2> QED BY <2>1, <2>2, <2>3, <2>4 DEF Next
<1> QED BY <1>1, <1>2, PTL DEF Spec

(***************************************************************************)
(* Credits are neither made nor lost, across any number of link            *)
(* activations, and a flit that is announced has its credit                *)
(* (drive_credit_grants, drive_sends).                                     *)
(***************************************************************************)
THEOREM CreditsAreConserved == Spec => []CreditsConserved
<1>1. ChiInv => CreditsConserved
  BY DEF ChiInv, Balanced, Backed, CreditsConserved
<1> QED BY <1>1, ChiBooksKept, PTL

(***************************************************************************)
(* The counter behind TXSACTIVE counts exactly the final flits still to be *)
(* sent, however requests, data, answers and credits interleave            *)
(* (drive_sends).                                                          *)
(***************************************************************************)
THEOREM ActivityIsExact == Spec => []ActivityExact
<1>1. ChiInv => ActivityExact
  <2> SUFFICES ASSUME ChiInv PROVE ActivityExact OBVIOUS
  <2>1. drv \in Driver
        /\ Activity(drv.wr_await_q, drv.req_port, ROut(drv), DOut(drv),
                    drv.tx_activity_count, 0)
    BY DEF ChiInv, Book, Views
  <2>2. ROut(drv) \in Seq(RspFlit) /\ DOut(drv) \in Seq(DatFlit)
        /\ drv.wr_await_q \in Seq(Entry)
    BY <2>1, OutTypes
  <2>3. RspOut = ROut(drv) /\ DatOut = DOut(drv)
    BY DEF RspOut, DatOut, ROut, DOut
  <2>4. Marks(ROut(drv), Closing)
          = {i \in DOMAIN RspOut : rsp_flit_closes_activity(RspOut[i])}
    BY <2>2, <2>3 DEF Marks, Closing
  <2>5. Marks(DOut(drv), LastBeat) = {i \in DOMAIN DatOut : DatOut[i].last}
    BY <2>2, <2>3 DEF Marks, LastBeat
  <2>6. OpenSet(drv.wr_await_q, drv.req_port)
          = {e \in Unfinished : IsRead(e) \/ e.split}
    BY DEF OpenSet, Open, Unfinished
  <2>7. /\ Cardinality(Marks(ROut(drv), Closing)) \in Nat
        /\ Cardinality(Marks(DOut(drv), LastBeat)) \in Nat
    BY <2>2, MarksFinite
  <2>8. Cardinality(OpenSet(drv.wr_await_q, drv.req_port)) \in Nat
    BY <2>1, <2>2, OpenFinite DEF Activity
  <2>9. drv.tx_activity_count
          = Cardinality(Marks(ROut(drv), Closing))
              + Cardinality(Marks(DOut(drv), LastBeat))
              + Cardinality(OpenSet(drv.wr_await_q, drv.req_port))
    BY <2>1, <2>7, <2>8 DEF Activity
  <2> QED BY <2>4, <2>5, <2>6, <2>9 DEF ActivityExact, Count
<1> QED BY <1>1, ChiBooksKept, PTL

(***************************************************************************)
(* The data of several granted writes may interleave: each beat is counted *)
(* with its own write, and the backend gets a write when all of its data   *)
(* is there (handle_write_data).                                           *)
(***************************************************************************)
THEOREM WriteDataIsWhole == Spec => []WriteDataWhole
<1>1. ChiInv => WriteDataWhole
  <2> SUFFICES ASSUME ChiInv PROVE WriteDataWhole OBVIOUS
  <2>1. Writes(drv.wr_await_q, drv.req_port, ROut(drv), peer.txn)
    BY DEF ChiInv, Book, Views
  <2>2. ASSUME NEW i \in DOMAIN drv.wr_await_q
        PROVE  LET e == drv.wr_await_q[i]
               IN peer.txn[e.num].rsp # <<>> =>
                    e.seen + peer.txn[e.num].owed = e.beats
    BY <2>1 DEF Writes, Waits, Granting
  <2> QED BY <2>1, <2>2 DEF WriteDataWhole, SeqSet, Writes
<1> QED BY <1>1, ChiBooksKept, PTL

-----------------------------------------------------------------------------
(***************************************************************************)
(* The book of answers: for every request the replies that arrived, those  *)
(* on their way and those its waiting entry brings, and its verdict.       *)
(***************************************************************************)

(* The replies to request k when the final response of a write is split    *)
(* from its grant, or not: RspOps, of the configuration.                   *)
Replies(k, split) ==
  CASE k.op = "READ" -> IF k.order THEN <<"READ_RECEIPT">> ELSE <<>>
    [] k.op = "READ_SEP" -> IF k.order
                            THEN <<"READ_RECEIPT", "RESP_SEP_DATA">>
                            ELSE <<"RESP_SEP_DATA">>
    [] k.op = "ATOMIC" -> <<>>
    [] k.op = "WRITE" -> IF split THEN <<"DBID_RESP", "COMP">>
                         ELSE <<"COMP_DBID_RESP">>
    [] k.op = "WRITE_ZERO" -> <<"DBID_RESP", "COMP">>
    [] k.op = "PERSIST_SEP" -> <<"PERSIST", "COMP_PERSIST">>
    [] OTHER -> <<"COMP">>

(* The beats of request n, and whether one of its flits says it is refused.*)
Of(n) == {f \in DatFlit : f.num = n}

ToldIn(q, n) == \E i \in DOMAIN q : q[i].num = n /\ q[i].err = "NDERR"

Told(d, n) == ToldIn(ROut(d), n) \/ ToldIn(DOut(d), n)

(* What is on its way for request n: replies lo + 1 .. hi, c beats, p says *)
(* that an entry waits, b that a flit bears the refusal.                   *)
View(d, n, ops, lo, hi, c, p, b) ==
  /\ InLine(ROut(d), n, ops, lo, hi)
  /\ Cardinality(Marks(DOut(d), Of(n))) = c
  /\ p <=> ~Free(d, n)
  /\ b <=> Told(d, n)

(* What request n, of which the peer keeps t, was given and still gets.    *)
Served(d, n, t, split) ==
  LET ops == Replies(t.kind, split)
      p == ~Free(d, n)
      hi == Len(ops) - HeldBack(ops, p)
  IN /\ Len(t.rsp) <= hi
     /\ \A i \in DOMAIN t.rsp : t.rsp[i] = ops[i]
     /\ InLine(ROut(d), n, ops, Len(t.rsp), hi)
     /\ t.dat + Cardinality(Marks(DOut(d), Of(n)))
          + (IF p THEN DatBeats(t.kind) ELSE 0) = DatBeats(t.kind)
     /\ t.nderr \/ Told(d, n) => Refused(t.kind)
     /\ Refused(t.kind) => t.nderr \/ Told(d, n) \/ HeldBack(ops, p) = 1

(* An entry is what its request makes it; only a write waits that is       *)
(* refused.                                                                *)
Matches(e, k, split) ==
  /\ e.op = k.op /\ e.beats = k.beats
  /\ e.split <=> split \/ k.op # "WRITE"
  /\ e.err = "NDERR" <=> k.err

Entries(d, T, split) ==
  /\ \A i \in DOMAIN d.wr_await_q :
       LET e == d.wr_await_q[i] IN Matches(e, T[e.num].kind, split)
  /\ \A e \in d.req_port :
       /\ Matches(e, T[e.num].kind, split)
       /\ ~T[e.num].kind.err
       /\ e.op \in {"READ", "READ_SEP", "WRITE", "WRITE_ZERO"}
  /\ \A i \in DOMAIN DOut(d) : DOut(d)[i].num <= Len(T)

Answers(d, T, split) ==
  /\ Entries(d, T, split)
  /\ \A n \in DOMAIN T : Served(d, n, T[n], split)

AnswersInv == Answers(drv, peer.txn, drv.cfg.split_write_rsp)

-----------------------------------------------------------------------------
(* The replies to a request.                                               *)

LEMMA RepliesOps ==
  ASSUME NEW k
  PROVE  RspOps(k) = Replies(k, drv.cfg.split_write_rsp)
BY DEF RspOps, Replies

(* A list of two replies at most, no two of them alike.                    *)
Ladder(ops) ==
  /\ ops \in Seq(RspOp) /\ Len(ops) \in 0 .. 2
  /\ \A i, j \in 1 .. Len(ops) : ops[i] = ops[j] => i = j

LEMMA LadderIs ==
  ASSUME NEW x \in RspOp, NEW y \in RspOp, x # y
  PROVE  /\ Ladder(<<>>) /\ Ladder(<<x>>) /\ Ladder(<<x, y>>)
         /\ Len(<<>>) = 0
         /\ Len(<<x>>) = 1 /\ <<x>>[1] = x
         /\ Len(<<x, y>>) = 2 /\ <<x, y>>[1] = x /\ <<x, y>>[2] = y
BY DEF Ladder

LEMMA RepliesLadder ==
  ASSUME NEW k, NEW split
  PROVE  Ladder(Replies(k, split))
<1>1. /\ {"READ_RECEIPT", "RESP_SEP_DATA", "DBID_RESP", "COMP",
          "COMP_DBID_RESP", "PERSIST", "COMP_PERSIST"} \subseteq RspOp
  BY DEF RspOp
<1>2. /\ Ladder(<<>>) /\ Ladder(<<"READ_RECEIPT">>)
      /\ Ladder(<<"READ_RECEIPT", "RESP_SEP_DATA">>)
  <2>1. "READ_RECEIPT" # "RESP_SEP_DATA" OBVIOUS
  <2> QED BY <1>1, <2>1, LadderIs
<1>3. /\ Ladder(<<"RESP_SEP_DATA">>) /\ Ladder(<<"COMP_DBID_RESP">>)
  <2>1. "RESP_SEP_DATA" # "COMP" /\ "COMP_DBID_RESP" # "COMP" OBVIOUS
  <2> QED BY <1>1, <2>1, LadderIs
<1>4. Ladder(<<"DBID_RESP", "COMP">>) /\ Ladder(<<"COMP">>)
  <2>1. "DBID_RESP" # "COMP" /\ "COMP" # "DBID_RESP" OBVIOUS
  <2> QED BY <1>1, <2>1, LadderIs
<1>5. Ladder(<<"PERSIST", "COMP_PERSIST">>)
  <2>1. "PERSIST" # "COMP_PERSIST" OBVIOUS
  <2> QED BY <1>1, <2>1, LadderIs
<1> QED BY <1>2, <1>3, <1>4, <1>5 DEF Replies

-----------------------------------------------------------------------------
(* Replies in line.                                                        *)

LEMMA InLineIs ==
  ASSUME NEW q, NEW n, NEW ops, NEW lo, NEW hi
  PROVE  InLine(q, n, ops, lo, hi) <=>
           /\ \A i \in DOMAIN q : q[i].num = n =>
                \E k \in lo + 1 .. hi : q[i].op = ops[k]
           /\ \A k \in lo + 1 .. hi :
                \E i \in DOMAIN q : q[i].num = n /\ q[i].op = ops[k]
           /\ \A i, j \in DOMAIN q : \A k, l \in lo + 1 .. hi :
                /\ q[i].num = n /\ q[j].num = n
                /\ q[i].op = ops[k] /\ q[j].op = ops[l]
                => (i < j <=> k < l)
<1> DEFINE at == {i \in DOMAIN q : q[i].num = n}
<1>1. {q[i].op : i \in at} = {ops[k] : k \in lo + 1 .. hi} <=>
        /\ \A i \in at : \E k \in lo + 1 .. hi : q[i].op = ops[k]
        /\ \A k \in lo + 1 .. hi : \E i \in at : q[i].op = ops[k]
  OBVIOUS
<1>2. InLine(q, n, ops, lo, hi) <=>
        /\ {q[i].op : i \in at} = {ops[k] : k \in lo + 1 .. hi}
        /\ \A i, j \in at, k, l \in lo + 1 .. hi :
             q[i].op = ops[k] /\ q[j].op = ops[l] => (i < j <=> k < l)
  BY DEF InLine
<1>3. \A i : i \in at <=> i \in DOMAIN q /\ q[i].num = n OBVIOUS
<1> HIDE DEF at
<1> QED BY ONLY <1>1, <1>2, <1>3

(* The next reply joins the line.                                          *)
LEMMA InLinePush ==
  ASSUME NEW q \in Seq(RspFlit), NEW n, NEW ops, NEW lo \in Nat,
         NEW hi \in Nat, InLine(q, n, ops, lo, hi), lo <= hi,
         Ladder(ops), hi < Len(ops),
         NEW f \in RspFlit, f.num = n, f.op = ops[hi + 1],
         NEW r, r = Append(q, f)
  PROVE  InLine(r, n, ops, lo, hi + 1)
<1> DEFINE m == Len(q) + 1
           Q == 1 .. Len(q)
<1>1. /\ Len(q) \in Nat /\ DOMAIN q = Q /\ DOMAIN r = Q \cup {m}
      /\ r[m] = f /\ \A i \in Q : r[i] = q[i] /\ i # m /\ i < m /\ i \in Int
      /\ m \in Int
  OBVIOUS
<1>2. Len(ops) \in Nat /\ \A i, j \in 1 .. Len(ops) : ops[i] = ops[j] => i = j
  BY DEF Ladder
<1>3. lo + 1 .. hi + 1 = (lo + 1 .. hi) \cup {hi + 1}
      /\ \A k \in lo + 1 .. hi :
           k \in Int /\ k < hi + 1 /\ ops[k] # ops[hi + 1]
  BY <1>2
<1> DEFINE K == lo + 1 .. hi
           z == hi + 1
<1>4. /\ \A i \in Q : q[i].num = n => \E k \in K : q[i].op = ops[k]
      /\ \A k \in K : \E i \in Q : q[i].num = n /\ q[i].op = ops[k]
      /\ \A i, j \in Q : \A k, l \in K :
           /\ q[i].num = n /\ q[j].num = n
           /\ q[i].op = ops[k] /\ q[j].op = ops[l]
           => (i < j <=> k < l)
  BY <1>1, InLineIs
<1>5. z \in Int /\ f.op = ops[z] OBVIOUS
<1> HIDE DEF Q, m, K, z
<1>6. \A i \in Q \cup {m} : r[i].num = n =>
        \E k \in K \cup {z} : r[i].op = ops[k]
  BY <1>1, <1>4, <1>5
<1>7. \A k \in K \cup {z} :
        \E i \in Q \cup {m} : r[i].num = n /\ r[i].op = ops[k]
  BY <1>1, <1>4, <1>5
<1>8. ASSUME NEW i \in Q \cup {m}, NEW j \in Q \cup {m},
             NEW k \in K \cup {z}, NEW l \in K \cup {z},
             r[i].num = n, r[j].num = n, r[i].op = ops[k], r[j].op = ops[l]
      PROVE  i < j <=> k < l
  <2>1. r[m].op = ops[z] /\ r[m].num = n BY <1>1 DEF z
  <2>2. \A k1 \in K : ops[k1] # ops[z] /\ k1 < z /\ k1 \in Int
    BY <1>3 DEF K, z
  <2>3. \A i1 \in Q : r[i1].num = n => r[i1].op # ops[z]
    BY <1>1, <1>4, <2>2
  <2>4. CASE i \in Q /\ j \in Q
    <3>1. k \in K /\ l \in K BY <2>3, <2>4, <1>8
    <3>2. q[i] = r[i] /\ q[j] = r[j] BY <1>1, <2>4
    <3> QED BY ONLY <1>4, <1>8, <2>4, <3>1, <3>2
  <2>5. CASE i \in Q /\ j = m
    <3>1. k \in K BY <2>3, <2>5, <1>8
    <3>2. l = z BY <2>1, <2>2, <2>5, <1>8
    <3> QED BY <1>1, <2>2, <2>5, <3>1, <3>2
  <2>6. CASE i = m /\ j \in Q
    <3>1. l \in K BY <2>3, <2>6, <1>8
    <3>2. k = z BY <2>1, <2>2, <2>6, <1>8
    <3>3. j < m /\ j \in Int /\ l < z /\ l \in Int
      BY <1>1, <2>2, <2>6, <3>1
    <3> QED BY <1>1, <1>5, <2>6, <3>2, <3>3
  <2>7. CASE i = m /\ j = m
    <3>1. k = z /\ l = z BY <2>1, <2>2, <2>7, <1>8
    <3> QED BY <1>1, <1>5, <2>7, <3>1
  <2> QED BY <2>4, <2>5, <2>6, <2>7
<1>9. DOMAIN r = Q \cup {m} /\ lo + 1 .. z = K \cup {z}
  BY <1>1, <1>3 DEF K, z
<1>10. InLine(r, n, ops, lo, z)
  BY ONLY <1>6, <1>7, <1>8, <1>9, InLineIs
<1> QED BY <1>10 DEF z

LEMMA TailIs ==
  ASSUME NEW X, NEW q \in Seq(X), q # <<>>
  PROVE  /\ Tail(q) \in Seq(X) /\ Head(q) \in X /\ Head(q) = q[1]
         /\ Len(q) \in Nat /\ 1 <= Len(q)
         /\ DOMAIN q = 1 .. Len(q) /\ DOMAIN Tail(q) = 1 .. Len(q) - 1
         /\ \A i \in 1 .. Len(q) - 1 : Tail(q)[i] = q[i + 1]
OBVIOUS

(* The first in line goes; it is the next reply.                           *)
LEMMA InLineTail ==
  ASSUME NEW q \in Seq(RspFlit), q # <<>>, NEW n, NEW ops, NEW lo \in Nat,
         NEW hi \in Nat, InLine(q, n, ops, lo, hi), hi <= Len(ops),
         Ladder(ops), Head(q).num = n
  PROVE  /\ lo < hi /\ Head(q).op = ops[lo + 1]
         /\ InLine(Tail(q), n, ops, lo + 1, hi)
<1> DEFINE r == Tail(q)
           m == Len(q)
           K == lo + 1 .. hi
           L == (lo + 1) + 1 .. hi
<1>1. /\ Head(q) = q[1] /\ m \in Nat /\ 1 <= m
      /\ DOMAIN q = 1 .. m /\ DOMAIN r = 1 .. m - 1
      /\ \A i \in 1 .. m - 1 : r[i] = q[i + 1]
  BY TailIs
<1>2. \A i, j \in K : ops[i] = ops[j] => i = j
  <2>1. /\ Len(ops) \in Nat
        /\ \A i, j \in 1 .. Len(ops) : ops[i] = ops[j] => i = j
    BY DEF Ladder
  <2> QED BY <2>1
<1>3. /\ \A i \in 1 .. m : q[i].num = n => \E k \in K : q[i].op = ops[k]
      /\ \A k \in K : \E i \in 1 .. m : q[i].num = n /\ q[i].op = ops[k]
      /\ \A i, j \in 1 .. m : \A k, l \in K :
           /\ q[i].num = n /\ q[j].num = n
           /\ q[i].op = ops[k] /\ q[j].op = ops[l]
           => (i < j <=> k < l)
  BY <1>1, InLineIs
<1>4. q[1].num = n /\ 1 \in 1 .. m BY <1>1
<1>5. PICK k \in K : q[1].op = ops[k] BY <1>3, <1>4
<1>6. lo < hi /\ lo + 1 \in K /\ k \in Int /\ lo + 1 <= k BY <1>5
<1>7. PICK i \in 1 .. m : q[i].num = n /\ q[i].op = ops[lo + 1]
  BY <1>3, <1>6
<1>8. k = lo + 1
  <2>1. 1 < i <=> k < lo + 1 BY <1>3, <1>4, <1>5, <1>6, <1>7
  <2>2. i = 1
    <3>1. ~(k < lo + 1) BY <1>6
    <3>2. ~(1 < i) BY <2>1, <3>1
    <3> QED BY <1>1, <1>7, <3>2
  <2> QED BY <1>2, <1>5, <1>6, <1>7, <2>2
<1>9. \A j \in 1 .. m - 1 : j + 1 \in 1 .. m /\ j + 1 # 1 /\ j \in Int
  BY <1>1
<1>10. \A j \in 1 .. m : j # 1 => j - 1 \in 1 .. m - 1 /\ (j - 1) + 1 = j
  BY <1>1
<1>11. \A l \in L : l \in K /\ l # lo + 1 /\ l \in Int OBVIOUS
<1>12. \A l \in K : l # lo + 1 => l \in L OBVIOUS
<1> HIDE DEF r, m, K, L
<1>13. \A j \in 1 .. m - 1 : r[j].num = n => \E l \in L : r[j].op = ops[l]
  <2> TAKE j \in 1 .. m - 1
  <2> HAVE r[j].num = n
  <2>1. q[j + 1].num = n /\ r[j] = q[j + 1] /\ j + 1 \in 1 .. m
    BY <1>1, <1>9
  <2>2. PICK l \in K : q[j + 1].op = ops[l] BY <1>3, <2>1
  <2>3. l # lo + 1
    <3>1. SUFFICES ASSUME l = lo + 1 PROVE FALSE OBVIOUS
    <3>2. 1 < j + 1 <=> lo + 1 < lo + 1
      BY <1>3, <1>4, <1>5, <1>6, <1>8, <2>1, <2>2, <3>1
    <3>3. 1 < j + 1 BY <1>1
    <3> QED BY <3>2, <3>3
  <2> QED BY <1>12, <2>1, <2>2, <2>3
<1>14. \A l \in L : \E j \in 1 .. m - 1 : r[j].num = n /\ r[j].op = ops[l]
  <2> TAKE l \in L
  <2>1. l \in K /\ l # lo + 1 BY <1>11
  <2>2. PICK j \in 1 .. m : q[j].num = n /\ q[j].op = ops[l] BY <1>3, <2>1
  <2>3. j # 1 BY <1>2, <1>5, <1>6, <1>8, <2>1, <2>2
  <2>4. j - 1 \in 1 .. m - 1 /\ (j - 1) + 1 = j BY <1>10, <2>3
  <2>5. r[j - 1] = q[j] BY <1>1, <2>4
  <2> QED BY <2>2, <2>4, <2>5
<1>15. \A j, h \in 1 .. m - 1 : \A a, b \in L :
         /\ r[j].num = n /\ r[h].num = n
         /\ r[j].op = ops[a] /\ r[h].op = ops[b]
         => (j < h <=> a < b)
  <2> TAKE j, h \in 1 .. m - 1
  <2> TAKE a, b \in L
  <2> HAVE /\ r[j].num = n /\ r[h].num = n
           /\ r[j].op = ops[a] /\ r[h].op = ops[b]
  <2>1. r[j] = q[j + 1] /\ r[h] = q[h + 1] BY <1>1
  <2>2. j + 1 \in 1 .. m /\ h + 1 \in 1 .. m /\ a \in K /\ b \in K
    BY <1>9, <1>11
  <2>5. /\ q[j + 1].num = n /\ q[h + 1].num = n
        /\ q[j + 1].op = ops[a] /\ q[h + 1].op = ops[b]
    BY <2>1
  <2>3. j + 1 < h + 1 <=> a < b BY ONLY <1>3, <2>2, <2>5
  <2>4. j + 1 < h + 1 <=> j < h BY <1>9
  <2> QED BY <2>3, <2>4
<1>16. InLine(r, n, ops, lo + 1, hi)
  BY <1>1, <1>13, <1>14, <1>15, InLineIs DEF L
<1> QED BY <1>1, <1>5, <1>6, <1>8, <1>16 DEF r

(* The first in line goes; it is of another request.                       *)
LEMMA InLineOther ==
  ASSUME NEW q \in Seq(RspFlit), q # <<>>, NEW n, NEW ops, NEW lo,
         NEW hi, InLine(q, n, ops, lo, hi), Head(q).num # n
  PROVE  InLine(Tail(q), n, ops, lo, hi)
<1> DEFINE r == Tail(q)
           m == Len(q)
           K == lo + 1 .. hi
<1>1. /\ Head(q) = q[1] /\ m \in Nat /\ 1 <= m
      /\ DOMAIN q = 1 .. m /\ DOMAIN r = 1 .. m - 1
      /\ \A i \in 1 .. m - 1 : r[i] = q[i + 1]
  BY TailIs
<1>3. /\ \A i \in 1 .. m : q[i].num = n => \E k \in K : q[i].op = ops[k]
      /\ \A k \in K : \E i \in 1 .. m : q[i].num = n /\ q[i].op = ops[k]
      /\ \A i, j \in 1 .. m : \A k, l \in K :
           /\ q[i].num = n /\ q[j].num = n
           /\ q[i].op = ops[k] /\ q[j].op = ops[l]
           => (i < j <=> k < l)
  BY <1>1, InLineIs
<1>4. q[1].num # n BY <1>1
<1>9. \A j \in 1 .. m - 1 : j + 1 \in 1 .. m /\ j \in Int
  BY <1>1
<1>10. \A j \in 1 .. m : j # 1 => j - 1 \in 1 .. m - 1 /\ (j - 1) + 1 = j
  BY <1>1
<1> HIDE DEF r, m, K
<1>13. \A j \in 1 .. m - 1 : r[j].num = n => \E l \in K : r[j].op = ops[l]
  <2> TAKE j \in 1 .. m - 1
  <2> HAVE r[j].num = n
  <2>1. q[j + 1].num = n /\ r[j] = q[j + 1] /\ j + 1 \in 1 .. m
    BY <1>1, <1>9
  <2> QED BY <1>3, <2>1
<1>14. \A l \in K : \E j \in 1 .. m - 1 : r[j].num = n /\ r[j].op = ops[l]
  <2> TAKE l \in K
  <2>2. PICK j \in 1 .. m : q[j].num = n /\ q[j].op = ops[l] BY <1>3
  <2>4. j - 1 \in 1 .. m - 1 /\ (j - 1) + 1 = j BY <1>4, <1>10, <2>2
  <2>5. r[j - 1] = q[j] BY <1>1, <2>4
  <2> QED BY <2>2, <2>4, <2>5
<1>15. \A j, h \in 1 .. m - 1 : \A a, b \in K :
         /\ r[j].num = n /\ r[h].num = n
         /\ r[j].op = ops[a] /\ r[h].op = ops[b]
         => (j < h <=> a < b)
  <2> TAKE j, h \in 1 .. m - 1
  <2> TAKE a, b \in K
  <2> HAVE /\ r[j].num = n /\ r[h].num = n
           /\ r[j].op = ops[a] /\ r[h].op = ops[b]
  <2>1. r[j] = q[j + 1] /\ r[h] = q[h + 1] BY <1>1
  <2>2. j + 1 \in 1 .. m /\ h + 1 \in 1 .. m BY <1>9
  <2>5. /\ q[j + 1].num = n /\ q[h + 1].num = n
        /\ q[j + 1].op = ops[a] /\ q[h + 1].op = ops[b]
    BY <2>1
  <2>3. j + 1 < h + 1 <=> a < b BY ONLY <1>3, <2>2, <2>5,
                                        a \in K, b \in K
  <2>4. j + 1 < h + 1 <=> j < h BY <1>9
  <2> QED BY <2>3, <2>4
<1>16. InLine(r, n, ops, lo, hi)
  BY <1>1, <1>13, <1>14, <1>15, InLineIs DEF K
<1> QED BY <1>16 DEF r

(* The refusal, in a queue that grows or that loses its first flit.        *)
LEMMA ToldAppend ==
  ASSUME NEW X, NEW q \in Seq(X), NEW f \in X, NEW n
  PROVE  ToldIn(Append(q, f), n)
           <=> ToldIn(q, n) \/ (f.num = n /\ f.err = "NDERR")
<1>1. /\ DOMAIN Append(q, f) = DOMAIN q \cup {Len(q) + 1}
      /\ Append(q, f)[Len(q) + 1] = f
      /\ \A i \in DOMAIN q : Append(q, f)[i] = q[i]
  OBVIOUS
<1> DEFINE r == Append(q, f)
           m == Len(q) + 1
<1> HIDE DEF r, m
<1>2. /\ DOMAIN r = DOMAIN q \cup {m} /\ r[m] = f
      /\ \A i \in DOMAIN q : r[i] = q[i]
  BY <1>1 DEF r, m
<1>3. ToldIn(r, n) <=> ToldIn(q, n) \/ (f.num = n /\ f.err = "NDERR")
  <2>1. ASSUME ToldIn(r, n)
        PROVE  ToldIn(q, n) \/ (f.num = n /\ f.err = "NDERR")
    <3> PICK i \in DOMAIN r : r[i].num = n /\ r[i].err = "NDERR"
      BY <2>1 DEF ToldIn
    <3>1. CASE i = m BY <1>2, <3>1
    <3>2. CASE i \in DOMAIN q
      <4>1. q[i].num = n /\ q[i].err = "NDERR" BY <1>2, <3>2
      <4>2. ToldIn(q, n) BY ONLY <3>2, <4>1, Zenon DEF ToldIn
      <4> QED BY <4>2
    <3> QED BY <1>2, <3>1, <3>2
  <2>2. ASSUME ToldIn(q, n) PROVE ToldIn(r, n)
    BY <1>2, <2>2 DEF ToldIn
  <2>3. ASSUME f.num = n, f.err = "NDERR" PROVE ToldIn(r, n)
    BY <1>2, <2>3 DEF ToldIn
  <2> QED BY <2>1, <2>2, <2>3
<1> QED BY <1>3 DEF r

LEMMA ToldTail ==
  ASSUME NEW X, NEW q \in Seq(X), q # <<>>, NEW n
  PROVE  ToldIn(q, n) <=>
           ToldIn(Tail(q), n) \/ (Head(q).num = n /\ Head(q).err = "NDERR")
<1> DEFINE r == Tail(q)
           m == Len(q)
<1>1. /\ Head(q) = q[1] /\ m \in Nat /\ 1 <= m
      /\ DOMAIN q = 1 .. m /\ DOMAIN r = 1 .. m - 1
      /\ \A i \in 1 .. m - 1 : r[i] = q[i + 1]
  BY TailIs
<1>2. \A j \in 1 .. m - 1 : j + 1 \in 1 .. m BY <1>1
<1>3. \A j \in 1 .. m : j # 1 => j - 1 \in 1 .. m - 1 /\ (j - 1) + 1 = j
  BY <1>1
<1>4. \A j \in 1 .. m : j # 1 => j - 1 \in 1 .. m - 1 /\ r[j - 1] = q[j]
  BY <1>1, <1>3
<1>5. 1 \in 1 .. m BY <1>1
<1> HIDE DEF r, m
<1>6. ToldIn(q, n) <=>
        ToldIn(r, n) \/ (q[1].num = n /\ q[1].err = "NDERR")
  <2>1. ASSUME ToldIn(q, n)
        PROVE  ToldIn(r, n) \/ (q[1].num = n /\ q[1].err = "NDERR")
    <3> PICK i \in 1 .. m : q[i].num = n /\ q[i].err = "NDERR"
      BY <1>1, <2>1 DEF ToldIn
    <3>1. CASE i = 1 BY <3>1
    <3>2. CASE i # 1
      <4>1. i - 1 \in DOMAIN r /\ r[i - 1] = q[i] BY <1>1, <1>4, <3>2
      <4>2. r[i - 1].num = n /\ r[i - 1].err = "NDERR" BY <4>1
      <4>3. ToldIn(r, n) BY ONLY <4>1, <4>2, Zenon DEF ToldIn
      <4> QED BY <4>3
    <3> QED BY <3>1, <3>2
  <2>2. ASSUME ToldIn(r, n) PROVE ToldIn(q, n)
    <3> PICK i \in 1 .. m - 1 : r[i].num = n /\ r[i].err = "NDERR"
      BY <1>1, <2>2 DEF ToldIn
    <3> QED BY <1>1, <1>2 DEF ToldIn
  <2>3. ASSUME q[1].num = n, q[1].err = "NDERR" PROVE ToldIn(q, n)
    BY <1>1, <1>5, <2>3 DEF ToldIn
  <2> QED BY <2>1, <2>2, <2>3
<1> QED BY <1>1, <1>6 DEF r

(* The beats of a burst, on their way.                                     *)
Burst(q, r, e) ==
  /\ r \in Seq(DatFlit)
  /\ Len(q) \in Nat /\ e.beats \in Nat \ {0}
  /\ DOMAIN q = 1 .. Len(q) /\ DOMAIN r = 1 .. Len(q) + e.beats
  /\ \A i \in DOMAIN r :
       IF i \in DOMAIN q THEN r[i] = q[i]
       ELSE r[i] \in DatFlit /\ r[i].num = e.num /\ r[i].err = e.err

LEMMA BeatsIs ==
  ASSUME NEW q \in Seq(DatFlit), NEW e \in Entry, NEW r, r = q \o Beats(e)
  PROVE  Burst(q, r, e)
<1> DEFINE B == Beats(e)
<1>1. e.beats \in Nat \ {0} /\ e.num \in Nat \ {0} /\ e.err \in Err
      /\ (~e.pre) \in BOOLEAN
  BY DEF Entry
<1>2. B \in [1 .. e.beats -> DatFlit]
  BY <1>1, Zenon DEF Beats, DatFlit
<1>3. B \in Seq(DatFlit) BY <1>1, <1>2
<1>4. Len(B) = e.beats BY <1>1, <1>2, <1>3
<1>5. \A i \in 1 .. e.beats :
        B[i] \in DatFlit /\ B[i].num = e.num /\ B[i].err = e.err
  <2> TAKE i \in 1 .. e.beats
  <2>1. B[i] \in DatFlit BY <1>2
  <2>2. B[i].num = e.num /\ B[i].err = e.err BY DEF Beats
  <2> QED BY <2>1, <2>2
<1> HIDE DEF B
<1>6. /\ q \o B \in Seq(DatFlit) /\ Len(q \o B) = Len(q) + e.beats
      /\ Len(q) \in Nat
      /\ \A i \in 1 .. Len(q) + e.beats :
           (q \o B)[i] = IF i <= Len(q) THEN q[i] ELSE B[i - Len(q)]
  BY <1>3, <1>4, ConcatProperties
<1>7. r = q \o B BY DEF B
<1>8. DOMAIN q = 1 .. Len(q) /\ DOMAIN r = 1 .. Len(q) + e.beats
  BY <1>6, <1>7
<1>9. ASSUME NEW i \in DOMAIN r
      PROVE  IF i \in DOMAIN q THEN r[i] = q[i]
             ELSE r[i] \in DatFlit /\ r[i].num = e.num /\ r[i].err = e.err
  <2>1. CASE i <= Len(q) BY <1>1, <1>6, <1>7, <1>8, <2>1
  <2>2. CASE ~(i <= Len(q))
    <3>1. i - Len(q) \in 1 .. e.beats BY <1>1, <1>6, <1>8, <2>2
    <3>2. r[i] = B[i - Len(q)] BY <1>6, <1>7, <1>8, <2>2
    <3>3. i \notin DOMAIN q BY <1>8, <2>2
    <3> QED BY <1>5, <3>1, <3>2, <3>3
  <2> QED BY <2>1, <2>2
<1> QED BY <1>1, <1>6, <1>7, <1>8, <1>9 DEF Burst

LEMMA BeatsCount ==
  ASSUME NEW q \in Seq(DatFlit), NEW e \in Entry, NEW r, r = q \o Beats(e)
  PROVE  /\ Cardinality(Marks(q, Of(e.num))) \in Nat
         /\ Cardinality(Marks(r, Of(e.num)))
              = Cardinality(Marks(q, Of(e.num))) + e.beats
         /\ ToldIn(r, e.num) <=> ToldIn(q, e.num) \/ e.err = "NDERR"
<1> DEFINE M == Marks(q, Of(e.num))
           N == Marks(r, Of(e.num))
           m == Len(q)
           B == m + 1 .. m + e.beats
<1>1. /\ r \in Seq(DatFlit) /\ m \in Nat /\ e.beats \in Nat \ {0}
      /\ DOMAIN q = 1 .. m /\ DOMAIN r = 1 .. m + e.beats
      /\ \A i \in DOMAIN r :
           IF i \in DOMAIN q THEN r[i] = q[i]
           ELSE r[i] \in DatFlit /\ r[i].num = e.num /\ r[i].err = e.err
  <2>1. Burst(q, r, e) BY BeatsIs
  <2> QED BY ONLY <2>1 DEF Burst
<1>2. \A i : i \in DOMAIN r <=> i \in DOMAIN q \/ i \in B BY <1>1
<1>3. \A i : ~(i \in DOMAIN q /\ i \in B) BY <1>1
<1>4. N = M \cup B /\ M \cap B = {}
  <2> HIDE DEF B, m
  <2> QED BY <1>1, <1>2, <1>3 DEF Marks, Of
<1>5. IsFiniteSet(M) /\ Cardinality(M) \in Nat BY MarksFinite
<1>6. IsFiniteSet(B) /\ Cardinality(B) = e.beats
  <2>1. m + 1 \in Int /\ m + e.beats \in Int /\ ~(m + 1 > m + e.beats)
        /\ (m + e.beats) - (m + 1) + 1 = e.beats
    BY <1>1
  <2> QED BY <2>1, FS_Interval
<1>7. Cardinality(N) = Cardinality(M) + e.beats
  <2> HIDE DEF M, N, B
  <2>1. Cardinality(M \cup B)
          = Cardinality(M) + Cardinality(B) - Cardinality(M \cap B)
    BY <1>5, <1>6, FS_Union
  <2>2. Cardinality(M \cap B) = 0 BY <1>4, FS_EmptySet
  <2> QED BY <1>1, <1>4, <1>5, <1>6, <2>1, <2>2
<1>8. ToldIn(r, e.num) <=> ToldIn(q, e.num) \/ e.err = "NDERR"
  <2>1. m + 1 \in B BY <1>1
  <2> HIDE DEF B, m
  <2>2. \A i \in DOMAIN q : i \in DOMAIN r /\ r[i] = q[i] BY <1>1, <1>2
  <2>3. \A i \in B : i \in DOMAIN r /\ r[i].num = e.num /\ r[i].err = e.err
    BY <1>1, <1>2, <1>3
  <2>4. ASSUME ToldIn(r, e.num) PROVE ToldIn(q, e.num) \/ e.err = "NDERR"
    <3> PICK i \in DOMAIN r : r[i].num = e.num /\ r[i].err = "NDERR"
      BY <2>4 DEF ToldIn
    <3>1. CASE i \in DOMAIN q
      <4>1. q[i].num = e.num /\ q[i].err = "NDERR" BY <2>2, <3>1
      <4> QED BY <3>1, <4>1 DEF ToldIn
    <3>2. CASE i \in B BY <2>3, <3>2
    <3> QED BY <1>2, <3>1, <3>2
  <2>5. ASSUME ToldIn(q, e.num) PROVE ToldIn(r, e.num)
    BY <2>2, <2>5 DEF ToldIn
  <2>6. ASSUME e.err = "NDERR" PROVE ToldIn(r, e.num)
    <3>1. /\ m + 1 \in DOMAIN r /\ r[m + 1].num = e.num
          /\ r[m + 1].err = "NDERR"
      BY <2>1, <2>3, <2>6
    <3> QED BY <3>1 DEF ToldIn
  <2> QED BY <2>4, <2>5, <2>6
<1> QED BY <1>5, <1>7, <1>8

-----------------------------------------------------------------------------
(* What is done for one request leaves the others alone.                   *)

(* Queue r is q with flits of request m after it.                          *)
Extends(q, r, m) ==
  /\ DOMAIN q \subseteq DOMAIN r
  /\ \A i \in DOMAIN r : IF i \in DOMAIN q THEN r[i] = q[i] ELSE r[i].num = m

Grows(d, g, m) ==
  /\ Extends(ROut(d), ROut(g), m)
  /\ Extends(DOut(d), DOut(g), m)
  /\ \A n : n # m => (Free(g, n) <=> Free(d, n))

LEMMA ExtendsSame ==
  ASSUME NEW q, NEW m
  PROVE  Extends(q, q, m)
BY DEF Extends

LEMMA ExtendsTransitive ==
  ASSUME NEW q, NEW r, NEW s, NEW m, Extends(q, r, m), Extends(r, s, m)
  PROVE  Extends(q, s, m)
BY DEF Extends

LEMMA GrowsTransitive ==
  ASSUME NEW d, NEW f, NEW g, NEW m, Grows(d, f, m), Grows(f, g, m)
  PROVE  Grows(d, g, m)
<1>1. /\ Extends(ROut(d), ROut(g), m) /\ Extends(DOut(d), DOut(g), m)
  BY ExtendsTransitive DEF Grows
<1> QED BY <1>1 DEF Grows

LEMMA ExtendsAppend ==
  ASSUME NEW X, NEW q \in Seq(X), NEW f \in X
  PROVE  Extends(q, Append(q, f), f.num)
BY DEF Extends

LEMMA ExtendsOthers ==
  ASSUME NEW q, NEW r, NEW m, Extends(q, r, m), NEW n, n # m
  PROVE  /\ \A ops, lo, hi : InLine(q, n, ops, lo, hi) =>
                               InLine(r, n, ops, lo, hi)
         /\ Marks(r, Of(n)) = Marks(q, Of(n))
         /\ ToldIn(r, n) <=> ToldIn(q, n)
<1>1. \A i : i \in DOMAIN q /\ q[i].num = n
               <=> i \in DOMAIN r /\ r[i].num = n
  BY DEF Extends
<1>2. \A i \in DOMAIN q : i \in DOMAIN r /\ r[i] = q[i] BY DEF Extends
<1>3. ASSUME NEW ops, NEW lo, NEW hi, InLine(q, n, ops, lo, hi)
      PROVE  InLine(r, n, ops, lo, hi)
  <2> DEFINE a == {i \in DOMAIN q : q[i].num = n}
             b == {i \in DOMAIN r : r[i].num = n}
  <2>1. a = b BY <1>1
  <2>2. \A i \in a : r[i] = q[i] BY <1>2
  <2>3. {r[i].op : i \in b} = {q[i].op : i \in a}
    <3> HIDE DEF a, b
    <3> QED BY <2>1, <2>2
  <2>4. /\ {q[i].op : i \in a} = {ops[k] : k \in lo + 1 .. hi}
        /\ \A i, j \in a, k, l \in lo + 1 .. hi :
             q[i].op = ops[k] /\ q[j].op = ops[l] => (i < j <=> k < l)
    BY <1>3 DEF InLine
  <2>5. \A i, j \in b, k, l \in lo + 1 .. hi :
          r[i].op = ops[k] /\ r[j].op = ops[l] => (i < j <=> k < l)
    <3> HIDE DEF a, b
    <3> QED BY <2>1, <2>2, <2>4
  <2> QED BY <2>3, <2>4, <2>5 DEF InLine
<1>4. Marks(r, Of(n)) = Marks(q, Of(n))
  <2>1. \A i : i \in DOMAIN q /\ q[i] \in Of(n)
                 <=> i \in DOMAIN r /\ r[i] \in Of(n)
    BY <1>1, <1>2 DEF Of
  <2> QED BY <2>1 DEF Marks
<1>5. ToldIn(r, n) <=> ToldIn(q, n) BY <1>1, <1>2 DEF ToldIn
<1> QED BY <1>3, <1>4, <1>5

LEMMA GrowsServed ==
  ASSUME NEW d, NEW g, NEW m, Grows(d, g, m), NEW n, n # m, NEW t, NEW split,
         Served(d, n, t, split)
  PROVE  Served(g, n, t, split)
<1>1. /\ \A ops, lo, hi : InLine(ROut(d), n, ops, lo, hi) =>
                            InLine(ROut(g), n, ops, lo, hi)
      /\ ToldIn(ROut(g), n) <=> ToldIn(ROut(d), n)
  BY ExtendsOthers DEF Grows
<1>2. /\ Marks(DOut(g), Of(n)) = Marks(DOut(d), Of(n))
      /\ ToldIn(DOut(g), n) <=> ToldIn(DOut(d), n)
  BY ExtendsOthers DEF Grows
<1>3. Free(g, n) <=> Free(d, n) BY DEF Grows
<1>4. Told(g, n) <=> Told(d, n) BY <1>1, <1>2 DEF Told
<1>5. (~Free(g, n)) = (~Free(d, n)) BY <1>3
<1> QED BY <1>1, <1>2, <1>3, <1>4, <1>5 DEF Served

-----------------------------------------------------------------------------
(* A handler at work for request n: what it did so far.                    *)

Halfway(d, T, split, n, ops, lo, hi, c, p, b) ==
  /\ d \in Driver
  /\ Entries(d, T, split)
  /\ View(d, n, ops, lo, hi, c, p, b)

LEMMA ExtendsBeats ==
  ASSUME NEW q \in Seq(DatFlit), NEW e \in Entry, NEW r, r = q \o Beats(e)
  PROVE  Extends(q, r, e.num)
<1>1. Burst(q, r, e) BY BeatsIs
<1> QED BY <1>1 DEF Burst, Extends

(* Only the entries and the beats matter to Entries.                       *)
LEMMA EntriesKept ==
  ASSUME NEW d, NEW T, NEW split, Entries(d, T, split), NEW g,
         g.wr_await_q = d.wr_await_q, g.req_port = d.req_port,
         DOut(g) = DOut(d)
  PROVE  Entries(g, T, split)
BY DEF Entries

LEMMA FreeKept ==
  ASSUME NEW d, NEW g,
         g.wr_await_q = d.wr_await_q, g.req_port = d.req_port
  PROVE  \A n : Free(g, n) <=> Free(d, n)
BY DEF Free

LEMMA PushStep ==
  ASSUME NEW d, NEW T, NEW split, NEW n, NEW ops, NEW lo \in Nat,
         NEW hi \in Nat, NEW c, NEW p, NEW b,
         Halfway(d, T, split, n, ops, lo, hi, c, p, b),
         Ladder(ops), lo <= hi, NEW h, h = hi + 1, h <= Len(ops),
         NEW e \in Entry, e.num = n, NEW op \in RspOp, op = ops[h],
         NEW timed \in BOOLEAN, NEW g, g = push_rsp(d, e, op, timed),
         NEW a, a <=> b \/ (op # "DBID_RESP" /\ e.err = "NDERR")
  PROVE  /\ Halfway(g, T, split, n, ops, lo, h, c, p, a)
         /\ Grows(d, g, n)
<1> DEFINE f == RspOf(e, op, timed)
           v == Append(d.rsp_send_q, f)
<1>1. d \in Driver /\ Entries(d, T, split)
      /\ View(d, n, ops, lo, hi, c, p, b)
  BY DEF Halfway
<1>2. /\ ROut(d) \in Seq(RspFlit) /\ d.rsp_send_q \in Seq(RspFlit)
      /\ d.rsp_announce \in Seq(RspFlit)
  BY <1>1, OutTypes
<1>3. f \in RspFlit
  <2>1. e.num \in Nat \ {0} /\ e.err \in Err BY DEF Entry
  <2> QED BY <2>1 DEF RspOf, RspFlit, Err
<1>4. f.num = n /\ f.op = op
      /\ f.err = IF op = "DBID_RESP" THEN "OKAY" ELSE e.err
  BY DEF RspOf
<1>5. g = [d EXCEPT !.rsp_send_q = v] BY DEF push_rsp, RspOf
<1> HIDE DEF f
<1>6. v \in Seq(RspFlit) BY <1>2, <1>3
<1> HIDE DEF v
<1>7. /\ g \in Driver /\ Kept(d, g) /\ g.rsp_send_q = v
      /\ g.wr_await_q = d.wr_await_q /\ g.req_port = d.req_port
      /\ g.dat_send_q = d.dat_send_q
  BY <1>1, <1>5, <1>6, UpdateRsp
<1>8. ROut(g) = Append(ROut(d), f)
  <2>1. g.rsp_announce = d.rsp_announce BY <1>7 DEF Kept
  <2>2. d.rsp_announce \o v = Append(d.rsp_announce \o d.rsp_send_q, f)
    BY <1>2, <1>3, RspConcat DEF v
  <2> QED BY <1>7, <2>1, <2>2 DEF ROut
<1>9. DOut(g) = DOut(d) BY <1>7 DEF Kept, DOut
<1>10. \A m : Free(g, m) <=> Free(d, m) BY <1>7, FreeKept
<1>11. Entries(g, T, split) BY <1>1, <1>7, <1>9, EntriesKept
<1>12. InLine(ROut(g), n, ops, lo, h)
  <2>1. InLine(ROut(d), n, ops, lo, hi) BY <1>1 DEF View
  <2>2. hi < Len(ops) /\ f.op = ops[hi + 1]
    <3>1. Len(ops) \in Nat BY DEF Ladder
    <3> QED BY <1>4, <3>1
  <2> QED BY <1>2, <1>3, <1>4, <1>8, <2>1, <2>2, InLinePush
<1>13. ToldIn(ROut(g), n) <=>
         ToldIn(ROut(d), n) \/ (op # "DBID_RESP" /\ e.err = "NDERR")
  BY <1>2, <1>3, <1>4, <1>8, ToldAppend
<1>14. View(g, n, ops, lo, h, c, p, a)
  <2>1. /\ Cardinality(Marks(DOut(d), Of(n))) = c /\ (p <=> ~Free(d, n))
        /\ (b <=> ToldIn(ROut(d), n) \/ ToldIn(DOut(d), n))
    BY <1>1 DEF View, Told
  <2> QED BY <1>9, <1>10, <1>12, <1>13, <2>1 DEF View, Told
<1>15. Grows(d, g, n)
  <2>1. Extends(ROut(d), ROut(g), n)
    BY <1>2, <1>3, <1>4, <1>8, ExtendsAppend
  <2> QED BY <1>9, <1>10, <2>1, ExtendsSame DEF Grows
<1> QED BY <1>7, <1>11, <1>14, <1>15 DEF Halfway

LEMMA BeatsStep ==
  ASSUME NEW d, NEW T, NEW split, NEW n, NEW ops, NEW lo,
         NEW hi, NEW c, NEW p, NEW b,
         Halfway(d, T, split, n, ops, lo, hi, c, p, b),
         NEW e \in Entry, e.num = n, n <= Len(T),
         NEW g, g = [d EXCEPT !.dat_send_q = @ \o Beats(e)],
         NEW a, a <=> b \/ e.err = "NDERR"
  PROVE  /\ Halfway(g, T, split, n, ops, lo, hi, c + e.beats, p, a)
         /\ Grows(d, g, n)
<1> DEFINE v == d.dat_send_q \o Beats(e)
<1>1. d \in Driver /\ Entries(d, T, split)
      /\ View(d, n, ops, lo, hi, c, p, b)
  BY DEF Halfway
<1>2. /\ DOut(d) \in Seq(DatFlit) /\ d.dat_send_q \in Seq(DatFlit)
      /\ d.dat_announce \in Seq(DatFlit)
  BY <1>1, OutTypes
<1>3. Beats(e) \in Seq(DatFlit) BY MarksBeats, <1>2
<1>4. v \in Seq(DatFlit) BY <1>2, <1>3, ConcatProperties
<1>5. g = [d EXCEPT !.dat_send_q = v] OBVIOUS
<1> HIDE DEF v
<1>6. /\ g \in Driver /\ Kept(d, g) /\ g.dat_send_q = v
      /\ g.wr_await_q = d.wr_await_q /\ g.req_port = d.req_port
      /\ g.rsp_send_q = d.rsp_send_q
  BY ONLY <1>1, <1>4, <1>5, UpdateDat
<1>7. DOut(g) = DOut(d) \o Beats(e)
  <2>1. g.dat_announce = d.dat_announce BY <1>6 DEF Kept
  <2>2. d.dat_announce \o (d.dat_send_q \o Beats(e))
          = (d.dat_announce \o d.dat_send_q) \o Beats(e)
    BY <1>2, <1>3, DatConcat
  <2> QED BY <1>6, <2>1, <2>2 DEF DOut, v
<1>8. ROut(g) = ROut(d) BY <1>6 DEF Kept, ROut
<1>9. \A m : Free(g, m) <=> Free(d, m) BY <1>6, FreeKept
<1>10. Extends(DOut(d), DOut(g), n) BY <1>2, <1>7, ExtendsBeats
<1>11. Entries(g, T, split)
  <2>1. \A i \in DOMAIN DOut(g) : DOut(g)[i].num <= Len(T)
    BY <1>1, <1>10 DEF Extends, Entries
  <2> QED BY <1>1, <1>6, <2>1 DEF Entries
<1>12. /\ Cardinality(Marks(DOut(g), Of(n)))
            = Cardinality(Marks(DOut(d), Of(n))) + e.beats
       /\ ToldIn(DOut(g), n) <=> ToldIn(DOut(d), n) \/ e.err = "NDERR"
  BY <1>2, <1>7, BeatsCount
<1>13. View(g, n, ops, lo, hi, c + e.beats, p, a)
  <2>1. /\ Cardinality(Marks(DOut(d), Of(n))) = c /\ (p <=> ~Free(d, n))
        /\ (b <=> ToldIn(ROut(d), n) \/ ToldIn(DOut(d), n))
        /\ InLine(ROut(d), n, ops, lo, hi)
    BY <1>1 DEF View, Told
  <2> QED BY <1>8, <1>9, <1>12, <2>1 DEF View, Told
<1>14. Grows(d, g, n) BY <1>8, <1>9, <1>10, ExtendsSame DEF Grows
<1> QED BY <1>6, <1>11, <1>13, <1>14 DEF Halfway

(* What an entry must be to be added.                                      *)
LEMMA IssueStep ==
  ASSUME NEW d, NEW T, NEW split, NEW n, NEW ops, NEW lo,
         NEW hi, NEW c, NEW p, NEW b, NEW q, q,
         Halfway(d, T, split, n, ops, lo, hi, c, p, b),
         NEW e \in Entry, e.num = n, Matches(e, T[n].kind, split),
         ~T[n].kind.err, e.op \in {"READ", "READ_SEP", "WRITE", "WRITE_ZERO"},
         NEW g, g = issue_request(d, e)
  PROVE  /\ Halfway(g, T, split, n, ops, lo, hi, c, q, b)
         /\ Grows(d, g, n)
<1> DEFINE v == d.req_port \cup {e}
<1>1. d \in Driver /\ Entries(d, T, split)
      /\ View(d, n, ops, lo, hi, c, p, b)
  BY DEF Halfway
<1>2. v \in SUBSET Entry BY <1>1, OutTypes
<1>3. g = [d EXCEPT !.req_port = v] BY DEF issue_request
<1> HIDE DEF v
<1>4. /\ g \in Driver /\ Kept(d, g) /\ g.req_port = v
      /\ g.wr_await_q = d.wr_await_q /\ g.dat_send_q = d.dat_send_q
      /\ g.rsp_send_q = d.rsp_send_q
  BY ONLY <1>1, <1>2, <1>3, UpdatePort
<1>5. ROut(g) = ROut(d) /\ DOut(g) = DOut(d)
  BY <1>4 DEF Kept, ROut, DOut
<1>6. \A m : m # n => (Free(g, m) <=> Free(d, m)) BY <1>4 DEF Free, v
<1>7. ~Free(g, n) BY <1>4 DEF Free, v
<1>8. Entries(g, T, split) BY <1>1, <1>4, <1>5 DEF Entries, v
<1>9. View(g, n, ops, lo, hi, c, q, b)
  <2>1. /\ Cardinality(Marks(DOut(d), Of(n))) = c
        /\ (b <=> Told(d, n)) /\ InLine(ROut(d), n, ops, lo, hi)
    BY <1>1 DEF View
  <2> QED BY <1>5, <1>7, <2>1 DEF View, Told
<1>10. Grows(d, g, n) BY <1>5, <1>6, ExtendsSame DEF Grows
<1> QED BY <1>4, <1>8, <1>9, <1>10 DEF Halfway

AddWrite(d, e) == [d EXCEPT !.wr_await_q = Append(@, e)]

LEMMA AwaitStep ==
  ASSUME NEW d, NEW T, NEW split, NEW n, NEW ops, NEW lo,
         NEW hi, NEW c, NEW p, NEW b, NEW q, q,
         Halfway(d, T, split, n, ops, lo, hi, c, p, b),
         NEW e \in Entry, e.num = n, Matches(e, T[n].kind, split),
         NEW g, g = AddWrite(d, e)
  PROVE  /\ Halfway(g, T, split, n, ops, lo, hi, c, q, b)
         /\ Grows(d, g, n)
<1> DEFINE v == Append(d.wr_await_q, e)
<1>1. d \in Driver /\ Entries(d, T, split)
      /\ View(d, n, ops, lo, hi, c, p, b)
  BY DEF Halfway
<1>2. /\ v \in Seq(Entry)
      /\ DOMAIN v = DOMAIN d.wr_await_q \cup {Len(d.wr_await_q) + 1}
      /\ v[Len(d.wr_await_q) + 1] = e
      /\ \A i \in DOMAIN d.wr_await_q : v[i] = d.wr_await_q[i]
  <2>1. d.wr_await_q \in Seq(Entry) BY <1>1, OutTypes
  <2> QED BY <2>1
<1>3. g = [d EXCEPT !.wr_await_q = v] BY DEF AddWrite
<1> HIDE DEF v
<1>4. /\ g \in Driver /\ Kept(d, g) /\ g.wr_await_q = v
      /\ g.req_port = d.req_port /\ g.dat_send_q = d.dat_send_q
      /\ g.rsp_send_q = d.rsp_send_q
  BY ONLY <1>1, <1>2, <1>3, UpdateAwait
<1>5. ROut(g) = ROut(d) /\ DOut(g) = DOut(d)
  BY <1>4 DEF Kept, ROut, DOut
<1>6. \A m : m # n => (Free(g, m) <=> Free(d, m)) BY <1>2, <1>4 DEF Free
<1>7. ~Free(g, n) BY <1>2, <1>4 DEF Free
<1>8. Entries(g, T, split) BY <1>1, <1>2, <1>4, <1>5 DEF Entries
<1>9. View(g, n, ops, lo, hi, c, q, b)
  <2>1. /\ Cardinality(Marks(DOut(d), Of(n))) = c
        /\ (b <=> Told(d, n)) /\ InLine(ROut(d), n, ops, lo, hi)
    BY <1>1 DEF View
  <2> QED BY <1>5, <1>7, <2>1 DEF View, Told
<1>10. Grows(d, g, n) BY <1>5, <1>6, ExtendsSame DEF Grows
<1> QED BY <1>4, <1>8, <1>9, <1>10 DEF Halfway

Dropping(d, k) == [d EXCEPT !.wr_await_q = Drop(@, k)]

LEMMA DropStep ==
  ASSUME NEW d, NEW T, NEW split, NEW ops, NEW lo,
         NEW hi, NEW c, NEW p, NEW b, NEW q, ~q, NEW k \in DOMAIN d.wr_await_q,
         NEW n, n = d.wr_await_q[k].num,
         Halfway(d, T, split, n, ops, lo, hi, c, p, b),
         NEW g, g = Dropping(d, k), Free(g, n)
  PROVE  /\ Halfway(g, T, split, n, ops, lo, hi, c, q, b)
         /\ Grows(d, g, n)
<1> DEFINE v == Drop(d.wr_await_q, k)
           W == d.wr_await_q
<1>1. d \in Driver /\ Entries(d, T, split)
      /\ View(d, n, ops, lo, hi, c, p, b)
  BY DEF Halfway
<1>2. W \in Seq(Entry) BY <1>1, OutTypes
<1>3. v \in Seq(Entry) BY <1>2, DropIs
<1>4. SeqSet(W) = SeqSet(v) \cup {W[k]}
  <2>1. Len(W) = Len(W) /\ \A i \in DOMAIN W : i # k => W[i] = W[i] OBVIOUS
  <2> QED BY <1>2, <2>1, DropSet
<1>5. g = [d EXCEPT !.wr_await_q = v] BY DEF Dropping
<1> HIDE DEF v
<1>6. /\ g \in Driver /\ Kept(d, g) /\ g.wr_await_q = v
      /\ g.req_port = d.req_port /\ g.dat_send_q = d.dat_send_q
      /\ g.rsp_send_q = d.rsp_send_q
  BY ONLY <1>1, <1>3, <1>5, UpdateAwait
<1>7. ROut(g) = ROut(d) /\ DOut(g) = DOut(d)
  BY <1>6 DEF Kept, ROut, DOut
<1>8. \A i \in DOMAIN v : \E j \in DOMAIN W : v[i] = W[j]
  BY <1>4 DEF SeqSet
<1>9. \A j \in DOMAIN W : W[j] = W[k] \/ \E i \in DOMAIN v : v[i] = W[j]
  BY <1>4 DEF SeqSet
<1>10. ASSUME NEW m, m # n PROVE Free(g, m) <=> Free(d, m)
  <2>1. (\A i \in DOMAIN v : v[i].num # m) <=>
          \A j \in DOMAIN W : W[j].num # m
    <3> HIDE DEF W
    <3>1. W[k].num # m BY <1>10 DEF W
    <3> QED BY <1>8, <1>9, <3>1
  <2> QED BY <1>6, <2>1 DEF Free
<1>11. Entries(g, T, split)
  <2>1. \A i \in DOMAIN W : Matches(W[i], T[W[i].num].kind, split)
    BY <1>1 DEF Entries
  <2>2. \A i \in DOMAIN v : Matches(v[i], T[v[i].num].kind, split)
    <3> HIDE DEF W
    <3> QED BY <1>8, <2>1
  <2> QED BY <1>1, <1>6, <1>7, <2>2 DEF Entries
<1>12. View(g, n, ops, lo, hi, c, q, b)
  <2>1. /\ Cardinality(Marks(DOut(d), Of(n))) = c
        /\ (b <=> Told(d, n)) /\ InLine(ROut(d), n, ops, lo, hi)
    BY <1>1 DEF View
  <2> QED BY <1>7, <2>1 DEF View, Told
<1>13. Grows(d, g, n) BY <1>7, <1>10, ExtendsSame DEF Grows
<1> QED BY <1>6, <1>11, <1>12, <1>13 DEF Halfway

Without(d, e) == [d EXCEPT !.req_port = @ \ {e}]

LEMMA FinishStep ==
  ASSUME NEW d, NEW T, NEW split, NEW ops, NEW lo,
         NEW hi, NEW c, NEW p, NEW b, NEW q, ~q, NEW e \in d.req_port,
         NEW n, n = e.num,
         Halfway(d, T, split, n, ops, lo, hi, c, p, b),
         NEW g, g = Without(d, e), Free(g, n)
  PROVE  /\ Halfway(g, T, split, n, ops, lo, hi, c, q, b)
         /\ Grows(d, g, n)
<1> DEFINE v == d.req_port \ {e}
<1>1. d \in Driver /\ Entries(d, T, split)
      /\ View(d, n, ops, lo, hi, c, p, b)
  BY DEF Halfway
<1>2. v \in SUBSET Entry BY <1>1, OutTypes
<1>3. g = [d EXCEPT !.req_port = v] BY DEF Without
<1> HIDE DEF v
<1>4. /\ g \in Driver /\ Kept(d, g) /\ g.req_port = v
      /\ g.wr_await_q = d.wr_await_q /\ g.dat_send_q = d.dat_send_q
      /\ g.rsp_send_q = d.rsp_send_q
  BY ONLY <1>1, <1>2, <1>3, UpdatePort
<1>5. ROut(g) = ROut(d) /\ DOut(g) = DOut(d)
  BY <1>4 DEF Kept, ROut, DOut
<1>6. \A m : m # n => (Free(g, m) <=> Free(d, m)) BY <1>4 DEF Free, v
<1>8. Entries(g, T, split) BY <1>1, <1>4, <1>5 DEF Entries, v
<1>9. View(g, n, ops, lo, hi, c, q, b)
  <2>1. /\ Cardinality(Marks(DOut(d), Of(n))) = c
        /\ (b <=> Told(d, n)) /\ InLine(ROut(d), n, ops, lo, hi)
    BY <1>1 DEF View
  <2> QED BY <1>5, <2>1 DEF View, Told
<1>10. Grows(d, g, n) BY <1>5, <1>6, ExtendsSame DEF Grows
<1> QED BY <1>4, <1>8, <1>9, <1>10 DEF Halfway

(* A beat of write data is counted.                                        *)
Counting(d, k, e) == [d EXCEPT !.wr_await_q[k] = e]

LEMMA SeenStep ==
  ASSUME NEW d, NEW T, NEW split, NEW ops, NEW lo,
         NEW hi, NEW c, NEW p, NEW b, NEW k \in DOMAIN d.wr_await_q,
         NEW n, n = d.wr_await_q[k].num,
         Halfway(d, T, split, n, ops, lo, hi, c, p, b), NEW e \in Entry,
         e.num = n, e.op = d.wr_await_q[k].op,
         e.beats = d.wr_await_q[k].beats, e.split = d.wr_await_q[k].split,
         e.err = d.wr_await_q[k].err,
         NEW g, g = Counting(d, k, e)
  PROVE  /\ Halfway(g, T, split, n, ops, lo, hi, c, p, b)
         /\ Grows(d, g, n)
<1> DEFINE W == d.wr_await_q
           v == [W EXCEPT ![k] = e]
<1>1. d \in Driver /\ Entries(d, T, split)
      /\ View(d, n, ops, lo, hi, c, p, b)
  BY DEF Halfway
<1>2. W \in Seq(Entry) BY <1>1, OutTypes
<1>3. /\ v \in Seq(Entry) /\ DOMAIN v = DOMAIN W /\ v[k] = e
      /\ \A i \in DOMAIN W : i # k => v[i] = W[i]
  <2> HIDE DEF W
  <2>1. k \in DOMAIN W BY DEF W
  <2> QED BY <1>2, <2>1
<1>4. g = [d EXCEPT !.wr_await_q = v] BY DEF Counting
<1> HIDE DEF v
<1>6. /\ g \in Driver /\ Kept(d, g) /\ g.wr_await_q = v
      /\ g.req_port = d.req_port /\ g.dat_send_q = d.dat_send_q
      /\ g.rsp_send_q = d.rsp_send_q
  BY ONLY <1>1, <1>3, <1>4, UpdateAwait
<1>7. ROut(g) = ROut(d) /\ DOut(g) = DOut(d)
  BY <1>6 DEF Kept, ROut, DOut
<1>8. \A i \in DOMAIN W :
        /\ v[i].num = W[i].num /\ v[i].op = W[i].op
        /\ v[i].beats = W[i].beats /\ v[i].split = W[i].split
        /\ v[i].err = W[i].err
  BY <1>3
<1>9. \A m : Free(g, m) <=> Free(d, m)
  <2>1. \A m : (\A i \in DOMAIN v : v[i].num # m) <=>
                 \A j \in DOMAIN W : W[j].num # m
    <3> HIDE DEF W
    <3> QED BY <1>3, <1>8
  <2> QED BY <1>6, <2>1 DEF Free
<1>10. Entries(g, T, split)
  <2>1. \A i \in DOMAIN W : Matches(W[i], T[W[i].num].kind, split)
    BY <1>1 DEF Entries
  <2>2. \A i \in DOMAIN v : Matches(v[i], T[v[i].num].kind, split)
    <3> HIDE DEF W
    <3> QED BY <1>3, <1>8, <2>1 DEF Matches
  <2> QED BY <1>1, <1>6, <1>7, <2>2 DEF Entries
<1>11. View(g, n, ops, lo, hi, c, p, b)
  BY <1>1, <1>7, <1>9 DEF View, Told
<1>12. Grows(d, g, n) BY <1>7, <1>9, ExtendsSame DEF Grows
<1> QED BY <1>6, <1>10, <1>11, <1>12 DEF Halfway

LEMMA HalfwaySame ==
  ASSUME NEW d, NEW T, NEW split, NEW n, NEW ops, NEW lo,
         NEW hi, NEW c, NEW p, NEW b,
         Halfway(d, T, split, n, ops, lo, hi, c, p, b),
         NEW q, NEW a, p <=> q, a <=> b
  PROVE  Halfway(d, T, split, n, ops, lo, hi, c, q, a)
BY DEF Halfway, View

LEMMA WriteDone ==
  ASSUME NEW d, NEW T, NEW split, NEW n, NEW ops, NEW lo \in Nat,
         NEW hi \in Nat, NEW c, NEW p, NEW b,
         Halfway(d, T, split, n, ops, lo, hi, c, p, b),
         Ladder(ops), lo <= hi, NEW e \in Entry, e.num = n, e.split,
         NEW h, h = hi + 1, h <= Len(ops), ops[h] = "COMP",
         NEW a, a <=> b \/ e.err = "NDERR",
         NEW g, g = enqueue_write_completion(d, e)
  PROVE  /\ Halfway(g, T, split, n, ops, lo, h, c, p, a)
         /\ Grows(d, g, n)
<1>1. g = push_rsp(d, e, "COMP", ~e.pre)
  BY DEF enqueue_write_completion
<1>2. a <=> b \/ ("COMP" # "DBID_RESP" /\ e.err = "NDERR") OBVIOUS
<1> DEFINE timed == ~e.pre
           op == "COMP"
<1>3. timed \in BOOLEAN /\ op \in RspOp /\ op = ops[h]
      /\ g = push_rsp(d, e, op, timed)
      /\ (a <=> b \/ (op # "DBID_RESP" /\ e.err = "NDERR"))
  BY <1>1, <1>2 DEF RspOp
<1> HIDE DEF timed, op
<1> QED BY <1>3, PushStep

LEMMA ReadDone ==
  ASSUME NEW d, NEW T, NEW split, NEW n, NEW ops, NEW lo \in Nat,
         NEW hi \in Nat, NEW c, NEW p, NEW b,
         Halfway(d, T, split, n, ops, lo, hi, c, p, b),
         Ladder(ops), lo <= hi, NEW e \in Entry, e.num = n, n <= Len(T),
         NEW h, h = hi + (IF e.op = "READ_SEP" THEN 1 ELSE 0), h <= Len(ops),
         e.op = "READ_SEP" => ops[h] = "RESP_SEP_DATA",
         NEW a, a <=> b \/ e.err = "NDERR",
         NEW g, g = enqueue_read_completion(d, e)
  PROVE  /\ Halfway(g, T, split, n, ops, lo, h, c + e.beats, p, a)
         /\ Grows(d, g, n)
<1> DEFINE f == IF e.op = "READ_SEP"
                THEN push_rsp(d, e, "RESP_SEP_DATA", ~e.pre) ELSE d
           z == b \/ (e.op = "READ_SEP" /\ e.err = "NDERR")
<1>1. g = [f EXCEPT !.dat_send_q = @ \o Beats(e)]
  BY DEF enqueue_read_completion
<1>2. Halfway(f, T, split, n, ops, lo, h, c, p, z) /\ Grows(d, f, n)
  <2>1. CASE e.op = "READ_SEP"
    <3> DEFINE timed == ~e.pre
               op == "RESP_SEP_DATA"
    <3>1. timed \in BOOLEAN /\ op \in RspOp /\ h = hi + 1 /\ op = ops[h]
          /\ f = push_rsp(d, e, op, timed)
          /\ (z <=> b \/ (op # "DBID_RESP" /\ e.err = "NDERR"))
      BY <2>1 DEF RspOp
    <3> HIDE DEF f, z, timed, op
    <3> QED BY <3>1, PushStep
  <2>2. CASE e.op # "READ_SEP"
    <3>1. f = d /\ h = hi /\ (z <=> b) /\ (p <=> p) BY <2>2
    <3>2. Grows(d, d, n) BY ExtendsSame DEF Grows
    <3> HIDE DEF f, z
    <3>3. Halfway(d, T, split, n, ops, lo, hi, c, p, z)
      BY <3>1, HalfwaySame
    <3> QED BY <3>1, <3>2, <3>3
  <2> QED BY <2>1, <2>2
<1>3. a <=> z \/ e.err = "NDERR" OBVIOUS
<1> HIDE DEF f, z
<1>4. Halfway(g, T, split, n, ops, lo, h, c + e.beats, p, a) /\ Grows(f, g, n)
  BY ONLY <1>1, <1>2, <1>3, e \in Entry, e.num = n, n <= Len(T), BeatsStep
<1> QED BY <1>2, <1>4, GrowsTransitive

-----------------------------------------------------------------------------
(* From a request's account to a handler and back.                         *)

(* Replies up to hi and c beats are the right ones for t, be they given or *)
(* on their way, when p says whether an entry waits and b whether a flit   *)
(* on its way bears the refusal.                                           *)
Tally(t, ops, hi, c, p, b) ==
  /\ hi = Len(ops) - HeldBack(ops, p)
  /\ Len(t.rsp) <= hi
  /\ \A i \in DOMAIN t.rsp : t.rsp[i] = ops[i]
  /\ t.dat + c + (IF p THEN DatBeats(t.kind) ELSE 0) = DatBeats(t.kind)
  /\ t.nderr \/ b => Refused(t.kind)
  /\ Refused(t.kind) => t.nderr \/ b \/ HeldBack(ops, p) = 1

LEMMA ServedStart ==
  ASSUME NEW d \in Driver, NEW T, NEW split, Entries(d, T, split),
         NEW n, NEW t \in Txn, Served(d, n, t, split),
         NEW ops, ops = Replies(t.kind, split), NEW p, p <=> ~Free(d, n)
  PROVE  \E hi \in Nat, c \in Nat, b \in BOOLEAN :
           /\ Halfway(d, T, split, n, ops, Len(t.rsp), hi, c, p, b)
           /\ Tally(t, ops, hi, c, p, b)
<1> DEFINE hi == Len(ops) - HeldBack(ops, p)
           c == Cardinality(Marks(DOut(d), Of(n)))
           b == Told(d, n)
<1>1. HeldBack(ops, p) = HeldBack(ops, ~Free(d, n)) BY DEF HeldBack
<1>2. /\ Len(t.rsp) <= hi
      /\ \A i \in DOMAIN t.rsp : t.rsp[i] = ops[i]
      /\ InLine(ROut(d), n, ops, Len(t.rsp), hi)
      /\ t.dat + c + (IF p THEN DatBeats(t.kind) ELSE 0) = DatBeats(t.kind)
      /\ t.nderr \/ b => Refused(t.kind)
      /\ Refused(t.kind) => t.nderr \/ b \/ HeldBack(ops, p) = 1
  BY <1>1 DEF Served
<1>3. c \in Nat BY OutTypes, MarksFinite
<1>4. hi \in Nat
  <2>1. Len(ops) \in 0 .. 2 BY RepliesLadder DEF Ladder
  <2>2. HeldBack(ops, p) \in Int BY DEF HeldBack
  <2>3. Len(t.rsp) \in Nat BY DEF Txn
  <2>4. hi \in Int BY <2>1, <2>2
  <2> HIDE DEF hi
  <2> QED BY <1>2, <2>3, <2>4
<1>5. b \in BOOLEAN BY DEF Told, ToldIn
<1>6. Halfway(d, T, split, n, ops, Len(t.rsp), hi, c, p, b)
  BY <1>2 DEF Halfway, View
<1> HIDE DEF hi, c, b
<1>7. hi = Len(ops) - HeldBack(ops, p) BY DEF hi
<1>8. Tally(t, ops, hi, c, p, b) BY <1>2, <1>7 DEF Tally
<1> QED BY <1>3, <1>4, <1>5, <1>6, <1>8

LEMMA ServedEnd ==
  ASSUME NEW g, NEW T, NEW split, NEW n, NEW t, NEW ops,
         ops = Replies(t.kind, split), NEW hi, NEW c, NEW p, NEW b,
         Halfway(g, T, split, n, ops, Len(t.rsp), hi, c, p, b),
         Tally(t, ops, hi, c, p, b)
  PROVE  g \in Driver /\ Entries(g, T, split) /\ Served(g, n, t, split)
<1>1. /\ g \in Driver /\ Entries(g, T, split)
      /\ InLine(ROut(g), n, ops, Len(t.rsp), hi)
      /\ Cardinality(Marks(DOut(g), Of(n))) = c
      /\ (p <=> ~Free(g, n)) /\ (b <=> Told(g, n))
  BY DEF Halfway, View
<1>2. HeldBack(ops, p) = HeldBack(ops, ~Free(g, n)) BY <1>1 DEF HeldBack
<1> QED BY <1>1, <1>2 DEF Served, Tally

-----------------------------------------------------------------------------
(* A new request.                                                          *)

LEMMA HeldBackIs ==
  ASSUME NEW x, NEW y, NEW p
  PROVE  /\ HeldBack(<<>>, p) = 0
         /\ HeldBack(<<x>>, p)
              = IF p /\ x \in {"RESP_SEP_DATA", "COMP"} THEN 1 ELSE 0
         /\ HeldBack(<<x, y>>, p)
              = IF p /\ y \in {"RESP_SEP_DATA", "COMP"} THEN 1 ELSE 0
<1>1. <<x>>[Len(<<x>>)] = x /\ <<x, y>>[Len(<<x, y>>)] = y
      /\ <<x>> # <<>> /\ <<x, y>> # <<>>
  OBVIOUS
<1> QED BY <1>1 DEF HeldBack

LEMMA PreIs ==
  ASSUME NEW e \in Entry, NEW r, r = make_pre_resolved(e)
  PROVE  /\ r \in Entry /\ r.op = e.op /\ r.num = e.num
         /\ r.beats = e.beats /\ r.split = e.split /\ r.err = "NDERR"
         /\ r.pre = TRUE
<1>1. /\ e = [op |-> e.op, num |-> e.num, beats |-> e.beats, seen |-> e.seen,
              pre |-> e.pre, split |-> e.split, err |-> e.err]
      /\ e.op \in ReqOp /\ e.num \in Nat \ {0} /\ e.beats \in Nat \ {0}
      /\ e.seen \in Nat /\ e.split \in BOOLEAN
  BY DEF Entry
<1>2. r = [e EXCEPT !.pre = TRUE, !.err = "NDERR"] BY DEF make_pre_resolved
<1>3. /\ r = [op |-> e.op, num |-> e.num, beats |-> e.beats, seen |-> e.seen,
              pre |-> TRUE, split |-> e.split, err |-> "NDERR"]
      /\ "NDERR" \in Err
  BY <1>1, <1>2 DEF Err
<1> QED BY <1>1, <1>3 DEF Entry

LEMMA NewEntryIs ==
  ASSUME NEW k \in Request, NEW n \in Nat \ {0},
         drv.cfg.split_write_rsp \in BOOLEAN,
         NEW e, e = new_entry_from_req(k, n)
  PROVE  /\ e \in Entry /\ e.op = k.op /\ e.num = n /\ e.beats = k.beats
         /\ e.seen = 0 /\ e.err = "OKAY"
         /\ e.split = (drv.cfg.split_write_rsp \/ k.op # "WRITE")
<1>1. /\ k.op \in ReqOp /\ k.beats \in Nat \ {0}
  BY DEF Request, ReqOp
<1>2. e = [op |-> k.op, num |-> n, beats |-> k.beats, seen |-> 0,
           pre |-> FALSE,
           split |-> drv.cfg.split_write_rsp \/ k.op # "WRITE",
           err |-> "OKAY"]
  BY DEF new_entry_from_req
<1>3. (drv.cfg.split_write_rsp \/ k.op # "WRITE") \in BOOLEAN OBVIOUS
<1> QED BY <1>1, <1>2, <1>3 DEF Entry, Err

(* Request n, of kind k, was handled.                                      *)
Handled(d, g, T, split, n, k) ==
  /\ g \in Driver /\ Entries(g, T, split)
  /\ Served(g, n, NewTxn(k), split)
  /\ Grows(d, g, n)

LEMMA NewServed ==
  ASSUME NEW g, NEW T, NEW split, NEW n, NEW k \in Request, NEW ops,
         ops = Replies(k, split), NEW hi \in Nat, NEW c \in Nat, NEW p, NEW b,
         Halfway(g, T, split, n, ops, 0, hi, c, p, b),
         hi = Len(ops) - HeldBack(ops, p),
         c = IF p THEN 0 ELSE DatBeats(k),
         b => Refused(k),
         Refused(k) => b \/ HeldBack(ops, p) = 1,
         NEW d, Grows(d, g, n)
  PROVE  Handled(d, g, T, split, n, k)
<1> DEFINE t == NewTxn(k)
<1>1. t.kind = k /\ t.rsp = <<>> /\ t.dat = 0 /\ t.nderr = FALSE
  BY DEF NewTxn
<1>2. DatBeats(k) \in Nat BY DEF DatBeats, Request
<1> HIDE DEF t
<1>3. Len(t.rsp) = 0 /\ \A i \in DOMAIN t.rsp : t.rsp[i] = ops[i] BY <1>1
<1>4. t.dat + c + (IF p THEN DatBeats(t.kind) ELSE 0) = DatBeats(t.kind)
  BY <1>1, <1>2
<1>5. Halfway(g, T, split, n, ops, Len(t.rsp), hi, c, p, b) BY <1>3
<1>6. /\ t.nderr \/ b => Refused(t.kind)
      /\ Refused(t.kind) => t.nderr \/ b \/ HeldBack(ops, p) = 1
  BY <1>1
<1>7. ops = Replies(t.kind, split) /\ Len(t.rsp) <= hi BY <1>1, <1>3
<1>9. Tally(t, ops, hi, c, p, b) BY <1>3, <1>4, <1>6, <1>7 DEF Tally
<1>8. g \in Driver /\ Entries(g, T, split) /\ Served(g, n, t, split)
  BY <1>5, <1>7, <1>9, ServedEnd
<1> QED BY <1>8 DEF Handled, t

LEMMA ReadHandled ==
  ASSUME NEW d, NEW T, NEW split, NEW n, n <= Len(T),
         NEW k \in Request, T[n].kind = k, k.op \in {"READ", "READ_SEP"},
         NEW e \in Entry, e.num = n, e.op = k.op, e.beats = k.beats,
         e.err = "OKAY", e.split <=> split \/ k.op # "WRITE",
         NEW ops, ops = Replies(k, split),
         Halfway(d, T, split, n, ops, 0, 0, 0, FALSE, FALSE),
         NEW g, g = handle_read_req(d, k, e)
  PROVE  Handled(d, g, T, split, n, k)
<1> DEFINE f == IF k.order THEN push_rsp(d, e, "READ_RECEIPT", FALSE) ELSE d
           h == IF k.order THEN 1 ELSE 0
           s == IF k.op = "READ_SEP" THEN 1 ELSE 0
           NO == FALSE
<1>0. k.order \in BOOLEAN /\ k.err \in BOOLEAN /\ k.beats \in Nat
  BY DEF Request
<1>1. /\ Ladder(ops) /\ Len(ops) = h + s
      /\ k.order => ops[1] = "READ_RECEIPT"
      /\ k.op = "READ_SEP" => ops[Len(ops)] = "RESP_SEP_DATA"
      /\ k.op = "READ" => ops = <<>> \/ ops[Len(ops)] = "READ_RECEIPT"
  <2>1. Ladder(ops) BY RepliesLadder
  <2>2. CASE k.op = "READ"
    <3>1. ops = IF k.order THEN <<"READ_RECEIPT">> ELSE <<>>
      BY <2>2 DEF Replies
    <3> QED BY <2>1, <2>2, <3>1, <1>0
  <2>3. CASE k.op = "READ_SEP"
    <3>1. ops = IF k.order THEN <<"READ_RECEIPT", "RESP_SEP_DATA">>
                ELSE <<"RESP_SEP_DATA">>
      BY <2>3 DEF Replies
    <3> QED BY <2>1, <2>3, <3>1, <1>0
  <2> QED BY <2>2, <2>3
<1>2. \A p : HeldBack(ops, p) = IF p THEN s ELSE 0
  <2>1. CASE k.op = "READ"
    <3>1. s = 0 BY <2>1
    <3> QED BY <1>1, <2>1, <3>1 DEF HeldBack
  <2>2. CASE k.op = "READ_SEP"
    <3>1. ops # <<>> BY <1>0, <1>1, <2>2
    <3> QED BY <1>1, <2>2, <3>1 DEF HeldBack
  <2> QED BY <2>1, <2>2
<1>3. h \in Nat /\ s \in Nat OBVIOUS
<1>4. Halfway(f, T, split, n, ops, 0, h, 0, NO, NO) /\ Grows(d, f, n)
  <2>1. CASE k.order
    <3> DEFINE op == "READ_RECEIPT"
               z == 0
    <3>0. h = 1 /\ s \in Nat BY <2>1
    <3>1. /\ f = push_rsp(d, e, op, NO) /\ NO \in BOOLEAN /\ op \in RspOp
          /\ (NO <=> NO \/ (op # "DBID_RESP" /\ e.err = "NDERR"))
      BY <2>1 DEF RspOp
    <3>4. h = z + 1 /\ op = ops[h] /\ z \in Nat /\ z <= z
      <4>1. op = ops[1] BY <1>1, <2>1
      <4> HIDE DEF op, h
      <4> QED BY <3>0, <4>1
    <3>6. Halfway(d, T, split, n, ops, z, z, 0, NO, NO) OBVIOUS
    <3>5. h <= Len(ops)
      <4> HIDE DEF h, s
      <4> QED BY <1>1, <3>0
    <3> HIDE DEF f, h, op, NO, z
    <3>2. Halfway(f, T, split, n, ops, z, h, 0, NO, NO) /\ Grows(d, f, n)
      BY ONLY <1>1, <1>3, <3>1, <3>4, <3>5, <3>6, e \in Entry, e.num = n,
         PushStep
    <3> QED BY <3>2 DEF z
  <2>2. CASE ~k.order
    <3>1. f = d /\ h = 0 BY <2>2
    <3>2. Grows(d, d, n) BY ExtendsSame DEF Grows
    <3> QED BY <3>1, <3>2
  <2> QED BY <2>1, <2>2
<1>5. g = IF k.err THEN enqueue_read_completion(f, make_pre_resolved(e))
          ELSE issue_request(f, e)
  BY DEF handle_read_req
<1>6. IsRead(k) /\ (Refused(k) <=> k.err) BY DEF IsRead, Refused
<1> HIDE DEF f, h, s
<1>7. CASE k.err
  <2> DEFINE r == make_pre_resolved(e)
             j == h + (IF r.op = "READ_SEP" THEN 1 ELSE 0)
             YES == TRUE
             z == 0
             c == z + r.beats
  <2>1. /\ r \in Entry /\ r.num = n /\ r.op = k.op /\ r.beats = k.beats
        /\ r.err = "NDERR"
    BY PreIs
  <2>2. j = Len(ops) BY <1>1, <2>1 DEF s
  <2>3. /\ g = enqueue_read_completion(f, r) /\ (YES <=> NO \/ r.err = "NDERR")
        /\ r.op = "READ_SEP" => ops[j] = "RESP_SEP_DATA"
        /\ z \in Nat /\ z <= h /\ j <= Len(ops)
        /\ j = h + (IF r.op = "READ_SEP" THEN 1 ELSE 0)
    <3>1. Len(ops) \in Nat BY <1>1 DEF Ladder
    <3> QED BY <1>1, <1>3, <1>5, <1>7, <2>1, <2>2, <3>1
  <2> HIDE DEF r, j, YES, NO
  <2>4. Halfway(f, T, split, n, ops, z, h, z, NO, NO) BY <1>4
  <2>5. Halfway(g, T, split, n, ops, z, j, z + r.beats, NO, YES)
        /\ Grows(f, g, n)
    <3> HIDE DEF z
    <3> QED BY ONLY <1>1, <1>3, <2>1, <2>3, <2>4, n <= Len(T), ReadDone
  <2>6. Grows(d, g, n) BY <1>4, <2>5, GrowsTransitive
  <2>7. c = DatBeats(k) /\ c \in Nat BY <1>0, <1>6, <2>1 DEF DatBeats
  <2>8. j \in Nat /\ j = Len(ops) - HeldBack(ops, NO)
    <3>1. Len(ops) \in Nat BY <1>1 DEF Ladder
    <3>2. HeldBack(ops, NO) = 0 BY <1>2 DEF NO
    <3> QED BY <2>2, <3>1, <3>2
  <2>9. /\ c = IF NO THEN 0 ELSE DatBeats(k)
        /\ YES => Refused(k)
        /\ Refused(k) => YES \/ HeldBack(ops, NO) = 1
    BY <1>6, <1>7, <2>7 DEF YES, NO
  <2>10. Halfway(g, T, split, n, ops, 0, j, c, NO, YES) BY <2>5
  <2> HIDE DEF c, z
  <2> QED BY <2>6, <2>7, <2>8, <2>9, <2>10, NewServed
<1>8. CASE ~k.err
  <2> DEFINE YES == TRUE
  <2>1. g = issue_request(f, e) BY <1>5, <1>8
  <2>2. Matches(e, T[n].kind, split) BY <1>8 DEF Matches
  <2>3. ~T[n].kind.err /\ e.op \in {"READ", "READ_SEP", "WRITE", "WRITE_ZERO"}
    BY <1>8
  <2>4. Halfway(g, T, split, n, ops, 0, h, 0, YES, NO) /\ Grows(f, g, n)
    <3> DEFINE z == 0
    <3>1. Halfway(f, T, split, n, ops, z, h, z, NO, NO) BY <1>4
    <3> HIDE DEF z, NO
    <3>3. YES OBVIOUS
    <3> HIDE DEF YES
    <3>2. Halfway(g, T, split, n, ops, z, h, z, YES, NO) /\ Grows(f, g, n)
      BY <2>1, <2>2, <2>3, <3>1, <3>3, IssueStep
    <3> QED BY <3>2 DEF z
  <2>5. Grows(d, g, n) BY <1>4, <2>4, GrowsTransitive
  <2>6. h = Len(ops) - HeldBack(ops, YES)
    <3>1. Len(ops) \in Nat BY <1>1 DEF Ladder
    <3>2. HeldBack(ops, YES) = s BY <1>2
    <3> HIDE DEF YES
    <3> QED BY <1>1, <1>3, <3>1, <3>2
  <2>7. /\ 0 = IF YES THEN 0 ELSE DatBeats(k)
        /\ NO => Refused(k)
        /\ Refused(k) => NO \/ HeldBack(ops, YES) = 1
    BY <1>6, <1>8
  <2> DEFINE z == 0
  <2>8. /\ z \in Nat /\ z = IF YES THEN 0 ELSE DatBeats(k)
        /\ Halfway(g, T, split, n, ops, 0, h, z, YES, NO)
    BY <2>4
  <2> HIDE DEF YES, NO, z
  <2> QED BY <1>3, <2>5, <2>6, <2>7, <2>8, NewServed
<1> QED BY <1>0, <1>7, <1>8

LEMMA WriteHandled ==
  ASSUME NEW d, NEW T, NEW split \in BOOLEAN, NEW n, n <= Len(T),
         NEW k \in Request, T[n].kind = k, k.op = "WRITE",
         NEW e \in Entry, e.num = n, e.op = k.op, e.beats = k.beats,
         e.err = "OKAY", e.split <=> split \/ k.op # "WRITE",
         NEW ops, ops = Replies(k, split),
         Halfway(d, T, split, n, ops, 0, 0, 0, FALSE, FALSE),
         NEW g, g = handle_write_req(d, k, e)
  PROVE  Handled(d, g, T, split, n, k)
<1> DEFINE r == [e EXCEPT !.err = IF k.err THEN "NDERR" ELSE @]
           op == IF split THEN "DBID_RESP" ELSE "COMP_DBID_RESP"
           f == push_rsp(d, r, op, FALSE)
           NO == FALSE
           YES == TRUE
           z == 0
           h == 1
           a == ~split /\ k.err
<1>0. k.err \in BOOLEAN BY DEF Request
<1>1. /\ r \in Entry /\ r.op = e.op /\ r.num = n /\ r.beats = e.beats
      /\ r.split = e.split /\ r.err = IF k.err THEN "NDERR" ELSE "OKAY"
  <2>1. (IF k.err THEN "NDERR" ELSE e.err) \in Err BY DEF Err
  <2> QED BY <2>1 DEF Entry
<1>2. g = AddWrite(f, r)
  <2>1. queue_write_grant(d, r) = f
    <3> HIDE DEF r
    <3> QED BY <1>1 DEF queue_write_grant
  <2>2. g = [queue_write_grant(d, r) EXCEPT !.wr_await_q = Append(@, r)]
    BY DEF handle_write_req
  <2> HIDE DEF f, r
  <2> QED BY <2>1, <2>2 DEF AddWrite
<1>3. /\ Ladder(ops) /\ ops[1] = op /\ Len(ops) = IF split THEN 2 ELSE 1
      /\ ops = IF split THEN <<"DBID_RESP", "COMP">> ELSE <<"COMP_DBID_RESP">>
      /\ ops # <<>>
      /\ ops[Len(ops)] = IF split THEN "COMP" ELSE "COMP_DBID_RESP"
  <2>1. Ladder(ops) BY RepliesLadder
  <2>2. ops = IF split THEN <<"DBID_RESP", "COMP">> ELSE <<"COMP_DBID_RESP">>
    BY DEF Replies
  <2> QED BY <2>1, <2>2
<1>4. HeldBack(ops, YES) = IF split THEN 1 ELSE 0
  BY <1>3 DEF HeldBack
<1>5. op \in RspOp BY DEF RspOp
<1>6. ~IsRead(k) /\ (Refused(k) <=> k.err) BY DEF IsRead, Refused
<1>7. Halfway(d, T, split, n, ops, z, z, z, NO, NO) OBVIOUS
<1>8. Matches(r, T[n].kind, split)
  <2> HIDE DEF r
  <2>1. r.err = "NDERR" <=> k.err BY <1>0, <1>1
  <2> QED BY <1>1, <2>1 DEF Matches
<1>9. a <=> NO \/ (op # "DBID_RESP" /\ r.err = "NDERR")
  <2> HIDE DEF r
  <2> QED BY <1>0, <1>1
<1>10. z \in Nat /\ z <= z /\ h = z + 1 /\ NO \in BOOLEAN /\ h \in Nat
  OBVIOUS
<1>11. op = ops[h] /\ h <= Len(ops)
  <2> HIDE DEF op
  <2> QED BY <1>3
<1>12. f = push_rsp(d, r, op, NO) OBVIOUS
<1> HIDE DEF f, r, op, NO, z, h, YES
<1>13. Halfway(f, T, split, n, ops, z, h, z, NO, a) /\ Grows(d, f, n)
  <2> HIDE DEF a
  <2>1. r \in Entry /\ r.num = n /\ Ladder(ops) BY <1>1, <1>3
  <2> QED BY ONLY <2>1, <1>5, <1>7, <1>9, <1>10, <1>11, <1>12,
                  PushStep, SMTT(60)
<1>14. Halfway(g, T, split, n, ops, z, h, z, YES, a) /\ Grows(f, g, n)
  <2> HIDE DEF a
  <2>1. r \in Entry /\ r.num = n BY <1>1
  <2>2. YES BY DEF YES
  <2> QED BY ONLY <1>2, <1>8, <1>13, <2>1, <2>2, AwaitStep
<1>15. Grows(d, g, n) BY <1>13, <1>14, GrowsTransitive
<1>16. h = Len(ops) - HeldBack(ops, YES) BY <1>3, <1>4 DEF h
<1>17. /\ z = IF YES THEN 0 ELSE DatBeats(k)
       /\ a => Refused(k)
       /\ Refused(k) => a \/ HeldBack(ops, YES) = 1
  BY <1>4, <1>6 DEF z, YES
<1>18. Halfway(g, T, split, n, ops, 0, h, z, YES, a) BY <1>14 DEF z
<1> HIDE DEF a
<1> QED BY <1>10, <1>15, <1>16, <1>17, <1>18, NewServed

LEMMA ZeroHandled ==
  ASSUME NEW d, NEW T, NEW split \in BOOLEAN, NEW n, n <= Len(T),
         NEW k \in Request, T[n].kind = k, k.op = "WRITE_ZERO",
         NEW e \in Entry, e.num = n, e.op = k.op, e.beats = k.beats,
         e.err = "OKAY", e.split <=> split \/ k.op # "WRITE",
         NEW ops, ops = Replies(k, split),
         Halfway(d, T, split, n, ops, 0, 0, 0, FALSE, FALSE),
         NEW g, g = handle_write_zero_req(d, k, e)
  PROVE  Handled(d, g, T, split, n, k)
<1> DEFINE op == "DBID_RESP"
           f == push_rsp(d, e, op, FALSE)
           r == make_pre_resolved(e)
           NO == FALSE
           YES == TRUE
           z == 0
           h == 1
           j == 2
<1>0. k.err \in BOOLEAN BY DEF Request
<1>1. /\ r \in Entry /\ r.num = n /\ r.split = e.split /\ r.err = "NDERR"
      /\ e.split
  <2>1. e.split OBVIOUS
  <2> QED BY <2>1, PreIs
<1>2. queue_write_grant(d, e) = f BY <1>1 DEF queue_write_grant
<1>3. g = IF k.err THEN enqueue_write_completion(f, r) ELSE issue_request(f, e)
  BY <1>2 DEF handle_write_zero_req
<1>4. /\ Ladder(ops) /\ ops[1] = op /\ Len(ops) = 2 /\ ops[2] = "COMP"
      /\ ops # <<>>
  <2>1. Ladder(ops) BY RepliesLadder
  <2>2. ops = <<"DBID_RESP", "COMP">> BY DEF Replies
  <2> QED BY <2>1, <2>2
<1>5. HeldBack(ops, YES) = 1 /\ HeldBack(ops, NO) = 0 BY <1>4 DEF HeldBack
<1>6. ~IsRead(k) /\ (Refused(k) <=> k.err) /\ DatBeats(k) = 0
  BY DEF IsRead, Refused, DatBeats
<1>7. Halfway(d, T, split, n, ops, z, z, z, NO, NO) OBVIOUS
<1>8. /\ z \in Nat /\ z <= z /\ h = z + 1 /\ NO \in BOOLEAN /\ h \in Nat
      /\ z <= h /\ j \in Nat
  OBVIOUS
<1>9. op \in RspOp /\ (NO <=> NO \/ (op # "DBID_RESP" /\ e.err = "NDERR"))
  BY DEF RspOp
<1>10. op = ops[h] /\ h <= Len(ops) BY <1>4
<1>11. f = push_rsp(d, e, op, NO) OBVIOUS
<1> HIDE DEF f, r, op, NO, z, h, YES
<1>12. Halfway(f, T, split, n, ops, z, h, z, NO, NO) /\ Grows(d, f, n)
  BY ONLY <1>4, <1>7, <1>8, <1>9, <1>10, <1>11, e \in Entry, e.num = n,
          PushStep, SMTT(60)
<1>13. CASE k.err
  <2>1. g = enqueue_write_completion(f, r) BY <1>3, <1>13
  <2>2. /\ j = h + 1 /\ j <= Len(ops) /\ ops[j] = "COMP" /\ r.split
        /\ YES <=> NO \/ r.err = "NDERR"
    BY <1>1, <1>4 DEF h, YES
  <2> HIDE DEF j
  <2>3. Halfway(g, T, split, n, ops, z, j, z, NO, YES) /\ Grows(f, g, n)
    <3>1. r \in Entry /\ r.num = n /\ Ladder(ops) BY <1>1, <1>4
    <3>2. z \in Nat /\ h \in Nat /\ z <= h BY <1>8
    <3> QED BY ONLY <3>1, <3>2, <1>12, <2>1, <2>2, WriteDone
  <2>4. Grows(d, g, n) BY <1>12, <2>3, GrowsTransitive
  <2>5. j = Len(ops) - HeldBack(ops, NO) BY <1>4, <1>5 DEF j
  <2>6. /\ z = IF NO THEN 0 ELSE DatBeats(k)
        /\ YES => Refused(k)
        /\ Refused(k) => YES \/ HeldBack(ops, NO) = 1
    BY <1>6, <1>13 DEF z, NO, YES
  <2>7. Halfway(g, T, split, n, ops, 0, j, z, NO, YES) BY <2>3 DEF z
  <2> QED BY <1>8, <2>4, <2>5, <2>6, <2>7, NewServed
<1>14. CASE ~k.err
  <2>1. g = issue_request(f, e) BY <1>3, <1>14
  <2>2. /\ Matches(e, T[n].kind, split) /\ ~T[n].kind.err
        /\ e.op \in {"READ", "READ_SEP", "WRITE", "WRITE_ZERO"}
    BY <1>14 DEF Matches
  <2>3. Halfway(g, T, split, n, ops, z, h, z, YES, NO) /\ Grows(f, g, n)
    <3>1. YES BY DEF YES
    <3> QED BY ONLY <1>12, <2>1, <2>2, <3>1, e \in Entry, e.num = n,
                    IssueStep, ZenonT(60)
  <2>4. Grows(d, g, n) BY <1>12, <2>3, GrowsTransitive
  <2>5. h = Len(ops) - HeldBack(ops, YES) BY <1>4, <1>5 DEF h
  <2>6. /\ z = IF YES THEN 0 ELSE DatBeats(k)
        /\ NO => Refused(k)
        /\ Refused(k) => NO \/ HeldBack(ops, YES) = 1
    BY <1>6, <1>14 DEF z, NO, YES
  <2>7. Halfway(g, T, split, n, ops, 0, h, z, YES, NO) BY <2>3 DEF z
  <2> QED BY <1>8, <2>4, <2>5, <2>6, <2>7, NewServed
<1> QED BY <1>0, <1>13, <1>14

LEMMA PersistHandled ==
  ASSUME NEW d, NEW T, NEW split \in BOOLEAN, NEW n, n <= Len(T),
         NEW k \in Request, T[n].kind = k, k.op \in {"PERSIST", "PERSIST_SEP"},
         NEW e \in Entry, e.num = n, e.op = k.op, e.err = "OKAY",
         NEW ops, ops = Replies(k, split),
         Halfway(d, T, split, n, ops, 0, 0, 0, FALSE, FALSE),
         NEW g, g = handle_persist_req(d, e)
  PROVE  Handled(d, g, T, split, n, k)
<1> DEFINE op == IF k.op = "PERSIST_SEP" THEN "PERSIST" ELSE "COMP"
           lp == "COMP_PERSIST"
           f == push_rsp(d, e, op, FALSE)
           NO == FALSE
           z == 0
           h == 1
           j == IF k.op = "PERSIST_SEP" THEN 2 ELSE 1
<1>1. g = IF k.op = "PERSIST_SEP" THEN push_rsp(f, e, lp, FALSE) ELSE f
  BY DEF handle_persist_req
<1>2. /\ Ladder(ops) /\ ops[1] = op /\ Len(ops) = j
      /\ k.op = "PERSIST_SEP" => ops[2] = lp
  <2>1. Ladder(ops) BY RepliesLadder
  <2>2. ops = IF k.op = "PERSIST_SEP" THEN <<"PERSIST", "COMP_PERSIST">>
              ELSE <<"COMP">>
    BY DEF Replies
  <2> QED BY <2>1, <2>2
<1>3. HeldBack(ops, NO) = 0 BY DEF HeldBack
<1>4. ~Refused(k) /\ DatBeats(k) = 0
  BY DEF IsRead, Refused, DatBeats
<1>5. Halfway(d, T, split, n, ops, z, z, z, NO, NO) OBVIOUS
<1>6. /\ z \in Nat /\ z <= z /\ h = z + 1 /\ NO \in BOOLEAN /\ h \in Nat
      /\ z <= h /\ j \in Nat /\ h <= j
  OBVIOUS
<1>7. /\ op \in RspOp /\ lp \in RspOp
      /\ (NO <=> NO \/ (op # "DBID_RESP" /\ e.err = "NDERR"))
      /\ (NO <=> NO \/ (lp # "DBID_RESP" /\ e.err = "NDERR"))
  BY DEF RspOp
<1>8. op = ops[h] /\ h <= Len(ops)
  <2> HIDE DEF op, j
  <2> QED BY <1>2, <1>6
<1>9. f = push_rsp(d, e, op, NO) OBVIOUS
<1>10. j = IF k.op = "PERSIST_SEP" THEN h + 1 ELSE h OBVIOUS
<1> HIDE DEF f, op, lp, NO, z, h, j
<1>11. Halfway(f, T, split, n, ops, z, h, z, NO, NO) /\ Grows(d, f, n)
  BY ONLY <1>2, <1>5, <1>6, <1>7, <1>8, <1>9, e \in Entry, e.num = n,
          PushStep, SMTT(60)
<1>12. Halfway(g, T, split, n, ops, z, j, z, NO, NO) /\ Grows(d, g, n)
  <2>1. CASE k.op = "PERSIST_SEP"
    <3>1. g = push_rsp(f, e, lp, NO) BY <1>1, <2>1 DEF NO
    <3>2. j = h + 1 /\ j <= Len(ops) /\ lp = ops[j]
      BY <1>2, <1>6, <1>10, <2>1 DEF j
    <3>3. Halfway(g, T, split, n, ops, z, j, z, NO, NO) /\ Grows(f, g, n)
      BY ONLY <1>2, <1>6, <1>7, <1>11, <3>1, <3>2, e \in Entry, e.num = n,
              PushStep, SMTT(60)
    <3> QED BY <1>11, <3>3, GrowsTransitive
  <2>2. CASE k.op # "PERSIST_SEP"
    <3>1. g = f /\ j = h BY <1>1, <1>10, <2>2
    <3> QED BY <1>11, <3>1
  <2> QED BY <2>1, <2>2
<1>13. j = Len(ops) - HeldBack(ops, NO) BY <1>2, <1>3, <1>6
<1>14. /\ z = IF NO THEN 0 ELSE DatBeats(k)
       /\ NO => Refused(k)
       /\ Refused(k) => NO \/ HeldBack(ops, NO) = 1
  BY <1>4 DEF z, NO
<1>15. Halfway(g, T, split, n, ops, 0, j, z, NO, NO) BY <1>12 DEF z
<1> QED BY <1>6, <1>12, <1>13, <1>14, <1>15, NewServed

LEMMA UnsupportedHandled ==
  ASSUME NEW d, NEW T, NEW split \in BOOLEAN, NEW n, n <= Len(T),
         NEW k \in Request, T[n].kind = k, k.op \in {"ATOMIC", "OTHER"},
         NEW e \in Entry, e.num = n, e.op = k.op, e.beats = k.beats,
         e.split <=> split \/ k.op # "WRITE",
         NEW ops, ops = Replies(k, split),
         Halfway(d, T, split, n, ops, 0, 0, 0, FALSE, FALSE),
         NEW g, g = handle_unsupported_req(d, e)
  PROVE  Handled(d, g, T, split, n, k)
<1> DEFINE r == make_pre_resolved(e)
           NO == FALSE
           YES == TRUE
           z == 0
           j == IF k.op = "ATOMIC" THEN 0 ELSE 1
           c == IF k.op = "ATOMIC" THEN r.beats ELSE 0
<1>1. /\ r \in Entry /\ r.num = n /\ r.op = k.op /\ r.beats = k.beats
      /\ r.split /\ r.err = "NDERR"
  <2>1. e.split OBVIOUS
  <2> QED BY <2>1, PreIs
<1>2. g = IF k.op = "ATOMIC" THEN enqueue_read_completion(d, r)
          ELSE enqueue_write_completion(d, r)
  BY DEF handle_unsupported_req
<1>3. /\ Ladder(ops) /\ Len(ops) = j
      /\ k.op # "ATOMIC" => ops[1] = "COMP"
  <2>1. Ladder(ops) BY RepliesLadder
  <2>2. ops = IF k.op = "ATOMIC" THEN <<>> ELSE <<"COMP">> BY DEF Replies
  <2> QED BY <2>1, <2>2
<1>4. HeldBack(ops, NO) = 0 BY DEF HeldBack
<1>5. Refused(k) /\ (IsRead(k) <=> k.op = "ATOMIC") /\ k.beats \in Nat
  BY DEF IsRead, Refused, Request
<1>6. Halfway(d, T, split, n, ops, z, z, z, NO, NO) OBVIOUS
<1>7. /\ z \in Nat /\ z <= z /\ j \in Nat /\ j <= Len(ops)
      /\ YES <=> NO \/ r.err = "NDERR"
  BY <1>1, <1>3
<1>8. /\ k.op = "ATOMIC" =>
           /\ r.op # "READ_SEP" /\ j = z + (IF r.op = "READ_SEP" THEN 1 ELSE 0)
           /\ c = z + r.beats
      /\ k.op # "ATOMIC" =>
           /\ j = z + 1 /\ ops[j] = "COMP" /\ c = z
  <2> HIDE DEF r
  <2>1. r.beats \in Nat BY <1>1 DEF Entry
  <2> QED BY <1>1, <1>3, <2>1
<1> HIDE DEF r, NO, YES, z, j, c
<1>9. Halfway(g, T, split, n, ops, z, j, c, NO, YES) /\ Grows(d, g, n)
  <2>1. CASE k.op = "ATOMIC"
    <3>1. g = enqueue_read_completion(d, r) BY <1>2, <2>1
    <3>2. /\ r.op # "READ_SEP"
          /\ j = z + (IF r.op = "READ_SEP" THEN 1 ELSE 0)
          /\ c = z + r.beats
      BY <1>8, <2>1
    <3>3. Halfway(g, T, split, n, ops, z, j, z + r.beats, NO, YES)
          /\ Grows(d, g, n)
      BY ONLY <1>1, <1>3, <1>6, <1>7, <3>1, <3>2, n <= Len(T), ReadDone
    <3> QED BY <3>2, <3>3
  <2>2. CASE k.op # "ATOMIC"
    <3>1. g = enqueue_write_completion(d, r) BY <1>2, <2>2
    <3>2. j = z + 1 /\ ops[j] = "COMP" /\ c = z
      BY <1>8, <2>2
    <3>3. Halfway(g, T, split, n, ops, z, j, z, NO, YES) /\ Grows(d, g, n)
      BY ONLY <1>1, <1>3, <1>6, <1>7, <3>1, <3>2, WriteDone
    <3> QED BY <3>2, <3>3
  <2> QED BY <2>1, <2>2
<1>10. j = Len(ops) - HeldBack(ops, NO) BY <1>3, <1>4, <1>7
<1>11. /\ c = IF NO THEN 0 ELSE DatBeats(k)
       /\ c \in Nat
       /\ YES => Refused(k)
       /\ Refused(k) => YES \/ HeldBack(ops, NO) = 1
  BY <1>1, <1>5 DEF c, NO, YES, DatBeats
<1>12. Halfway(g, T, split, n, ops, 0, j, c, NO, YES) BY <1>9 DEF z
<1> QED BY <1>7, <1>9, <1>10, <1>11, <1>12, NewServed

(* Only the queues matter.                                                 *)
LEMMA ServedKept ==
  ASSUME NEW d, NEW g, g.wr_await_q = d.wr_await_q, g.req_port = d.req_port,
         ROut(g) = ROut(d), DOut(g) = DOut(d),
         NEW n, NEW t, NEW u, NEW split, Served(d, n, t, split),
         u.kind = t.kind, u.rsp = t.rsp, u.dat = t.dat, u.nderr = t.nderr
  PROVE  Served(g, n, u, split)
<1>1. Free(g, n) <=> Free(d, n) BY FreeKept
<1>2. Told(g, n) <=> Told(d, n) BY DEF Told
<1>3. HeldBack(Replies(u.kind, split), ~Free(g, n))
        = HeldBack(Replies(t.kind, split), ~Free(d, n))
  BY <1>1 DEF HeldBack
<1> QED BY <1>1, <1>2, <1>3 DEF Served

LEMMA AnswersKept ==
  ASSUME NEW d, NEW T, NEW split, Answers(d, T, split),
         NEW g, g.wr_await_q = d.wr_await_q, g.req_port = d.req_port,
         ROut(g) = ROut(d), DOut(g) = DOut(d)
  PROVE  Answers(g, T, split)
<1>1. Entries(g, T, split) BY EntriesKept DEF Answers
<1>2. \A n \in DOMAIN T : Served(g, n, T[n], split)
  BY ServedKept DEF Answers
<1> QED BY <1>1, <1>2 DEF Answers

LEMMA AsideAnswers ==
  ASSUME NEW d, NEW T, NEW split, Answers(d, T, split), NEW g, SameQueues(d, g)
  PROVE  Answers(g, T, split)
<1>1. ROut(g) = ROut(d) /\ DOut(g) = DOut(d) BY DEF SameQueues, ROut, DOut
<1>2. g.wr_await_q = d.wr_await_q /\ g.req_port = d.req_port
  BY DEF SameQueues
<1> QED BY <1>1, <1>2, AnswersKept

(* One request was worked on.                                              *)
LEMMA AnswersOne ==
  ASSUME NEW d, NEW T, NEW split, Answers(d, T, split), NEW n,
         NEW g, Grows(d, g, n), Entries(g, T, split),
         Served(g, n, T[n], split)
  PROVE  Answers(g, T, split)
<1>1. \A m \in DOMAIN T : Served(g, m, T[m], split)
  BY GrowsServed DEF Answers
<1> QED BY <1>1 DEF Answers

(* A request arrives of which nothing is on its way.                       *)
LEMMA FreshHalfway ==
  ASSUME NEW d \in Driver, NEW T, NEW split, Entries(d, T, split), NEW n,
         Free(d, n), NEW ops,
         \A i \in DOMAIN ROut(d) : ROut(d)[i].num # n,
         \A i \in DOMAIN DOut(d) : DOut(d)[i].num # n
  PROVE  Halfway(d, T, split, n, ops, 0, 0, 0, FALSE, FALSE)
<1>1. InLine(ROut(d), n, ops, 0, 0)
  <2>1. 0 + 1 .. 0 = {} OBVIOUS
  <2> QED BY <2>1 DEF InLine
<1>2. Cardinality(Marks(DOut(d), Of(n))) = 0
  <2>1. Marks(DOut(d), Of(n)) = {} BY DEF Marks, Of
  <2> QED BY <2>1, FS_EmptySet
<1>3. ~Told(d, n) BY DEF Told, ToldIn
<1>4. View(d, n, ops, 0, 0, 0, FALSE, FALSE) BY <1>1, <1>2, <1>3 DEF View
<1> QED BY <1>4 DEF Halfway

LEMMA RequestHandled ==
  ASSUME drv.cfg.split_write_rsp \in BOOLEAN,
         NEW d \in Driver, NEW T, Entries(d, T, drv.cfg.split_write_rsp),
         NEW n \in Nat \ {0}, n <= Len(T), NEW k \in Request, T[n].kind = k,
         Free(d, n), \A i \in DOMAIN ROut(d) : ROut(d)[i].num # n,
         \A i \in DOMAIN DOut(d) : DOut(d)[i].num # n,
         NEW g, g = handle_req(d, k, n)
  PROVE  Handled(d, g, T, drv.cfg.split_write_rsp, n, k)
<1> DEFINE f == [d EXCEPT !.tx_activity_count = @ + 1]
           e == new_entry_from_req(k, n)
           split == drv.cfg.split_write_rsp
           ops == Replies(k, split)
<1>1. /\ e \in Entry /\ e.num = n /\ e.op = k.op /\ e.beats = k.beats
      /\ e.err = "OKAY"
  BY NewEntryIs
<1>2. e.split <=> split \/ k.op # "WRITE" BY NewEntryIs
<1>3. /\ f \in Driver /\ f.wr_await_q = d.wr_await_q
      /\ f.req_port = d.req_port /\ ROut(f) = ROut(d) /\ DOut(f) = DOut(d)
  <2> DEFINE v == d.tx_activity_count + 1
  <2>1. v \in Nat BY OutTypes
  <2>2. f = [d EXCEPT !.tx_activity_count = v] OBVIOUS
  <2> HIDE DEF f, v
  <2>3. /\ f \in Driver /\ Kept(d, f)
        /\ f.wr_await_q = d.wr_await_q /\ f.req_port = d.req_port
        /\ f.dat_send_q = d.dat_send_q /\ f.rsp_send_q = d.rsp_send_q
    BY ONLY <2>1, <2>2, d \in Driver, UpdateCount
  <2> QED BY <2>3 DEF Kept, ROut, DOut
<1>4. g = CASE k.op \in {"READ", "READ_SEP"} -> handle_read_req(f, k, e)
            [] k.op = "WRITE" -> handle_write_req(f, k, e)
            [] k.op = "WRITE_ZERO" -> handle_write_zero_req(f, k, e)
            [] k.op \in {"PERSIST", "PERSIST_SEP"} -> handle_persist_req(f, e)
            [] OTHER -> handle_unsupported_req(f, e)
  BY DEF handle_req
<1>5. split \in BOOLEAN /\ ops = Replies(k, split) OBVIOUS
<1>6. Entries(d, T, split) OBVIOUS
<1>7. k.op \in ReqOp BY DEF Request, ReqOp
<1> HIDE DEF f, e, split, ops
<1>8. Entries(f, T, split) BY <1>3, <1>6, EntriesKept
<1>9. Free(f, n) BY <1>3, FreeKept
<1>10. Halfway(f, T, split, n, ops, 0, 0, 0, FALSE, FALSE)
  BY <1>3, <1>8, <1>9, FreshHalfway
<1>11. Handled(f, g, T, split, n, k)
  <2>1. CASE k.op \in {"READ", "READ_SEP"}
    <3>1. g = handle_read_req(f, k, e) BY <1>4, <2>1
    <3> QED BY <1>1, <1>2, <1>5, <1>10, <2>1, <3>1, ReadHandled
  <2>2. CASE k.op = "WRITE"
    <3>1. g = handle_write_req(f, k, e) BY <1>4, <2>2
    <3> QED BY <1>1, <1>2, <1>5, <1>10, <2>2, <3>1, WriteHandled
  <2>3. CASE k.op = "WRITE_ZERO"
    <3>1. g = handle_write_zero_req(f, k, e) BY <1>4, <2>3
    <3> QED BY <1>1, <1>2, <1>5, <1>10, <2>3, <3>1, ZeroHandled
  <2>4. CASE k.op \in {"PERSIST", "PERSIST_SEP"}
    <3>1. g = handle_persist_req(f, e) BY <1>4, <2>4
    <3> QED BY <1>1, <1>2, <1>5, <1>10, <2>4, <3>1, PersistHandled
  <2>5. CASE k.op \in {"ATOMIC", "OTHER"}
    <3>1. g = handle_unsupported_req(f, e) BY <1>4, <2>5
    <3> QED BY <1>1, <1>2, <1>5, <1>10, <2>5, <3>1, UnsupportedHandled
  <2> QED BY <1>7, <2>1, <2>2, <2>3, <2>4, <2>5 DEF ReqOp
<1>12. Grows(d, f, n) BY <1>3, ExtendsSame, FreeKept DEF Grows
<1>13. Grows(d, g, n) BY <1>11, <1>12, GrowsTransitive DEF Handled
<1>14. Handled(d, g, T, split, n, k) BY <1>11, <1>13 DEF Handled
<1> QED BY <1>14 DEF split

LEMMA RequestAnswers ==
  ASSUME drv.cfg.split_write_rsp \in BOOLEAN,
         NEW d, NEW T, Book(d, T, 0), Answers(d, T, drv.cfg.split_write_rsp),
         NEW k \in Request, NEW n, n = Len(T) + 1,
         NEW U, U = Append(T, NewTxn(k)),
         NEW g, g = handle_req(d, k, n)
  PROVE  g \in Driver /\ Answers(g, U, drv.cfg.split_write_rsp)
<1> DEFINE split == drv.cfg.split_write_rsp
<1>1. d \in Driver /\ T \in Seq(Txn)
      /\ Known(d.wr_await_q, d.req_port, ROut(d), T)
  BY DEF Book, Views
<1>2. /\ d.wr_await_q \in Seq(Entry) /\ d.req_port \in SUBSET Entry
      /\ ROut(d) \in Seq(RspFlit) /\ DOut(d) \in Seq(DatFlit)
  BY <1>1, OutTypes
<1>3. NewTxn(k) \in Txn /\ NewTxn(k).kind = k BY NewTxnIs DEF NewTxn
<1>4. /\ Len(T) \in Nat /\ Len(U) = n /\ n \in Nat \ {0}
      /\ U[n] = NewTxn(k) /\ DOMAIN T = 1 .. Len(T)
      /\ DOMAIN U = 1 .. n
      /\ \A i \in 1 .. Len(T) : U[i] = T[i]
  BY <1>1, <1>3
<1>5. \A i \in Nat \ {0} : i <= Len(T) => i \in 1 .. Len(T) /\ U[i] = T[i]
                                          /\ i <= Len(U) /\ i # n
  BY <1>4
<1>6. \A i \in DOMAIN d.wr_await_q :
        d.wr_await_q[i].num \in Nat \ {0} /\ d.wr_await_q[i].num <= Len(T)
  <2>1. \A i \in DOMAIN d.wr_await_q : d.wr_await_q[i] \in Entry BY <1>2
  <2>2. \A e \in Entry : e.num \in Nat \ {0} BY DEF Entry
  <2> QED BY <1>1, <2>1, <2>2 DEF Known
<1>7. \A e \in d.req_port : e.num \in Nat \ {0} /\ e.num <= Len(T)
  BY <1>1, <1>2 DEF Known, Entry
<1>8. \A i \in DOMAIN ROut(d) :
        ROut(d)[i].num \in Nat \ {0} /\ ROut(d)[i].num <= Len(T)
  <2>1. \A i \in DOMAIN ROut(d) : ROut(d)[i] \in RspFlit BY <1>2
  <2>2. \A e \in RspFlit : e.num \in Nat \ {0} BY DEF RspFlit
  <2> QED BY <1>1, <2>1, <2>2 DEF Known
<1>9. \A i \in DOMAIN DOut(d) :
        DOut(d)[i].num \in Nat \ {0} /\ DOut(d)[i].num <= Len(T)
  <2>1. \A i \in DOMAIN DOut(d) : DOut(d)[i] \in DatFlit BY <1>2
  <2>2. \A e \in DatFlit : e.num \in Nat \ {0} BY DEF DatFlit
  <2>3. \A i \in DOMAIN DOut(d) : DOut(d)[i].num <= Len(T)
    BY DEF Answers, Entries
  <2> QED BY <2>1, <2>2, <2>3
<1> HIDE DEF split
<1>10. Answers(d, T, split) BY DEF split
<1>11. Entries(d, U, split)
  BY <1>5, <1>6, <1>7, <1>9, <1>10 DEF Answers, Entries
<1>12. Free(d, n) BY <1>5, <1>6, <1>7 DEF Free
<1>13. /\ \A i \in DOMAIN ROut(d) : ROut(d)[i].num # n
       /\ \A i \in DOMAIN DOut(d) : DOut(d)[i].num # n
  BY <1>5, <1>8, <1>9
<1>14. n <= Len(U) /\ U[n].kind = k BY <1>3, <1>4
<1>15. Handled(d, g, U, split, n, k)
  BY <1>1, <1>4, <1>11, <1>12, <1>13, <1>14, RequestHandled DEF split
<1>16. ASSUME NEW m \in DOMAIN U PROVE Served(g, m, U[m], split)
  <2>1. CASE m = n BY <1>4, <1>15, <2>1 DEF Handled
  <2>2. CASE m # n
    <3>1. m \in DOMAIN T /\ U[m] = T[m] BY <1>4, <2>2
    <3>2. Served(d, m, U[m], split) BY <1>10, <3>1 DEF Answers
    <3> QED BY <1>15, <2>2, <3>2, GrowsServed DEF Handled
  <2> QED BY <2>1, <2>2
<1>17. Answers(g, U, split) BY <1>15, <1>16 DEF Handled, Answers
<1> QED BY <1>15, <1>17 DEF Handled, split

(* What the entry of a request still brings.                               *)
LEMMA LastReply ==
  ASSUME NEW k, NEW split \in BOOLEAN, NEW ops, ops = Replies(k, split),
         k.op \in {"READ", "READ_SEP", "WRITE", "WRITE_ZERO"},
         NEW s, s = IF \/ k.op = "READ_SEP" \/ k.op = "WRITE_ZERO"
                       \/ k.op = "WRITE" /\ split
                    THEN 1 ELSE 0
  PROVE  /\ Ladder(ops) /\ Len(ops) \in Nat /\ s \in Nat
         /\ \A p : HeldBack(ops, p) = IF p THEN s ELSE 0
         /\ s = 1 =>
              ops[Len(ops)]
                = IF k.op = "READ_SEP" THEN "RESP_SEP_DATA" ELSE "COMP"
<1>1. Ladder(ops) /\ Len(ops) \in Nat
  <2>1. Ladder(ops) BY RepliesLadder
  <2> QED BY <2>1 DEF Ladder
<1>2. /\ s = 1 => /\ ops # <<>>
                  /\ ops[Len(ops)]
                       = IF k.op = "READ_SEP" THEN "RESP_SEP_DATA" ELSE "COMP"
      /\ s # 1 => ops = <<>> \/ ops[Len(ops)] \notin {"RESP_SEP_DATA", "COMP"}
  <2>1. CASE k.op = "READ"
    <3>1. ops = (IF k.order THEN <<"READ_RECEIPT">> ELSE <<>>) /\ s = 0
      BY <2>1 DEF Replies
    <3> QED BY <3>1
  <2>2. CASE k.op = "READ_SEP"
    <3>1. ops = (IF k.order THEN <<"READ_RECEIPT", "RESP_SEP_DATA">>
                 ELSE <<"RESP_SEP_DATA">>)
      BY <2>2 DEF Replies
    <3>2. s = 1 BY <2>2
    <3> QED BY <2>2, <3>1, <3>2
  <2>3. CASE k.op = "WRITE" /\ split
    <3>1. ops = <<"DBID_RESP", "COMP">> BY <2>3 DEF Replies
    <3>2. s = 1 /\ k.op # "READ_SEP" BY <2>3
    <3> QED BY ONLY <3>1, <3>2
  <2>4. CASE k.op = "WRITE" /\ ~split
    <3>1. ops = <<"COMP_DBID_RESP">> BY <2>4 DEF Replies
    <3>2. s = 0 BY <2>4
    <3> QED BY <2>4, <3>1, <3>2
  <2>5. CASE k.op = "WRITE_ZERO"
    <3>1. ops = <<"DBID_RESP", "COMP">> BY <2>5 DEF Replies
    <3>2. s = 1 BY <2>5
    <3> QED BY <2>5, <3>1, <3>2
  <2> QED BY <2>1, <2>2, <2>3, <2>4, <2>5
<1>3. s \in {0, 1} OBVIOUS
<1>4. \A p : HeldBack(ops, p) = IF p THEN s ELSE 0
  <2> TAKE p
  <2>1. CASE s = 1
    <3>1. /\ ops # <<>> /\ ops[Len(ops)] \in {"RESP_SEP_DATA", "COMP"}
      BY <1>2, <2>1
    <3> QED BY ONLY <2>1, <3>1 DEF HeldBack
  <2>2. CASE s = 0
    <3>1. ops = <<>> \/ ops[Len(ops)] \notin {"RESP_SEP_DATA", "COMP"}
      BY <1>2, <2>2
    <3> QED BY ONLY <2>2, <3>1 DEF HeldBack
  <2> QED BY <1>3, <2>1, <2>2
<1> QED BY <1>1, <1>2, <1>4

LEMMA AnswerAnswers ==
  ASSUME NEW split \in BOOLEAN,
         NEW d, NEW T, Book(d, T, 0), Answers(d, T, split),
         NEW e \in d.req_port, NEW err \in {"OKAY", "DERR"},
         NEW g, g = complete([d EXCEPT !.req_port = @ \ {e}], e, err)
  PROVE  Answers(g, T, split)
<1> DEFINE f == [d EXCEPT !.req_port = @ \ {e}]
           r == [e EXCEPT !.err = err]
           n == e.num
           t == T[n]
           k == t.kind
           ops == Replies(k, split)
           YES == TRUE
           NO == FALSE
           s == IF \/ k.op = "READ_SEP" \/ k.op = "WRITE_ZERO"
                   \/ k.op = "WRITE" /\ split
                THEN 1 ELSE 0
<1>1. d \in Driver /\ T \in Seq(Txn) /\ Entries(d, T, split)
  BY DEF Book, Answers
<1>2. e \in Entry /\ n \in Nat \ {0} /\ n <= Len(T)
  <2>1. e \in Entry BY <1>1, OutTypes
  <2> QED BY <2>1 DEF Entry, Book, Views, Known
<1>3. n \in DOMAIN T /\ t \in Txn /\ k \in Request
  <2>1. n \in DOMAIN T BY <1>1, <1>2
  <2>2. t \in Txn BY <1>1, <2>1
  <2> QED BY <2>1, <2>2 DEF Txn
<1>4. /\ e.op = k.op /\ e.beats = k.beats
      /\ (e.split <=> split \/ k.op # "WRITE")
      /\ ~k.err /\ k.op \in {"READ", "READ_SEP", "WRITE", "WRITE_ZERO"}
  BY <1>1 DEF Entries, Matches
<1>5. /\ r \in Entry /\ r.op = e.op /\ r.num = n /\ r.beats = e.beats
      /\ r.err # "NDERR"
  BY <1>2 DEF Entry, Err
<1>6. r.split <=> e.split BY <1>2 DEF Entry
<1>7. Free(f, n)
  <2>1. 0 \in Int OBVIOUS
  <2> HIDE DEF n
  <2>2. Free(f, e.num) BY <2>1, FinishBook
  <2> QED BY <2>2 DEF n
<1>8. g = IF IsRead(e) THEN enqueue_read_completion(f, r)
          ELSE enqueue_write_completion(f, r)
  BY DEF complete
<1>9. ~Refused(k) /\ (IsRead(e) <=> k.op \in {"READ", "READ_SEP"})
      /\ k.beats \in Nat /\ DatBeats(k) = IF IsRead(e) THEN e.beats ELSE 0
  BY <1>3, <1>4 DEF Refused, IsRead, DatBeats, Request
<1>10. /\ Ladder(ops) /\ Len(ops) \in Nat /\ s \in Nat
       /\ HeldBack(ops, YES) = s /\ HeldBack(ops, NO) = 0
       /\ s = 1 =>
            ops[Len(ops)]
              = IF k.op = "READ_SEP" THEN "RESP_SEP_DATA" ELSE "COMP"
  <2>1. ops = Replies(k, split) OBVIOUS
  <2>2. s = IF \/ k.op = "READ_SEP" \/ k.op = "WRITE_ZERO"
               \/ k.op = "WRITE" /\ split
            THEN 1 ELSE 0
    OBVIOUS
  <2> HIDE DEF ops, s, k
  <2>3. /\ Ladder(ops) /\ Len(ops) \in Nat /\ s \in Nat
        /\ \A p : HeldBack(ops, p) = IF p THEN s ELSE 0
        /\ s = 1 =>
             ops[Len(ops)]
               = IF k.op = "READ_SEP" THEN "RESP_SEP_DATA" ELSE "COMP"
    BY <1>4, <2>1, <2>2, LastReply
  <2>4. HeldBack(ops, YES) = s BY <2>3
  <2>5. HeldBack(ops, NO) = 0 BY <2>3
  <2> QED BY <2>3, <2>4, <2>5
<1>11. YES <=> ~Free(d, n) BY DEF Free
<1>12. Served(d, n, t, split) BY <1>3 DEF Answers
<1>13. f = Without(d, e) /\ ops = Replies(t.kind, split) /\ n = e.num
  BY DEF Without
<1>30. ~NO OBVIOUS
<1>14. s = IF k.op = "READ_SEP" \/ (~IsRead(e) /\ e.split) THEN 1 ELSE 0
  BY <1>4, <1>9
<1>15. t.dat \in Nat /\ Len(t.rsp) \in Nat BY <1>3 DEF Txn
<1>16. e.beats \in Nat BY <1>2 DEF Entry
<1>17. YES /\ t.kind = k OBVIOUS
<1>18. n \in DOMAIN T /\ t = T[n] BY <1>3
<1> HIDE DEF f, r, n, t, k, ops, YES, NO, s
<1>19. PICK hi \in Nat, c \in Nat, b \in BOOLEAN :
         /\ Halfway(d, T, split, n, ops, Len(t.rsp), hi, c, YES, b)
         /\ Tally(t, ops, hi, c, YES, b)
  BY <1>1, <1>3, <1>11, <1>12, <1>13, ServedStart
<1> DEFINE lo == Len(t.rsp)
           h == Len(ops)
           m == c + DatBeats(k)
<1>20. Halfway(d, T, split, n, ops, lo, hi, c, YES, b) BY <1>19
<1>21. h = hi + s /\ h \in Nat /\ h <= Len(ops) /\ lo <= hi /\ lo \in Nat
       /\ (s = 0 \/ s = 1)
  BY <1>10, <1>14, <1>15, <1>19 DEF Tally
<1>22. b <=> b \/ r.err = "NDERR" BY <1>5
<1>23. DatBeats(k) \in Nat BY <1>9, <1>16
<1>24. m = c + (IF IsRead(e) THEN r.beats ELSE 0) BY <1>5, <1>9
<1>25. s = 1 => ops[h] = IF k.op = "READ_SEP" THEN "RESP_SEP_DATA" ELSE "COMP"
  BY <1>10
<1> HIDE DEF lo, h, m
<1>26. Halfway(f, T, split, n, ops, lo, hi, c, NO, b) /\ Grows(d, f, n)
  BY ONLY <1>7, <1>13, <1>20, <1>30, e \in d.req_port, FinishStep
<1>27. Halfway(g, T, split, n, ops, lo, h, m, NO, b) /\ Grows(f, g, n)
  <2>1. CASE IsRead(e)
    <3>1. g = enqueue_read_completion(f, r) BY <1>8, <2>1
    <3>2. /\ h = hi + (IF r.op = "READ_SEP" THEN 1 ELSE 0)
          /\ r.op = "READ_SEP" => ops[h] = "RESP_SEP_DATA"
      BY <1>4, <1>5, <1>14, <1>21, <1>25, <2>1
    <3>3. r \in Entry /\ r.num = n /\ n <= Len(T) BY <1>2, <1>5 DEF n
    <3>4. Ladder(ops) /\ lo \in Nat /\ lo <= hi /\ h <= Len(ops)
      BY <1>10, <1>21
    <3>5. Halfway(g, T, split, n, ops, lo, h, c + r.beats, NO, b)
          /\ Grows(f, g, n)
      BY ONLY <1>22, <1>26, <3>1, <3>2, <3>3, <3>4, hi \in Nat, ReadDone
    <3> QED BY <1>24, <2>1, <3>5
  <2>2. CASE ~IsRead(e) /\ e.split
    <3>1. g = enqueue_write_completion(f, r) BY <1>8, <2>2
    <3>2. h = hi + 1 /\ ops[h] = "COMP" /\ r.split
      BY <1>4, <1>6, <1>9, <1>14, <1>21, <1>25, <2>2
    <3>3. r \in Entry /\ r.num = n BY <1>5
    <3>4. Ladder(ops) /\ lo \in Nat /\ lo <= hi /\ h <= Len(ops)
      BY <1>10, <1>21
    <3>5. Halfway(g, T, split, n, ops, lo, h, c, NO, b) /\ Grows(f, g, n)
      BY ONLY <1>22, <1>26, <3>1, <3>2, <3>3, <3>4, hi \in Nat, WriteDone
    <3>6. m = c BY <1>24, <2>2
    <3> QED BY <3>5, <3>6
  <2>3. CASE ~IsRead(e) /\ ~e.split
    <3>1. g = f BY <1>6, <1>8, <2>3 DEF enqueue_write_completion
    <3>2. s = 0 BY <1>4, <1>9, <1>14, <2>3
    <3>3. h = hi /\ m = c BY <1>21, <1>24, <2>3, <3>2
    <3>4. Grows(f, f, n) BY ExtendsSame DEF Grows
    <3> QED BY <1>26, <3>1, <3>3, <3>4
  <2> QED BY <2>1, <2>2, <2>3
<1>28. Grows(d, g, n) BY <1>26, <1>27, GrowsTransitive
<1>29. Entries(g, T, split) /\ Served(g, n, t, split)
  <2>1. Halfway(g, T, split, n, ops, Len(t.rsp), h, m, NO, b)
    BY <1>27 DEF lo
  <2>2. h = Len(ops) - HeldBack(ops, NO) BY <1>10 DEF h
  <2>3. Len(t.rsp) <= h BY <1>10, <1>21 DEF lo
  <2>4. t.dat + m + (IF NO THEN DatBeats(t.kind) ELSE 0) = DatBeats(t.kind)
    <3>1. t.dat + c + DatBeats(k) = DatBeats(k) BY <1>17, <1>19 DEF Tally
    <3>2. t.dat + m = DatBeats(k) BY <1>15, <1>23, <3>1 DEF m
    <3> QED BY <1>15, <1>17, <1>23, <1>30, <3>2 DEF m
  <2>5. /\ t.nderr \/ b => Refused(t.kind)
        /\ Refused(t.kind) => t.nderr \/ b \/ HeldBack(ops, NO) = 1
    BY <1>9, <1>17, <1>19 DEF Tally
  <2> HIDE DEF h, m
  <2>6. \A i \in DOMAIN t.rsp : t.rsp[i] = ops[i] BY <1>19 DEF Tally
  <2>7. Tally(t, ops, h, m, NO, b)
    BY <2>2, <2>3, <2>4, <2>5, <2>6 DEF Tally
  <2> QED BY <1>13, <2>1, <2>7, ServedEnd
<1> QED BY <1>18, <1>28, <1>29, AnswersOne

LEMMA BeatAnswers ==
  ASSUME NEW split \in BOOLEAN,
         NEW d, NEW T, Book(d, T, 0), Answers(d, T, split),
         NEW i \in DOMAIN d.wr_await_q,
         NEW g, g = WithBeat(d, i)
  PROVE  g \in Driver /\ Answers(g, T, split)
<1> DEFINE w == d.wr_await_q[i]
           e == [w EXCEPT !.seen = @ + 1]
           f == [d EXCEPT !.wr_await_q = Drop(@, i)]
           r == make_pre_resolved(e)
           n == w.num
           t == T[n]
           k == t.kind
           ops == Replies(k, split)
           YES == TRUE
           NO == FALSE
           s == IF \/ k.op = "READ_SEP" \/ k.op = "WRITE_ZERO"
                   \/ k.op = "WRITE" /\ split
                THEN 1 ELSE 0
<1>1. d \in Driver /\ T \in Seq(Txn) /\ Entries(d, T, split)
  BY DEF Book, Answers
<1>2. w \in Entry /\ n \in Nat \ {0} /\ n <= Len(T)
  <2>1. w \in Entry BY <1>1, OutTypes
  <2> QED BY <2>1 DEF Entry, Book, Views, Known
<1>3. n \in DOMAIN T /\ t \in Txn /\ k \in Request
  <2>1. n \in DOMAIN T BY <1>1, <1>2
  <2>2. t \in Txn BY <1>1, <2>1
  <2> QED BY <2>1, <2>2 DEF Txn
<1>4. Matches(w, k, split) BY <1>1 DEF Entries
<1>5. w.op = "WRITE" /\ w.seen \in Nat
  <2>1. Waits(w, t, ROut(d)) BY DEF Book, Views, Writes
  <2> QED BY <1>2, <2>1 DEF Waits, Entry
<1>6. /\ e.op = w.op /\ e.num = w.num /\ e.beats = w.beats
      /\ e.split = w.split /\ e.err = w.err
  BY <1>2 DEF Entry
<1>7. e \in Entry
  <2> HIDE DEF w
  <2>1. w.seen + 1 \in Nat BY <1>5
  <2> QED BY <1>2, <2>1, Zenon DEF Entry
<1>8. g = IF e.seen < e.beats THEN Counting(d, i, e)
          ELSE IF e.err = "NDERR" THEN enqueue_write_completion(f, r)
          ELSE issue_request(f, e)
  BY DEF WithBeat, Counting
<1>9. f = Dropping(d, i) /\ Free(f, n)
  <2>1. f = Dropping(d, i) BY DEF Dropping
  <2>2. Free(f, d.wr_await_q[i].num)
    BY 0 \in Int, DropBook
  <2> QED BY <2>1, <2>2
<1>10. YES <=> ~Free(d, n) BY DEF Free
<1>11. Served(d, n, t, split) BY <1>3 DEF Answers
<1>12. /\ n = d.wr_await_q[i].num /\ ops = Replies(t.kind, split) /\ t = T[n]
       /\ e.num = n /\ e.op = d.wr_await_q[i].op
       /\ e.beats = d.wr_await_q[i].beats /\ e.split = d.wr_await_q[i].split
       /\ e.err = d.wr_await_q[i].err /\ k = T[n].kind
  BY <1>6
<1>13. Matches(e, T[n].kind, split) BY <1>4, <1>6 DEF Matches
<1>14. /\ k.op = "WRITE" /\ (e.split <=> split) /\ (e.err = "NDERR" <=> k.err)
  BY <1>4, <1>5, <1>6 DEF Matches
<1>15. /\ r \in Entry /\ r.num = n /\ r.err = "NDERR"
  <2> HIDE DEF e
  <2> QED BY <1>7, <1>12, PreIs
<1>16. r.split = e.split
  <2> HIDE DEF e
  <2> QED BY <1>7, PreIs
<1>17. /\ Ladder(ops) /\ Len(ops) \in Nat /\ s \in Nat
       /\ HeldBack(ops, YES) = s /\ HeldBack(ops, NO) = 0
       /\ s = 1 => ops[Len(ops)] = "COMP"
  <2>1. ops = Replies(k, split) OBVIOUS
  <2>2. s = IF \/ k.op = "READ_SEP" \/ k.op = "WRITE_ZERO"
               \/ k.op = "WRITE" /\ split
            THEN 1 ELSE 0
    OBVIOUS
  <2> HIDE DEF ops, s, k
  <2>3. /\ Ladder(ops) /\ Len(ops) \in Nat /\ s \in Nat
        /\ \A p : HeldBack(ops, p) = IF p THEN s ELSE 0
        /\ s = 1 =>
             ops[Len(ops)]
               = IF k.op = "READ_SEP" THEN "RESP_SEP_DATA" ELSE "COMP"
    BY <1>14, <2>1, <2>2, LastReply
  <2>4. HeldBack(ops, YES) = s BY <2>3
  <2>5. HeldBack(ops, NO) = 0 BY <2>3
  <2>6. k.op # "READ_SEP" BY <1>14
  <2> QED BY <2>3, <2>4, <2>5, <2>6
<1>18. s = IF split THEN 1 ELSE 0 BY <1>14
<1>19. /\ Refused(k) <=> k.err
       /\ DatBeats(k) = 0
  BY <1>14 DEF Refused, DatBeats, IsRead
<1>20. YES /\ ~NO /\ t.kind = k OBVIOUS
<1>21. Len(t.rsp) \in Nat BY <1>3 DEF Txn
<1> HIDE DEF w, f, r, e, n, t, k, ops, YES, NO, s
<1>22. PICK hi \in Nat, c \in Nat, b \in BOOLEAN :
         /\ Halfway(d, T, split, n, ops, Len(t.rsp), hi, c, YES, b)
         /\ Tally(t, ops, hi, c, YES, b)
  <2>1. d \in Driver /\ Entries(d, T, split) BY <1>1
  <2>2. t \in Txn /\ ops = Replies(t.kind, split) BY <1>3, <1>12
  <2> QED BY ONLY <2>1, <2>2, <1>10, <1>11, ServedStart
<1> DEFINE lo == Len(t.rsp)
<1>23. Halfway(d, T, split, n, ops, lo, hi, c, YES, b) BY <1>22
<1>24. hi = Len(ops) - s /\ lo <= hi /\ lo \in Nat
  BY <1>17, <1>21, <1>22 DEF Tally
<1> HIDE DEF lo
<1>25. Grows(d, g, n) /\ g \in Driver
         /\ Entries(g, T, split) /\ Served(g, n, t, split)
  <2>1. CASE e.seen < e.beats
    <3>1. g = Counting(d, i, e) BY <1>8, <2>1
    <3>2. Halfway(g, T, split, n, ops, lo, hi, c, YES, b) /\ Grows(d, g, n)
      BY ONLY <1>7, <1>12, <1>23, <3>1, i \in DOMAIN d.wr_await_q, SeenStep
    <3>3. Halfway(g, T, split, n, ops, Len(t.rsp), hi, c, YES, b)
      BY <3>2 DEF lo
    <3>4. g \in Driver /\ Entries(g, T, split) /\ Served(g, n, t, split)
      BY <1>12, <1>22, <3>3, ServedEnd
    <3> QED BY <3>2, <3>4
  <2>2. CASE ~(e.seen < e.beats)
    <3>1. Halfway(f, T, split, n, ops, lo, hi, c, NO, b) /\ Grows(d, f, n)
      BY ONLY <1>9, <1>12, <1>20, <1>23, i \in DOMAIN d.wr_await_q, DropStep
    <3>2. CASE e.err = "NDERR"
      <4>1. g = enqueue_write_completion(f, r) BY <1>8, <2>2, <3>2
      <4> DEFINE h == Len(ops)
                 a == b \/ split
      <4>2. Halfway(g, T, split, n, ops, lo, h, c, NO, a) /\ Grows(f, g, n)
        <5>1. CASE split
          <6>1. h = hi + 1 /\ h <= Len(ops) /\ ops[h] = "COMP" /\ h \in Nat
            BY <1>17, <1>18, <1>24, <5>1
          <6>2. r.split /\ (a <=> b \/ r.err = "NDERR")
            BY <1>14, <1>15, <1>16, <5>1
          <6>3. Ladder(ops) /\ lo \in Nat /\ lo <= hi BY <1>17, <1>24
          <6> HIDE DEF h, a
          <6> QED BY ONLY <1>15, <3>1, <4>1, <6>1, <6>2, <6>3, hi \in Nat,
                          WriteDone
        <5>2. CASE ~split
          <6>1. g = f
            BY <1>14, <1>16, <4>1, <5>2 DEF enqueue_write_completion
          <6>2. h = hi /\ (a <=> b) BY <1>17, <1>18, <1>24, <5>2
          <6>3. Grows(f, f, n) BY ExtendsSame DEF Grows
          <6> HIDE DEF h, a
          <6>4. Halfway(f, T, split, n, ops, lo, hi, c, NO, a)
            BY <3>1, <6>2, HalfwaySame
          <6> QED BY <6>1, <6>2, <6>3, <6>4
        <5> QED BY <5>1, <5>2
      <4>3. Tally(t, ops, h, c, NO, a)
        <5>1. h = Len(ops) - HeldBack(ops, NO) /\ Len(t.rsp) <= h
          <6>1. HeldBack(ops, NO) = 0 /\ s \in Nat /\ Len(ops) \in Nat
            BY <1>17
          <6>2. hi = Len(ops) - s /\ Len(t.rsp) <= hi /\ Len(t.rsp) \in Nat
            BY <1>21, <1>24 DEF lo
          <6> QED BY ONLY <6>1, <6>2 DEF h
        <5>2. \A j \in DOMAIN t.rsp : t.rsp[j] = ops[j] BY <1>22 DEF Tally
        <5>3. t.dat + c + (IF NO THEN DatBeats(t.kind) ELSE 0)
                = DatBeats(t.kind)
          BY <1>19, <1>20, <1>22 DEF Tally
        <5>4. Refused(t.kind) BY <1>14, <1>19, <1>20, <3>2
        <5>5. t.nderr \/ a
          <6>1. t.nderr \/ b \/ HeldBack(ops, YES) = 1
            BY <1>22, <5>4 DEF Tally
          <6> QED BY <1>17, <1>18, <6>1
        <5> HIDE DEF h, a
        <5> QED BY <5>1, <5>2, <5>3, <5>4, <5>5 DEF Tally
      <4> HIDE DEF h, a
      <4>4. Grows(d, g, n) BY <3>1, <4>2, GrowsTransitive
      <4>5. Halfway(g, T, split, n, ops, Len(t.rsp), h, c, NO, a)
        BY <4>2 DEF lo
      <4>6. g \in Driver /\ Entries(g, T, split) /\ Served(g, n, t, split)
        BY <1>12, <4>3, <4>5, ServedEnd
      <4> QED BY <4>4, <4>6
    <3>3. CASE e.err # "NDERR"
      <4>1. g = issue_request(f, e) BY <1>8, <2>2, <3>3
      <4>2. /\ ~T[n].kind.err /\ e.op \in {"READ", "READ_SEP", "WRITE",
                                           "WRITE_ZERO"}
            /\ e.num = n
        BY <1>5, <1>6, <1>12, <1>14, <3>3
      <4>3. Halfway(g, T, split, n, ops, lo, hi, c, YES, b) /\ Grows(f, g, n)
        BY ONLY <1>7, <1>13, <1>20, <3>1, <4>1, <4>2, IssueStep, ZenonT(60)
      <4>4. Grows(d, g, n) BY <3>1, <4>3, GrowsTransitive
      <4>5. Halfway(g, T, split, n, ops, Len(t.rsp), hi, c, YES, b)
        BY <4>3 DEF lo
      <4>6. g \in Driver /\ Entries(g, T, split) /\ Served(g, n, t, split)
        BY <1>12, <1>22, <4>5, ServedEnd
      <4> QED BY <4>4, <4>6
    <3> QED BY <3>2, <3>3
  <2> QED BY <2>1, <2>2
<1> QED BY <1>12, <1>25, AnswersOne

(* Data is taken.                                                          *)
LEMMA DataAnswers ==
  ASSUME NEW split \in BOOLEAN,
         NEW d, NEW T, Book(d, T, 0), Answers(d, T, split),
         NEW n, NEW g, g = handle_write_data(d, n)
  PROVE  g \in Driver /\ Answers(g, T, split)
<1>1. CASE Awaiting(d, n) = {}
  <2>1. g = d BY <1>1 DEF handle_write_data
  <2>2. d \in Driver BY DEF Book
  <2> QED BY <2>1, <2>2
<1>2. CASE Awaiting(d, n) # {}
  <2>1. PICK i \in DOMAIN d.wr_await_q : g = WithBeat(d, i)
    BY <1>2, OneWaits
  <2> QED BY <2>1, BeatAnswers
<1> QED BY <1>1, <1>2

(* What the answers rest on of what the peer keeps.                        *)
LEMMA TxnEntries ==
  ASSUME NEW split, NEW d, NEW T \in Seq(Txn), Entries(d, T, split),
         NEW U \in Seq(Txn), Book(d, U, 0), Len(U) = Len(T),
         \A i \in DOMAIN T : U[i].kind = T[i].kind
  PROVE  Entries(d, U, split)
<1>1. d \in Driver /\ Known(d.wr_await_q, d.req_port, ROut(d), U)
  BY DEF Book, Views
<1>2. DOMAIN T = 1 .. Len(T) /\ Len(T) \in Nat OBVIOUS
<1>3. /\ d.wr_await_q \in Seq(Entry) /\ d.req_port \in SUBSET Entry
  BY <1>1, OutTypes
<1>4. \A e \in Entry : e.num \in Nat \ {0} BY DEF Entry
<1>5. ASSUME NEW i \in DOMAIN d.wr_await_q
      PROVE  U[d.wr_await_q[i].num].kind = T[d.wr_await_q[i].num].kind
  <2>1. d.wr_await_q[i] \in Entry BY <1>3
  <2>2. d.wr_await_q[i].num \in Nat \ {0} BY <1>4, <2>1
  <2>3. d.wr_await_q[i].num <= Len(T) BY <1>1 DEF Known
  <2>4. d.wr_await_q[i].num \in DOMAIN T BY <1>2, <2>2, <2>3
  <2> QED BY <2>4
<1>6. ASSUME NEW e \in d.req_port
      PROVE  U[e.num].kind = T[e.num].kind
  <2>1. e.num \in Nat \ {0} BY <1>3, <1>4
  <2>2. e.num <= Len(T) BY <1>1 DEF Known
  <2>3. e.num \in DOMAIN T BY <1>2, <2>1, <2>2
  <2> QED BY <2>3
<1> QED BY ONLY Entries(d, T, split), <1>5, <1>6, Len(U) = Len(T) DEF Entries

LEMMA TxnAnswers ==
  ASSUME NEW split, NEW d, NEW T \in Seq(Txn), Answers(d, T, split),
         NEW U \in Seq(Txn), Book(d, U, 0), Len(U) = Len(T),
         \A i \in DOMAIN T :
           /\ U[i].kind = T[i].kind /\ U[i].rsp = T[i].rsp
           /\ U[i].dat = T[i].dat /\ U[i].nderr = T[i].nderr
  PROVE  Answers(d, U, split)
<1>1. DOMAIN U = DOMAIN T OBVIOUS
<1>2. Entries(d, U, split) BY TxnEntries DEF Answers
<1>3. \A i \in DOMAIN U : Served(d, i, U[i], split)
  BY <1>1, ServedKept DEF Answers
<1> QED BY <1>2, <1>3 DEF Answers

LEMMA RegrantAnswers ==
  ASSUME NEW split, NEW d \in Driver, NEW T, Answers(d, T, split),
         NEW c \in Channel, NEW g, g = Regrant(d, c)
  PROVE  Answers(g, T, split)
BY RegrantIs, AsideAnswers DEF Aside

LEMMA ReceiveReqAnswers ==
  ASSUME peer \in Peer, drv \in Driver, NEW in, Sane(in),
         NEW d, Book(d, peer.txn, 0),
         Answers(d, peer.txn, drv.cfg.split_write_rsp),
         NEW g, g = receive_req(d, in)
  PROVE  Answers(g, Asked(in), drv.cfg.split_write_rsp)
<1>1. drv.cfg \in Cfg /\ drv.cfg.kind \subseteq Request
      /\ drv.cfg.split_write_rsp \in BOOLEAN
  BY DriverTypes, CfgTypes
<1>2. CASE in.req \in {None, Return}
  <2>1. g = d BY <1>2 DEF receive_req
  <2>2. Asked(in) = peer.txn BY <1>1, <1>2, RequestIs DEF Asked
  <2> QED BY <2>1, <2>2
<1>3. CASE in.req \notin {None, Return}
  <2> DEFINE k == in.req
             n == Len(peer.txn) + 1
             f == handle_req(d, k, n)
  <2>1. in.num = n BY DEF Sane
  <2>2. g = Regrant(f, "req") BY <1>3, <2>1 DEF receive_req
  <2>3. k \in drv.cfg.kind BY <1>3 DEF Sane
  <2>4. k \in Request BY <1>1, <2>3
  <2>5. Asked(in) = Append(peer.txn, NewTxn(k)) BY <2>3 DEF Asked
  <2>6. "req" \in Channel BY DEF Channel
  <2> HIDE DEF k, n
  <2>7. f \in Driver /\ Answers(f, Asked(in), drv.cfg.split_write_rsp)
    <3>1. n = Len(peer.txn) + 1 BY DEF n
    <3> HIDE DEF f
    <3>2. f = handle_req(d, k, n) BY DEF f
    <3> QED BY <1>1, <2>4, <2>5, <3>1, <3>2, RequestAnswers
  <2> HIDE DEF f
  <2> QED BY <2>2, <2>6, <2>7, RegrantAnswers
<1> QED BY <1>2, <1>3

LEMMA ReceiveDatAnswers ==
  ASSUME peer \in Peer, drv \in Driver, NEW in, Sane(in),
         NEW split \in BOOLEAN,
         NEW d, Book(d, Asked(in), 0), Answers(d, Asked(in), split),
         NEW g, g = receive_dat(d, in)
  PROVE  Answers(g, Paid(in), split)
<1> DEFINE T == Asked(in)
           U == Paid(in)
           f == IF in.dat = Return THEN d ELSE handle_write_data(d, in.datnum)
<1>1. Book(g, U, 0) BY ReceiveDatBook
<1>2. g = IF in.dat = None THEN d ELSE Regrant(f, "dat") BY DEF receive_dat
<1>3. Answers(d, T, split) /\ Book(d, T, 0) OBVIOUS
<1>4. /\ U \in Seq(Txn) /\ Len(U) = Len(T)
      /\ \A i \in DOMAIN T :
           /\ U[i].kind = T[i].kind /\ U[i].rsp = T[i].rsp
           /\ U[i].dat = T[i].dat /\ U[i].nderr = T[i].nderr
  BY PaidIs
<1> HIDE DEF T, U
<1>5. in.dat # None => f \in Driver /\ Answers(f, T, split)
  <2> SUFFICES ASSUME in.dat # None PROVE f \in Driver /\ Answers(f, T, split)
    OBVIOUS
  <2>1. CASE in.dat = Return
    <3>1. f = d BY <2>1
    <3>2. d \in Driver BY <1>3 DEF Book
    <3> QED BY <1>3, <3>1, <3>2
  <2>2. CASE in.dat # Return
    <3>1. f = handle_write_data(d, in.datnum) BY <2>2
    <3>2. in.dat = Data BY <2>2 DEF Sane
    <3> QED BY <1>3, <3>1, DataAnswers
  <2> QED BY <2>1, <2>2
<1> HIDE DEF f
<1>6. Answers(g, T, split)
  <2>1. CASE in.dat = None BY <1>2, <1>3, <2>1
  <2>2. CASE in.dat # None
    <3>1. "dat" \in Channel BY DEF Channel
    <3>2. g = Regrant(f, "dat") BY <1>2, <2>2
    <3> QED BY <1>5, <2>2, <3>1, <3>2, RegrantAnswers
  <2> QED BY <2>1, <2>2
<1>7. T \in Seq(Txn) BY <1>3 DEF Book
<1>8. Answers(g, U, split) BY <1>1, <1>4, <1>6, <1>7, TxnAnswers
<1> QED BY <1>8 DEF U

(* Sequence r is what is left of q once a, the flit ahead if there is one, *)
(* is gone.                                                                *)
Passed(a, q, r) ==
  IF a = <<>> THEN r = q
  ELSE q # <<>> /\ Head(q) = Head(a) /\ r = Tail(q)

Mine(a, n) == a # <<>> /\ Head(a).num = n

(* What the peer keeps of request n when response a reached it, and when   *)
(* data b reached it.                                                      *)
GetsRsp(t, v, n, a) ==
  /\ v.kind = t.kind /\ v.dat = t.dat
  /\ IF Mine(a, n)
     THEN /\ Len(v.rsp) = Len(t.rsp) + 1
          /\ DOMAIN v.rsp = 1 .. Len(t.rsp) + 1
          /\ \A i \in DOMAIN t.rsp : v.rsp[i] = t.rsp[i]
          /\ v.rsp[Len(t.rsp) + 1] = Head(a).op
     ELSE v.rsp = t.rsp
  /\ v.nderr <=> t.nderr \/ (Mine(a, n) /\ Head(a).err = "NDERR")

GetsDat(t, v, n, b) ==
  /\ v.kind = t.kind /\ v.rsp = t.rsp
  /\ v.dat = t.dat + (IF Mine(b, n) THEN 1 ELSE 0)
  /\ v.nderr <=> t.nderr \/ (Mine(b, n) /\ Head(b).err = "NDERR")

LEMMA ToldPassed ==
  ASSUME NEW X, NEW q \in Seq(X), NEW a, NEW r, Passed(a, q, r), NEW n
  PROVE  ToldIn(q, n)
           <=> ToldIn(r, n) \/ (Mine(a, n) /\ Head(a).err = "NDERR")
BY ToldTail DEF Passed, Mine

LEMMA RspServed ==
  ASSUME NEW d \in Driver, NEW g, g.wr_await_q = d.wr_await_q,
         g.req_port = d.req_port, DOut(g) = DOut(d),
         NEW a, Passed(a, ROut(d), ROut(g)),
         NEW split, NEW n, NEW t \in Txn, Served(d, n, t, split),
         NEW v, GetsRsp(t, v, n, a)
  PROVE  Served(g, n, v, split)
<1> DEFINE ops == Replies(t.kind, split)
           p == ~Free(d, n)
           z == HeldBack(ops, p)
           hi == Len(ops) - z
           lo == Len(t.rsp)
           c == Cardinality(Marks(DOut(d), Of(n)))
           w == IF p THEN DatBeats(t.kind) ELSE 0
<1>1. /\ lo <= hi /\ \A i \in DOMAIN t.rsp : t.rsp[i] = ops[i]
      /\ InLine(ROut(d), n, ops, lo, hi)
      /\ t.dat + c + w = DatBeats(t.kind)
      /\ t.nderr \/ Told(d, n) => Refused(t.kind)
      /\ Refused(t.kind) => t.nderr \/ Told(d, n) \/ z = 1
  BY DEF Served
<1>2. ROut(d) \in Seq(RspFlit) BY OutTypes
<1>3. v.kind = t.kind /\ v.dat = t.dat BY DEF GetsRsp
<1>4. Free(g, n) <=> Free(d, n) BY FreeKept
<1>5. t.nderr \/ Told(d, n) <=> v.nderr \/ Told(g, n)
  BY <1>2, ToldPassed DEF Told, GetsRsp
<1>6. SUFFICES /\ Len(v.rsp) <= hi
               /\ \A i \in DOMAIN v.rsp : v.rsp[i] = ops[i]
               /\ InLine(ROut(g), n, ops, Len(v.rsp), hi)
  <2>1. /\ ops = Replies(v.kind, split)
        /\ z = HeldBack(Replies(v.kind, split), ~Free(g, n))
        /\ w = IF ~Free(g, n) THEN DatBeats(v.kind) ELSE 0
        /\ c = Cardinality(Marks(DOut(g), Of(n)))
    BY <1>3, <1>4 DEF HeldBack
  <2> DEFINE ops2 == Replies(v.kind, split)
             z2 == HeldBack(ops2, ~Free(g, n))
             w2 == IF ~Free(g, n) THEN DatBeats(v.kind) ELSE 0
  <2>2. ops2 = ops /\ z2 = z /\ w2 = w BY <2>1
  <2>3. hi = Len(ops) - z OBVIOUS
  <2> HIDE DEF ops, hi, z, c, w
  <2>4. Len(ops2) - z2 = hi BY <2>2, <2>3
  <2>5. v.dat + c + w2 = DatBeats(v.kind) BY <1>1, <1>3, <2>2
  <2>6. v.nderr \/ Told(g, n) => Refused(v.kind) BY <1>1, <1>3, <1>5
  <2>7. Refused(v.kind) => v.nderr \/ Told(g, n) \/ z2 = 1
    BY <1>1, <1>3, <1>5, <2>2
  <2>8. ASSUME /\ Len(v.rsp) <= hi
               /\ \A i \in DOMAIN v.rsp : v.rsp[i] = ops[i]
               /\ InLine(ROut(g), n, ops, Len(v.rsp), hi)
        PROVE  /\ Len(v.rsp) <= Len(ops2) - z2
               /\ \A i \in DOMAIN v.rsp : v.rsp[i] = ops2[i]
               /\ InLine(ROut(g), n, ops2, Len(v.rsp), Len(ops2) - z2)
    BY <2>2, <2>4, <2>8
  <2>9. v.dat + Cardinality(Marks(DOut(g), Of(n))) + w2 = DatBeats(v.kind)
    BY <2>1, <2>5
  <2> QED BY <2>6, <2>7, <2>8, <2>9 DEF Served
<1>7. Ladder(ops) BY RepliesLadder
<1>8. z \in {0, 1} BY DEF HeldBack
<1>9. lo \in Nat /\ DOMAIN t.rsp = 1 .. lo BY DEF Txn
<1> HIDE DEF ops, z, lo
<1>10. hi \in Nat /\ hi <= Len(ops)
  <2>1. Len(ops) \in Nat BY <1>7 DEF Ladder
  <2> QED BY ONLY <1>1, <1>8, <1>9, <2>1
<1> HIDE DEF hi
<1>11. CASE Mine(a, n)
  <2>1. /\ ROut(d) # <<>> /\ Head(ROut(d)) = Head(a)
        /\ ROut(g) = Tail(ROut(d)) /\ Head(a).num = n
    BY <1>11 DEF Passed, Mine
  <2>2. /\ Len(v.rsp) = lo + 1 /\ DOMAIN v.rsp = 1 .. lo + 1
        /\ \A i \in DOMAIN t.rsp : v.rsp[i] = t.rsp[i]
        /\ v.rsp[lo + 1] = Head(a).op
    BY <1>11 DEF GetsRsp, lo
  <2>3. /\ lo < hi /\ Head(ROut(d)).op = ops[lo + 1]
        /\ InLine(Tail(ROut(d)), n, ops, lo + 1, hi)
    BY <1>1, <1>2, <1>7, <1>9, <1>10, <2>1, InLineTail
  <2>4. lo + 1 <= hi BY <1>9, <1>10, <2>3
  <2>5. \A i \in 1 .. lo + 1 : i \in 1 .. lo \/ i = lo + 1 BY <1>9
  <2>6. \A i \in DOMAIN v.rsp : v.rsp[i] = ops[i]
    BY <1>1, <1>9, <2>1, <2>2, <2>3, <2>5
  <2> QED BY <2>1, <2>2, <2>3, <2>4, <2>6
<1>12. CASE ~Mine(a, n)
  <2>1. v.rsp = t.rsp BY <1>12 DEF GetsRsp
  <2>2. InLine(ROut(g), n, ops, lo, hi)
    BY <1>1, <1>2, <1>12, InLineOther DEF Passed, Mine
  <2> QED BY <1>1, <2>1, <2>2 DEF lo
<1> QED BY <1>11, <1>12

LEMMA DatServed ==
  ASSUME NEW d \in Driver, NEW g, g.wr_await_q = d.wr_await_q,
         g.req_port = d.req_port, ROut(g) = ROut(d),
         NEW b, Passed(b, DOut(d), DOut(g)),
         NEW split, NEW n, NEW t \in Txn, Served(d, n, t, split),
         NEW v, GetsDat(t, v, n, b)
  PROVE  Served(g, n, v, split)
<1> DEFINE ops == Replies(t.kind, split)
           p == ~Free(d, n)
           c == Cardinality(Marks(DOut(d), Of(n)))
           e == Cardinality(Marks(DOut(g), Of(n)))
           w == IF p THEN DatBeats(t.kind) ELSE 0
<1>1. /\ t.dat + c + w = DatBeats(t.kind)
      /\ t.nderr \/ Told(d, n) => Refused(t.kind)
      /\ Refused(t.kind) => t.nderr \/ Told(d, n) \/ HeldBack(ops, p) = 1
  BY DEF Served
<1>2. DOut(d) \in Seq(DatFlit) BY OutTypes
<1>3. v.kind = t.kind /\ v.rsp = t.rsp BY DEF GetsDat
<1>4. Free(g, n) <=> Free(d, n) BY FreeKept
<1>5. t.nderr \/ Told(d, n) <=> v.nderr \/ Told(g, n)
  BY <1>2, ToldPassed DEF Told, GetsDat
<1>6. /\ c \in Nat /\ e \in Nat
      /\ c = e + (IF Mine(b, n) THEN 1 ELSE 0)
  <2>1. CASE b = <<>>
    <3>1. DOut(g) = DOut(d) /\ ~Mine(b, n) BY <2>1 DEF Passed, Mine
    <3>2. c = e BY <3>1
    <3>3. c \in Nat BY <1>2, MarksFinite
    <3> HIDE DEF c, e
    <3> QED BY <3>1, <3>2, <3>3
  <2>2. CASE b # <<>>
    <3>1. /\ DOut(d) # <<>> /\ Head(DOut(d)) = Head(b)
          /\ DOut(g) = Tail(DOut(d))
      BY <2>2 DEF Passed
    <3>2. Head(DOut(d)) \in DatFlit BY <1>2, <3>1
    <3>3. Head(DOut(d)) \in Of(n) <=> Mine(b, n)
      BY <2>2, <3>1, <3>2 DEF Of, Mine
    <3>4. /\ c \in Nat /\ e \in Nat
          /\ c = e + (IF Head(DOut(d)) \in Of(n) THEN 1 ELSE 0)
      BY <1>2, <3>1, MarksTail
    <3> QED BY <3>3, <3>4
  <2> QED BY <2>1, <2>2
<1>7. v.dat + e + w = t.dat + c + w
  <2>1. t.dat \in Nat BY DEF Txn
  <2>2. w \in Nat
    <3>1. t.kind.beats \in Nat BY DEF Txn, Request
    <3> QED BY <3>1 DEF DatBeats
  <2>3. v.dat = t.dat + (IF Mine(b, n) THEN 1 ELSE 0) BY DEF GetsDat
  <2> HIDE DEF c, e, w
  <2> QED BY ONLY <1>6, <2>1, <2>2, <2>3
<1>8. HeldBack(Replies(v.kind, split), ~Free(g, n)) = HeldBack(ops, p)
  BY <1>3, <1>4 DEF HeldBack
<1>9. (IF ~Free(g, n) THEN DatBeats(v.kind) ELSE 0) = w BY <1>3, <1>4
<1>10. DatBeats(v.kind) = DatBeats(t.kind) BY <1>3
<1>11. v.dat + e + (IF ~Free(g, n) THEN DatBeats(v.kind) ELSE 0)
         = DatBeats(v.kind)
  <2> HIDE DEF c, e, w
  <2> QED BY <1>1, <1>7, <1>9, <1>10
<1>12. /\ v.nderr \/ Told(g, n) => Refused(v.kind)
       /\ Refused(v.kind) =>
            v.nderr \/ Told(g, n)
              \/ HeldBack(Replies(v.kind, split), ~Free(g, n)) = 1
  <2> HIDE DEF ops, p
  <2> QED BY <1>1, <1>3, <1>5, <1>8
<1>13. LET o == Replies(v.kind, split)
           h == Len(o) - HeldBack(o, ~Free(g, n))
       IN /\ Len(v.rsp) <= h
          /\ \A i \in DOMAIN v.rsp : v.rsp[i] = o[i]
          /\ InLine(ROut(g), n, o, Len(v.rsp), h)
  BY <1>3, <1>8 DEF Served
<1> HIDE DEF w, e, c, ops, p
<1> QED BY <1>11, <1>12, <1>13 DEF Served, e

(* Of two queues of one flit at most, does one flit say it is refused?     *)
LEMMA OneTold ==
  ASSUME NEW X, NEW r \in Seq(X), NEW b \in Seq(X),
         Len(r) <= 1, Len(b) <= 1
  PROVE  (\E i \in DOMAIN (r \o b) : (r \o b)[i].err = "NDERR")
           <=> \/ r # <<>> /\ Head(r).err = "NDERR"
               \/ b # <<>> /\ Head(b).err = "NDERR"
<1>1. /\ Len(r) \in {0, 1} /\ Len(b) \in {0, 1}
      /\ (r # <<>> <=> Len(r) = 1) /\ (b # <<>> <=> Len(b) = 1)
      /\ Head(r) = r[1] /\ Head(b) = b[1]
  <2>1. ASSUME NEW s \in Seq(X), Len(s) <= 1
        PROVE  Len(s) \in {0, 1} /\ (s # <<>> <=> Len(s) = 1)
    <3> DEFINE l == Len(s)
    <3>1. l \in Nat /\ (l = 0 <=> s = <<>>) BY EmptySeq
    <3>2. l <= 1 BY <2>1
    <3> HIDE DEF l
    <3>3. l \in {0, 1} BY ONLY <3>1, <3>2
    <3> QED BY <3>1, <3>3 DEF l
  <2>2. Head(r) = r[1] /\ Head(b) = b[1] OBVIOUS
  <2> QED BY <2>1, <2>2
<1>2. /\ DOMAIN (r \o b) = 1 .. Len(r) + Len(b)
      /\ \A i \in 1 .. Len(r) + Len(b) :
           (r \o b)[i] = IF i <= Len(r) THEN r[i] ELSE b[i - Len(r)]
  OBVIOUS
<1> DEFINE q == r \o b
           m == Len(r)
           h == Len(b)
<1> HIDE DEF q, m, h
<1>3. /\ m \in {0, 1} /\ h \in {0, 1}
      /\ (r # <<>> <=> m = 1) /\ (b # <<>> <=> h = 1)
  BY <1>1 DEF m, h
<1>4. /\ DOMAIN q = 1 .. m + h
      /\ \A i \in 1 .. m + h : q[i] = IF i <= m THEN r[i] ELSE b[i - m]
  BY <1>2 DEF q, m, h
<1>5. (\E i \in DOMAIN q : q[i].err = "NDERR")
        <=> \/ r # <<>> /\ r[1].err = "NDERR"
            \/ b # <<>> /\ b[1].err = "NDERR"
  <2>1. CASE m = 0 /\ h = 0
    <3>1. DOMAIN q = {} BY <1>4, <2>1
    <3> QED BY <1>3, <2>1, <3>1
  <2>2. CASE m = 1 /\ h = 0
    <3>1. DOMAIN q = {1} /\ q[1] = r[1] BY <1>4, <2>2
    <3> QED BY <1>3, <2>2, <3>1
  <2>3. CASE m = 0 /\ h = 1
    <3>1. DOMAIN q = {1} /\ q[1] = b[1] BY <1>4, <2>3
    <3> QED BY <1>3, <2>3, <3>1
  <2>4. CASE m = 1 /\ h = 1
    <3>1. DOMAIN q = {1, 2} /\ q[1] = r[1] /\ q[2] = b[1] BY <1>4, <2>4
    <3> QED BY <1>3, <2>4, <3>1
  <2> QED BY <1>3, <2>1, <2>2, <2>3, <2>4
<1> QED BY <1>1, <1>5 DEF q

(* What the peer sees at an edge is a response and data.                   *)
LEMMA SeenGets ==
  ASSUME NEW t \in Txn, NEW n,
         NEW rsp \in Seq(RspFlit), Len(rsp) <= 1,
         NEW dat \in Seq(DatFlit), Len(dat) <= 1,
         NEW sent, NEW u, u = Seen(t, n, rsp, dat, sent)
  PROVE  \E v \in Txn : GetsRsp(t, v, n, rsp) /\ GetsDat(v, u, n, dat)
<1> DEFINE r == For(rsp, n)
           b == For(dat, n)
           w == r # <<>> /\ Grants(r[1]) /\ t.kind.op = "WRITE"
           ops == [i \in DOMAIN r |-> r[i].op]
           told == \E i \in DOMAIN (r \o b) : (r \o b)[i].err = "NDERR"
           z1 == t.rsp \o ops
           z2 == t.dat + Len(b)
           z3 == t.nderr \/ told
           z4 == IF w THEN t.kind.beats ELSE t.owed - IF sent THEN 1 ELSE 0
           x == t.nderr \/ (Mine(rsp, n) /\ Head(rsp).err = "NDERR")
           v == [t EXCEPT !.rsp = z1, !.nderr = x]
<1>1. /\ t.rsp \in Seq(RspOp) /\ t.dat \in Nat /\ t.nderr \in BOOLEAN
  BY DEF Txn
<1>2. u = [t EXCEPT !.rsp = z1, !.dat = z2, !.nderr = z3, !.owed = z4]
  BY DEF Seen
<1>3. /\ r \in Seq(RspFlit) /\ b \in Seq(DatFlit)
      /\ r = IF Mine(rsp, n) THEN rsp ELSE <<>>
      /\ b = IF Mine(dat, n) THEN dat ELSE <<>>
  BY DEF For, Mine
<1> HIDE DEF r, b
<1>4. Len(r) <= 1 /\ Len(b) <= 1
  <2>1. Len(<<>>) <= 1 OBVIOUS
  <2> QED BY <1>3, <2>1
<1>5. told <=> \/ Mine(rsp, n) /\ Head(rsp).err = "NDERR"
               \/ Mine(dat, n) /\ Head(dat).err = "NDERR"
  <2>1. r \in Seq(RspFlit \cup DatFlit) /\ b \in Seq(RspFlit \cup DatFlit)
    BY <1>3
  <2>2. told <=> \/ r # <<>> /\ Head(r).err = "NDERR"
                 \/ b # <<>> /\ Head(b).err = "NDERR"
    BY <1>4, <2>1, OneTold
  <2> HIDE DEF told
  <2> QED BY <1>3, <2>2 DEF Mine
<1>6. Len(b) = IF Mine(dat, n) THEN 1 ELSE 0
  <2>1. CASE Mine(dat, n)
    <3>1. Len(dat) = 1
      <4>1. dat # <<>> BY <2>1 DEF Mine
      <4>2. Len(dat) \in Nat \ {0} BY <4>1, EmptySeq
      <4> DEFINE l == Len(dat)
      <4>3. l \in Nat \ {0} /\ l <= 1 BY <4>2
      <4> HIDE DEF l
      <4>4. l = 1 BY ONLY <4>3
      <4> QED BY <4>4 DEF l
    <3> QED BY <1>3, <2>1, <3>1
  <2>2. CASE ~Mine(dat, n)
    <3>1. b = <<>> BY <1>3, <2>2
    <3> QED BY <2>2, <3>1
  <2> QED BY <2>1, <2>2
<1>7. ops \in Seq(RspOp) /\ Len(ops) = Len(r) BY <1>3, OpsType
<1>8. IF Mine(rsp, n)
      THEN Len(ops) = 1 /\ ops[1] = Head(rsp).op ELSE ops = <<>>
  <2>1. CASE Mine(rsp, n)
    <3>1. r = rsp /\ rsp # <<>> BY <1>3, <2>1 DEF Mine
    <3>2. Len(rsp) \in Nat \ {0} BY <3>1, EmptySeq
    <3>3. Len(rsp) = 1
      <4> DEFINE l == Len(rsp)
      <4>1. l \in Nat \ {0} /\ l <= 1 BY <3>2
      <4> HIDE DEF l
      <4>2. l = 1 BY ONLY <4>1
      <4> QED BY <4>2 DEF l
    <3>4. Head(rsp) = rsp[1] /\ 1 \in DOMAIN rsp BY <3>3
    <3>5. ops[1] = r[1].op BY <3>1, <3>4
    <3> HIDE DEF ops
    <3> QED BY <1>7, <2>1, <3>1, <3>3, <3>4, <3>5
  <2>2. CASE ~Mine(rsp, n)
    <3>1. r = <<>> BY <1>3, <2>2
    <3>2. Len(ops) = 0 BY <1>7, <3>1
    <3> HIDE DEF ops
    <3>3. ops = <<>> BY <1>7, <3>2
    <3> QED BY <2>2, <3>3
  <2> QED BY <2>1, <2>2
<1> HIDE DEF ops, told
<1>9. z1 \in Seq(RspOp) BY <1>1, <1>7, ConcatProperties
<1>10. IF Mine(rsp, n)
       THEN /\ Len(z1) = Len(t.rsp) + 1
            /\ DOMAIN z1 = 1 .. Len(t.rsp) + 1
            /\ \A i \in DOMAIN t.rsp : z1[i] = t.rsp[i]
            /\ z1[Len(t.rsp) + 1] = Head(rsp).op
       ELSE z1 = t.rsp
  <2>1. CASE Mine(rsp, n)
    <3> DEFINE s == t.rsp
    <3>1. s \in Seq(RspOp) BY <1>1
    <3>2. Len(ops) = 1 /\ ops[1] = Head(rsp).op BY <1>8, <2>1
    <3> HIDE DEF s
    <3>3. /\ s \o ops \in Seq(RspOp)
          /\ Len(s \o ops) = Len(s) + Len(ops)
          /\ DOMAIN (s \o ops) = 1 .. Len(s) + Len(ops)
          /\ \A i \in 1 .. Len(s) + Len(ops) :
               (s \o ops)[i] = IF i <= Len(s) THEN s[i] ELSE ops[i - Len(s)]
      <4>1. ops \in Seq(RspOp) BY <1>7
      <4>2. /\ s \o ops \in Seq(RspOp)
            /\ Len(s \o ops) = Len(s) + Len(ops)
        BY ONLY <3>1, <4>1
      <4>3. DOMAIN (s \o ops) = 1 .. Len(s \o ops) BY ONLY <4>2
      <4>4. \A i \in 1 .. Len(s) + Len(ops) :
              (s \o ops)[i] = IF i <= Len(s) THEN s[i] ELSE ops[i - Len(s)]
        BY ONLY <3>1, <4>1
      <4> QED BY <4>2, <4>3, <4>4
    <3>4. Len(s) \in Nat /\ DOMAIN s = 1 .. Len(s) BY <3>1
    <3> DEFINE q == s \o ops
               l == Len(s)
    <3>5. /\ Len(q) = l + 1 /\ DOMAIN q = 1 .. l + 1
          /\ \A i \in 1 .. l + 1 :
               q[i] = IF i <= l THEN s[i] ELSE ops[i - l]
      BY <3>2, <3>3
    <3>6. l \in Nat /\ DOMAIN s = 1 .. l BY <3>4
    <3> HIDE DEF q, l
    <3>7. (l + 1) - l = 1 /\ ~(l + 1 <= l) /\ l + 1 \in 1 .. l + 1
      BY ONLY <3>6
    <3>8. q[l + 1] = ops[1] BY ONLY <3>5, <3>7
    <3>9. \A i \in DOMAIN s : q[i] = s[i]
      <4> TAKE i \in DOMAIN s
      <4>1. i \in 1 .. l + 1 /\ i <= l BY ONLY <3>6, i \in DOMAIN s
      <4> QED BY ONLY <3>5, <4>1
    <3>10. z1 = q BY DEF q, s
    <3> QED BY <2>1, <3>2, <3>5, <3>8, <3>9, <3>10 DEF s, l
  <2>2. CASE ~Mine(rsp, n)
    <3>1. z1 = t.rsp BY <1>1, <1>8, <2>2, ConcatEmptySeq
    <3> QED BY <2>2, <3>1
  <2> QED BY <2>1, <2>2
<1>11. x \in BOOLEAN OBVIOUS
<1>12. z3 <=> x \/ (Mine(dat, n) /\ Head(dat).err = "NDERR") BY <1>5
<1>13. x <=> t.nderr \/ (Mine(rsp, n) /\ Head(rsp).err = "NDERR") OBVIOUS
<1>14. z2 = t.dat + (IF Mine(dat, n) THEN 1 ELSE 0) BY <1>6
<1> HIDE DEF z1, z2, z3, z4, x
<1>15. v \in Txn BY ONLY <1>9, <1>11, t \in Txn, Zenon DEF Txn
<1>16. /\ v.kind = t.kind /\ v.rsp = z1 /\ v.dat = t.dat
       /\ u.kind = t.kind /\ u.rsp = z1 /\ u.dat = z2
  BY <1>2 DEF Txn
<1>17. (v.nderr <=> x) /\ (u.nderr <=> z3) BY <1>2 DEF Txn
<1> HIDE DEF v
<1>18. GetsRsp(t, v, n, rsp) BY <1>10, <1>13, <1>16, <1>17 DEF GetsRsp
<1>19. GetsDat(v, u, n, dat) BY <1>12, <1>14, <1>16, <1>17 DEF GetsDat
<1> QED BY <1>15, <1>18, <1>19

LEMMA AnnounceRspOut ==
  ASSUME NEW d, NEW T, Book(d, T, 0), d.rsp_announce = <<>>,
         NEW due, NEW g, g = announce_rsp_flit(d, due)
  PROVE  ROut(g) = ROut(d)
<1> DEFINE q == d.rsp_send_q
           v == <<Head(q)>>
           w == Tail(q)
<1>1. d \in Driver /\ Len(d.rsp_announce) <= 1 BY DEF Book
<1>2. CASE \/ q = <<>> \/ d.send_credits["rsp"] <= 0
           \/ ~send_time_reached(Head(q), due)
  <2>1. g = d BY <1>2 DEF announce_rsp_flit
  <2> QED BY <2>1
<1>3. CASE ~(\/ q = <<>> \/ d.send_credits["rsp"] <= 0
             \/ ~send_time_reached(Head(q), due))
  <2>1. g = RspSet(d, v, w) BY <1>3 DEF announce_rsp_flit, RspSet
  <2>2. q # <<>> /\ q \in Seq(RspFlit) BY <1>1, <1>3, OutTypes
  <2>3. v \o w = <<>> \o q BY <1>1, <2>2, RspAhead
  <2>4. g.rsp_announce = v /\ g.rsp_send_q = w
    <3> HIDE DEF v, w
    <3> QED BY <1>1, <2>1 DEF RspSet, Driver
  <2> QED BY <2>3, <2>4 DEF ROut
<1> QED BY <1>2, <1>3

LEMMA AnnounceDatOut ==
  ASSUME NEW d, NEW T, Book(d, T, 0), d.dat_announce = <<>>,
         NEW due, NEW g, g = announce_dat_flit(d, due)
  PROVE  DOut(g) = DOut(d)
<1> DEFINE q == d.dat_send_q
           v == <<Head(q)>>
           w == Tail(q)
<1>1. d \in Driver /\ Len(d.dat_announce) <= 1 BY DEF Book
<1>2. CASE \/ q = <<>> \/ d.send_credits["dat"] <= 0
           \/ ~send_time_reached(Head(q), due)
  <2>1. g = d BY <1>2 DEF announce_dat_flit
  <2> QED BY <2>1
<1>3. CASE ~(\/ q = <<>> \/ d.send_credits["dat"] <= 0
             \/ ~send_time_reached(Head(q), due))
  <2>1. g = DatSet(d, v, w) BY <1>3 DEF announce_dat_flit, DatSet
  <2>2. q # <<>> /\ q \in Seq(DatFlit) BY <1>1, <1>3, OutTypes
  <2>3. v \o w = <<>> \o q BY <1>1, <2>2, DatAhead
  <2>4. g.dat_announce = v /\ g.dat_send_q = w
    <3> HIDE DEF v, w
    <3> QED BY <1>1, <2>1 DEF DatSet, Driver
  <2> QED BY <2>3, <2>4 DEF DOut
<1> QED BY <1>2, <1>3

(* The flit that was announced is the first of those on their way out, and *)
(* goes.                                                                   *)
LEMMA SendRspOut ==
  ASSUME NEW d, NEW T, Book(d, T, 0), NEW due, NEW g, g = send_rsp(d, due)
  PROVE  Passed(SentRsp(d), ROut(d), ROut(g))
<1>1. d \in Driver /\ Len(d.rsp_announce) <= 1 BY DEF Book
<1>2. CASE d.rsp_announce = <<>>
  <2>1. g = announce_rsp_flit(d, due) BY <1>2 DEF send_rsp
  <2>2. ROut(g) = ROut(d) BY <1>2, <2>1, AnnounceRspOut
  <2> QED BY <1>2, <2>2 DEF Passed, SentRsp
<1>3. CASE d.rsp_announce # <<>>
  <2> DEFINE v == <<>>
             s == [d.send_credits EXCEPT !["rsp"] = @ - 1]
             h == RspGone(d, v, s)
             closes == rsp_flit_closes_activity(Head(d.rsp_announce))
  <2>1. /\ ROut(d) # <<>> /\ Head(ROut(d)) = Head(d.rsp_announce)
        /\ Tail(ROut(d)) = <<>> \o d.rsp_send_q
    BY <1>1, <1>3, RspAhead
  <2>2. g = Close(h, closes) BY <1>3 DEF send_rsp, RspGone
  <2>3. h.rsp_announce = v /\ h.rsp_send_q = d.rsp_send_q
    BY <1>1 DEF RspGone, Driver
  <2>4. g.rsp_announce = h.rsp_announce /\ g.rsp_send_q = h.rsp_send_q
    <3> HIDE DEF h, closes
    <3> QED BY <2>2 DEF Close
  <2>5. ROut(g) = <<>> \o d.rsp_send_q BY <2>3, <2>4 DEF ROut
  <2> QED BY <1>3, <2>1, <2>5 DEF Passed, SentRsp
<1> QED BY <1>2, <1>3

LEMMA SendDatOut ==
  ASSUME NEW d, NEW T, Book(d, T, 0), NEW due, NEW sep,
         NEW g, g = send_dat(d, due, sep)
  PROVE  Passed(IF Held(d.dat_announce, sep) THEN <<>> ELSE d.dat_announce,
                DOut(d), DOut(g))
<1>1. d \in Driver /\ Len(d.dat_announce) <= 1 BY DEF Book
<1>2. CASE d.dat_announce = <<>> /\ ~Held(d.dat_send_q, sep)
  <2>1. g = announce_dat_flit(d, due) BY <1>2 DEF send_dat
  <2>2. DOut(g) = DOut(d) BY <1>2, <2>1, AnnounceDatOut
  <2> QED BY <1>2, <2>2 DEF Passed
<1>3. CASE d.dat_announce # <<>> /\ ~Held(d.dat_announce, sep)
  <2> DEFINE v == <<>>
             s == [d.send_credits EXCEPT !["dat"] = @ - 1]
             h == DatGone(d, v, s)
             closes == Head(d.dat_announce).last
  <2>1. /\ DOut(d) # <<>> /\ Head(DOut(d)) = Head(d.dat_announce)
        /\ Tail(DOut(d)) = <<>> \o d.dat_send_q
    BY <1>1, <1>3, DatAhead
  <2>2. g = Close(h, closes) BY <1>3 DEF send_dat, DatGone
  <2>3. h.dat_announce = v /\ h.dat_send_q = d.dat_send_q
    BY <1>1 DEF DatGone, Driver
  <2>4. g.dat_announce = h.dat_announce /\ g.dat_send_q = h.dat_send_q
    <3> HIDE DEF h, closes
    <3> QED BY <2>2 DEF Close
  <2>5. DOut(g) = <<>> \o d.dat_send_q BY <2>3, <2>4 DEF DOut
  <2> QED BY <1>3, <2>1, <2>5 DEF Passed
<1>4. CASE /\ ~(d.dat_announce = <<>> /\ ~Held(d.dat_send_q, sep))
           /\ ~(d.dat_announce # <<>> /\ ~Held(d.dat_announce, sep))
  <2>1. g = d BY <1>4 DEF send_dat
  <2>2. (IF Held(d.dat_announce, sep) THEN <<>> ELSE d.dat_announce) = <<>>
    BY <1>4
  <2> QED BY <2>1, <2>2 DEF Passed
<1> QED BY <1>2, <1>3, <1>4

(* Of the data on its way nothing is new.                                  *)
LEMMA PassedEntries ==
  ASSUME NEW d \in Driver, NEW T, NEW split, Entries(d, T, split),
         NEW g, g.wr_await_q = d.wr_await_q, g.req_port = d.req_port,
         NEW b, Passed(b, DOut(d), DOut(g))
  PROVE  Entries(g, T, split)
<1>1. DOut(d) \in Seq(DatFlit) BY OutTypes
<1>2. \A i \in DOMAIN DOut(g) : DOut(g)[i].num <= Len(T)
  <2>1. \A i \in DOMAIN DOut(d) : DOut(d)[i].num <= Len(T) BY DEF Entries
  <2>2. CASE b = <<>> BY <2>1, <2>2 DEF Passed
  <2>3. CASE b # <<>>
    <3> DEFINE q == DOut(d)
               r == DOut(g)
               m == Len(q)
    <3>1. q # <<>> /\ r = Tail(q) BY <2>3 DEF Passed
    <3>2. q \in Seq(DatFlit) BY <1>1
    <3>3. \A i \in DOMAIN q : q[i].num <= Len(T) BY <2>1
    <3> HIDE DEF q, r
    <3>4. /\ m \in Nat /\ DOMAIN q = 1 .. m /\ DOMAIN r = 1 .. m - 1
          /\ \A i \in 1 .. m - 1 : r[i] = q[i + 1]
      BY <3>1, <3>2, TailIs
    <3> HIDE DEF m
    <3>5. \A i \in 1 .. m - 1 : i + 1 \in 1 .. m BY <3>4
    <3>6. \A i \in DOMAIN r : r[i].num <= Len(T) BY <3>3, <3>4, <3>5
    <3> QED BY <3>6 DEF r
  <2> QED BY <2>2, <2>3
<1> QED BY <1>2 DEF Entries

(* What the peer keeps once responses a and data b reached it.             *)
Got(T, U, a, b) ==
  \A i \in DOMAIN T :
    \E v \in Txn : GetsRsp(T[i], v, i, a) /\ GetsDat(v, U[i], i, b)

LEMMA SendsAnswers ==
  ASSUME NEW split, NEW d, NEW T, Book(d, T, 0), Backed(d),
         Answers(d, T, split),
         NEW U \in Seq(Txn), Len(T) = Len(U), Hears(d, T, U, SentRsp(d)),
         Got(T, U, SentRsp(d), SentDat(d)),
         NEW in, NEW g, g = drive_sends(d, in)
  PROVE  Answers(g, U, split)
<1> DEFINE sep == RespSepGoes(d)
           d1 == send_rsp(d, in.rspdue)
           d2 == send_dat(d1, in.datdue, sep)
           v == d2.tx_activity_count > 0 \/ SentRsp(d) # <<>>
                  \/ SentDat(d) # <<>>
           a == SentRsp(d)
           b == SentDat(d)
<1>1. d \in Driver /\ T \in Seq(Txn) /\ DOMAIN U = DOMAIN T
  BY DEF Book
<1>2. Book(d1, U, 0) /\ Backed(d1) /\ Sending(d, d1) /\ SameDat(d, d1)
  BY SendRspBook DEF SentRsp
<1>3. Passed(a, ROut(d), ROut(d1)) BY SendRspOut
<1>4. g = [d2 EXCEPT !.txsactive = v] BY DEF drive_sends
<1>5. v \in BOOLEAN OBVIOUS
<1>6. Got(T, U, a, b) OBVIOUS
<1>7. b = IF Held(d.dat_announce, sep) THEN <<>> ELSE d.dat_announce
  BY DEF SentDat
<1> HIDE DEF d1, v, sep, a, b
<1>8. Book(d2, U, 0) /\ Sending(d1, d2) /\ SameRsp(d1, d2)
  BY <1>2, SendDatBook
<1>9. Passed(b, DOut(d1), DOut(d2))
  <2>1. d1.dat_announce = d.dat_announce BY <1>2 DEF SameDat
  <2>2. Passed(IF Held(d1.dat_announce, sep) THEN <<>> ELSE d1.dat_announce,
               DOut(d1), DOut(d2))
    BY <1>2, SendDatOut
  <2> HIDE DEF d2
  <2> QED BY <1>7, <2>1, <2>2
<1> HIDE DEF d2
<1>10. d1 \in Driver /\ d2 \in Driver BY <1>2, <1>8 DEF Book
<1>11. SameQueues(d2, g) BY <1>4, <1>10 DEF SameQueues, Driver
<1>12. /\ d1.wr_await_q = d.wr_await_q /\ d1.req_port = d.req_port
       /\ d2.wr_await_q = d1.wr_await_q /\ d2.req_port = d1.req_port
  BY <1>2, <1>8 DEF Sending
<1>13. DOut(d1) = DOut(d) BY <1>2 DEF SameDat, DOut
<1>14. ROut(d2) = ROut(d1) BY <1>8 DEF SameRsp, ROut
<1>15. ASSUME NEW i \in DOMAIN T
       PROVE  U[i].kind = T[i].kind /\ Served(d2, i, U[i], split)
  <2>1. PICK w \in Txn : GetsRsp(T[i], w, i, a) /\ GetsDat(w, U[i], i, b)
    BY <1>6 DEF Got
  <2>2. T[i] \in Txn BY <1>1
  <2>3. Served(d, i, T[i], split) BY DEF Answers
  <2>4. Served(d1, i, w, split)
    BY ONLY <1>1, <1>3, <1>12, <1>13, <2>1, <2>2, <2>3, RspServed
  <2>5. Served(d2, i, U[i], split)
    BY ONLY <1>9, <1>10, <1>12, <1>14, <2>1, <2>4, DatServed
  <2>6. U[i].kind = T[i].kind BY <2>1 DEF GetsRsp, GetsDat
  <2> QED BY <2>5, <2>6
<1>16. Entries(d, U, split)
  <2>1. Entries(d, T, split) BY DEF Answers
  <2>2. /\ \A i \in DOMAIN d.wr_await_q :
             U[d.wr_await_q[i].num].kind = T[d.wr_await_q[i].num].kind
        /\ \A e \in d.req_port : U[e.num].kind = T[e.num].kind
    <3>1. \A i \in Nat \ {0} : i <= Len(T) => i \in DOMAIN T BY <1>1
    <3>2. Known(d.wr_await_q, d.req_port, ROut(d), T) BY DEF Book, Views
    <3>3. d.wr_await_q \in Seq(Entry) /\ d.req_port \in SUBSET Entry
      BY <1>1, OutTypes
    <3>4. \A e \in Entry : e.num \in Nat \ {0} BY DEF Entry
    <3>5. \A i \in DOMAIN d.wr_await_q : d.wr_await_q[i] \in Entry BY <3>3
    <3>6. \A i \in DOMAIN d.wr_await_q : d.wr_await_q[i].num \in DOMAIN T
      BY <3>1, <3>2, <3>4, <3>5 DEF Known
    <3>7. \A e \in d.req_port : e.num \in DOMAIN T
      BY <3>1, <3>2, <3>3, <3>4 DEF Known
    <3> QED BY <1>15, <3>6, <3>7
  <2> QED BY ONLY <2>1, <2>2, Len(T) = Len(U) DEF Entries
<1>17. Entries(d1, U, split) BY <1>12, <1>13, <1>16, EntriesKept
<1>18. Entries(d2, U, split) BY <1>9, <1>10, <1>12, <1>17, PassedEntries
<1>19. Answers(d2, U, split) BY <1>1, <1>15, <1>18 DEF Answers
<1> QED BY <1>11, <1>19, AsideAnswers

LEMMA ReceiveAnswers ==
  ASSUME peer \in Peer, drv \in Driver, NEW in, Sane(in),
         NEW d, Book(d, peer.txn, 0),
         Answers(d, peer.txn, drv.cfg.split_write_rsp),
         NEW g, g = receive(d, in)
  PROVE  Answers(g, Paid(in), drv.cfg.split_write_rsp)
<1> DEFINE split == drv.cfg.split_write_rsp
           d1 == receive_req(d, in)
           d2 == receive_dat(d1, in)
<1>1. split \in BOOLEAN BY DriverTypes, CfgTypes
<1>2. Book(d1, Asked(in), 0) /\ Answers(d1, Asked(in), split)
  BY ReceiveReqBook, ReceiveReqAnswers
<1> HIDE DEF d1, split
<1>3. Book(d2, Paid(in), 0) /\ Answers(d2, Paid(in), split)
  BY <1>1, <1>2, ReceiveDatBook, ReceiveDatAnswers
<1>4. g = receive_rsp(d2, in) BY DEF receive, d1
<1> HIDE DEF d2
<1>5. Answers(g, Paid(in), split)
  <2>1. CASE in.ack
    <3>1. g = Regrant(d2, "rsp") /\ "rsp" \in Channel
      BY <1>4, <2>1 DEF receive_rsp, Channel
    <3>2. d2 \in Driver BY <1>3 DEF Book
    <3> QED BY <1>3, <3>1, <3>2, RegrantAnswers
  <2>2. CASE ~in.ack
    <3>1. g = d2 BY <1>4, <2>2 DEF receive_rsp
    <3> QED BY <1>3, <3>1
  <2> QED BY <2>1, <2>2
<1> QED BY <1>5 DEF split

(* What the peer sees of the flits sent, against what it kept.             *)
LEMMA ObserveGot ==
  ASSUME peer \in Peer, drv \in Driver, NEW in, Sane(in), NEW granted,
         NEW rsp \in Seq(RspFlit), Len(rsp) <= 1,
         NEW dat \in Seq(DatFlit), Len(dat) <= 1,
         NEW p, p = Observe(in, granted, rsp, dat)
  PROVE  Got(Paid(in), p.txn, rsp, dat)
<1> DEFINE T == Asked(in)
           U == Paid(in)
           sent(i) == in.dat = Data /\ in.datnum = i
           V == [i \in DOMAIN T |-> Seen(T[i], i, rsp, dat, sent(i))]
<1>1. p.txn = V BY DEF Observe, Asked
<1>2. /\ DOMAIN U = DOMAIN T
      /\ \A i \in DOMAIN T :
           /\ U[i].kind = T[i].kind /\ U[i].rsp = T[i].rsp
           /\ U[i].dat = T[i].dat /\ U[i].nderr = T[i].nderr
  BY PaidIs
<1>3. T \in Seq(Txn) BY AskedIs
<1> HIDE DEF T, U
<1>4. ASSUME NEW i \in DOMAIN U
      PROVE  \E v \in Txn :
               GetsRsp(U[i], v, i, rsp) /\ GetsDat(v, V[i], i, dat)
  <2>1. i \in DOMAIN T /\ T[i] \in Txn BY <1>2, <1>3
  <2> DEFINE s == sent(i)
             t == T[i]
             u == V[i]
  <2>2. u = Seen(t, i, rsp, dat, s) /\ t \in Txn BY <2>1
  <2> HIDE DEF s, t, u
  <2>3. PICK v \in Txn : GetsRsp(t, v, i, rsp) /\ GetsDat(v, u, i, dat)
    BY ONLY <2>2, SeenGets, rsp \in Seq(RspFlit), dat \in Seq(DatFlit),
            Len(rsp) <= 1, Len(dat) <= 1
  <2>4. /\ U[i].kind = t.kind /\ U[i].rsp = t.rsp
        /\ U[i].dat = t.dat /\ U[i].nderr = t.nderr
    BY <1>2, <2>1 DEF t
  <2>5. GetsRsp(U[i], v, i, rsp) BY ONLY <2>3, <2>4 DEF GetsRsp
  <2>6. GetsDat(v, V[i], i, dat) BY <2>3 DEF u
  <2> QED BY <2>5, <2>6
<1> HIDE DEF V
<1>5. Got(U, V, rsp, dat) BY <1>4, Zenon DEF Got
<1> QED BY <1>1, <1>5 DEF U

LEMMA EdgeAnswers ==
  ASSUME ChiInv, AnswersInv, NEW in, Sane(in), Edge(in)
  PROVE  AnswersInv'
<1> PICK f \in {receive(link(drv, in), in)} :
      /\ drv' = drive_sends(drive_credit_grants(f), in)
      /\ peer' = Observe(in, Granted(f), SentRsp(f), SentDat(f))
  BY DEF Edge
<1> DEFINE split == drv.cfg.split_write_rsp
           d == link(drv, in)
           h == drive_credit_grants(f)
           g == drive_sends(h, in)
           p == Observe(in, Granted(f), SentRsp(f), SentDat(f))
           T == Paid(in)
<1>1. f = receive(d, in) /\ drv' = g /\ peer' = p OBVIOUS
<1>2. peer \in Peer /\ drv \in Driver BY DEF ChiInv, Book
<1>3. Book(d, peer.txn, 0) /\ Backed(d) BY LinkCredits
<1>4. Answers(drv, peer.txn, split) BY DEF AnswersInv
<1>5. Aside(drv, d)
  <2>1. in.link \in BOOLEAN BY DEF Sane
  <2> QED BY <1>2, <2>1, LinkIs
<1> HIDE DEF d, split
<1>6. Answers(d, peer.txn, split) BY <1>4, <1>5, AsideAnswers DEF Aside
<1>7. Book(f, T, 0) /\ Still(d, f) BY <1>1, <1>2, <1>3, ReceiveBook
<1>8. Answers(f, T, split)
  BY <1>1, <1>2, <1>3, <1>6, ReceiveAnswers DEF split
<1>9. /\ f \in Driver /\ T \in Seq(Txn)
      /\ Len(f.rsp_announce) <= 1 /\ Len(f.dat_announce) <= 1
  BY <1>7 DEF Book
<1>10. h \in Driver /\ Aside(f, h) /\ h.send_credits = f.send_credits
  BY <1>9, GrantIs
<1>11. Book(h, T, 0) BY <1>7, <1>10, AsideBook
<1>12. Backed(h) BY <1>3, <1>7, <1>10 DEF Backed, Still, Aside, SameQueues
<1>13. Answers(h, T, split) BY <1>8, <1>10, AsideAnswers DEF Aside
<1>14. /\ SentRsp(f) \in Seq(RspFlit) /\ SentDat(f) \in Seq(DatFlit)
       /\ Len(SentRsp(f)) <= 1 /\ Len(SentDat(f)) <= 1
  <2>1. Len(<<>>) <= 1 OBVIOUS
  <2> QED BY <1>9, <2>1, OutTypes DEF SentRsp, SentDat
<1>15. SentRsp(h) = SentRsp(f) /\ SentDat(h) = SentDat(f)
  BY <1>10 DEF SentRsp, SentDat, RespSepGoes, Aside, SameQueues
<1>16. Observed(in, T, Granted(f), SentRsp(f), p)
       /\ Got(T, p.txn, SentRsp(f), SentDat(f))
  <2> DEFINE a == SentRsp(f)
             b == SentDat(f)
             w == Granted(f)
  <2>1. p = Observe(in, w, a, b) OBVIOUS
  <2>2. a \in Seq(RspFlit) BY <1>14
  <2>3. b \in Seq(DatFlit) BY <1>14
  <2>4. Len(a) <= 1 /\ Len(b) <= 1 BY <1>14
  <2>5. peer \in Peer BY <1>2
  <2>6. drv \in Driver BY <1>2
  <2> HIDE DEF p, T, a, b, w
  <2>7. Observed(in, Paid(in), w, a, p)
    BY ONLY <2>1, <2>2, <2>3, <2>5, <2>6, ObserveIs, Sane(in), Zenon
  <2>8. Got(Paid(in), p.txn, a, b)
    BY ONLY <2>1, <2>2, <2>3, <2>4, <2>5, <2>6, ObserveGot, Sane(in), Zenon
  <2> QED BY <2>7, <2>8 DEF T, a, b, w
<1> HIDE DEF h, g, p, T
<1>17. p.txn \in Seq(Txn) /\ Len(T) = Len(p.txn)
  BY <1>16 DEF Observed, Peer
<1>18. Hears(h, T, p.txn, SentRsp(h))
  <2>1. \A i \in DOMAIN h.wr_await_q : h.wr_await_q[i].num \in DOMAIN T
    <3> TAKE i \in DOMAIN h.wr_await_q
    <3>1. h.wr_await_q[i] \in Entry BY <1>10, OutTypes
    <3>2. h.wr_await_q[i].num \in Nat \ {0} BY <3>1 DEF Entry
    <3>3. h.wr_await_q[i].num <= Len(T) BY <1>11 DEF Book, Views, Known
    <3> QED BY <1>9, <3>2, <3>3
  <2> QED BY <1>15, <1>16, <2>1 DEF Hears, Observed
<1>19. Answers(g, p.txn, split) /\ Sending(h, g)
  <2>1. g = drive_sends(h, in) BY DEF g, h
  <2>2. Got(T, p.txn, SentRsp(h), SentDat(h)) BY <1>15, <1>16
  <2> QED
    BY <1>11, <1>12, <1>13, <1>17, <1>18, <2>1, <2>2, SendsAnswers, SendsBook
<1>20. g.cfg = drv.cfg
  BY <1>5, <1>7, <1>10, <1>19 DEF Aside, Still, Sending
<1> QED BY <1>1, <1>19, <1>20 DEF AnswersInv, split

(* After a reset nothing was asked.                                        *)
LEMMA IdleAnswers ==
  ASSUME NEW c, NEW d, d = Idle(c), NEW split
  PROVE  Answers(d, PeerIdle.txn, split)
<1>1. /\ d.wr_await_q = <<>> /\ d.req_port = {}
      /\ d.dat_announce = <<>> /\ d.dat_send_q = <<>>
      /\ PeerIdle.txn = <<>>
  BY DEF Idle, PeerIdle
<1>2. DOut(d) = <<>> BY <1>1 DEF DOut
<1>3. Entries(d, <<>>, split) BY <1>1, <1>2 DEF Entries
<1> QED BY <1>1, <1>3 DEF Answers

(***************************************************************************)
(* For every request, what arrived, what is on its way and what its        *)
(* waiting entry brings are together its replies, its beats and its        *)
(* verdict (handle_req, handle_write_data, complete and drive_sends of     *)
(* vip_mc_chi_driver).                                                     *)
(***************************************************************************)
THEOREM AnswersBookKept == Spec => []AnswersInv
<1>1. Init => AnswersInv
  <2> SUFFICES ASSUME Init PROVE AnswersInv OBVIOUS
  <2>1. PICK c \in Cfg : drv = Idle(c) BY DEF Init
  <2>2. peer = PeerIdle BY DEF Init
  <2> QED BY <2>1, <2>2, IdleAnswers DEF AnswersInv
<1>2. ChiInv /\ AnswersInv /\ [Next]_vars => AnswersInv'
  <2> SUFFICES ASSUME ChiInv, AnswersInv, [Next]_vars PROVE AnswersInv'
    OBVIOUS
  <2>0. peer \in Peer /\ drv \in Driver BY DEF ChiInv, Book
  <2>1. ASSUME NEW in \in Input(SUBSET Room, Spendable("req", Requests)),
               Edge(in)
        PROVE  AnswersInv'
    BY <2>0, <2>1, InputSane, EdgeAnswers
  <2>2. ASSUME NEW e \in drv.req_port, NEW err \in {"OKAY", "DERR"},
               Answer(e, err)
        PROVE  AnswersInv'
    <3> DEFINE g == complete([drv EXCEPT !.req_port = @ \ {e}], e, err)
               split == drv.cfg.split_write_rsp
    <3>1. drv' = g /\ peer' = peer BY <2>2 DEF Answer
    <3>2. Book(drv, peer.txn, 0) BY DEF ChiInv
    <3>3. split \in BOOLEAN BY <2>0, DriverTypes, CfgTypes
    <3>4. Answers(drv, peer.txn, split) BY DEF AnswersInv
    <3>5. g.cfg = drv.cfg BY <3>2, CompleteBook DEF Kept
    <3> HIDE DEF split
    <3>6. Answers(g, peer.txn, split) BY <3>2, <3>3, <3>4, AnswerAnswers
    <3> HIDE DEF g
    <3> QED BY <3>1, <3>5, <3>6 DEF AnswersInv, split
  <2>3. CASE Reset
    <3>1. drv' = Idle(drv.cfg) /\ peer' = PeerIdle BY <2>3 DEF Reset
    <3> QED BY <3>1, IdleAnswers DEF AnswersInv
  <2>4. CASE UNCHANGED vars BY <2>4 DEF AnswersInv, vars
  <2> QED BY <2>1, <2>2, <2>3, <2>4 DEF Next
<1> QED BY <1>1, <1>2, ChiBooksKept, PTL DEF Spec

(* The beats of a request that are counted.                                *)
LEMMA DatCount ==
  ASSUME drv \in Driver, NEW n
  PROVE  Count(DatOut, LAMBDA f : f.num = n)
           = Cardinality(Marks(DOut(drv), Of(n)))
<1>1. DOut(drv) \in Seq(DatFlit) BY OutTypes
<1>2. DatOut = DOut(drv) BY DEF DatOut, DOut
<1>3. Marks(DOut(drv), Of(n)) = {i \in DOMAIN DatOut : DatOut[i].num = n}
  BY <1>1, <1>2 DEF Marks, Of
<1> QED BY <1>3 DEF Count

(* The entry of a request that is not finished.                            *)
LEMMA OneUnfinished ==
  ASSUME ChiInv, NEW n, NEW e, e = {x \in Unfinished : x.num = n}
  PROVE  Cardinality(e) <= 1 /\ (e # {} <=> ~Free(drv, n))
<1>1. Distinct(drv.wr_await_q, drv.req_port) BY DEF ChiInv, Book, Views
<1>2. \A x, y \in Unfinished : x.num = y.num => x = y
  BY <1>1 DEF Distinct, Unfinished, SeqSet
<1>3. e # {} <=> ~Free(drv, n) BY DEF Free, Unfinished, SeqSet
<1>4. Cardinality(e) <= 1
  <2>1. CASE e = {}
    <3>1. Cardinality(e) = 0 BY <2>1, FS_EmptySet
    <3> QED BY <3>1
  <2>2. CASE e # {}
    <3>1. PICK x : e = {x} BY <1>2, <2>2
    <3>2. Cardinality(e) = 1 BY <3>1, FS_Singleton
    <3> QED BY <3>2
  <2> QED BY <2>1, <2>2
<1> QED BY <1>3, <1>4

LEMMA RepliesHold ==
  ASSUME ChiInv, AnswersInv
  PROVE  RepliesExact
<1> SUFFICES ASSUME NEW n \in DOMAIN peer.txn
             PROVE  LET t == peer.txn[n]
                        ops == RspOps(t.kind)
                        e == {x \in Unfinished : x.num = n}
                        hi == Len(ops) - HeldBack(ops, e # {})
                    IN /\ Cardinality(e) <= 1
                       /\ Len(t.rsp) <= hi
                       /\ t.rsp = SubSeq(ops, 1, Len(t.rsp))
                       /\ InLine(RspOut, n, ops, Len(t.rsp), hi)
                       /\ t.dat + Count(DatOut, LAMBDA f : f.num = n)
                            + (IF e = {} THEN 0 ELSE DatBeats(t.kind))
                              = DatBeats(t.kind)
  BY Zenon DEF RepliesExact
<1> DEFINE t == peer.txn[n]
           ops == RspOps(t.kind)
           e == {x \in Unfinished : x.num = n}
           z == HeldBack(ops, e # {})
           hi == Len(ops) - z
           c == Cardinality(Marks(DOut(drv), Of(n)))
           w == IF e = {} THEN 0 ELSE DatBeats(t.kind)
<1>1. drv \in Driver /\ peer \in Peer BY DEF ChiInv, Book
<1>2. ops = Replies(t.kind, drv.cfg.split_write_rsp) BY RepliesOps
<1>3. Cardinality(e) <= 1 /\ (e # {} <=> ~Free(drv, n)) BY OneUnfinished
<1>4. Served(drv, n, t, drv.cfg.split_write_rsp)
  BY DEF AnswersInv, Answers
<1>5. RspOut = ROut(drv) BY DEF RspOut, ROut
<1>6. t \in Txn
  <2>1. peer.txn \in Seq(Txn) BY <1>1 DEF Peer
  <2> QED BY <2>1
<1>7. Count(DatOut, LAMBDA f : f.num = n) = c BY <1>1, DatCount
<1>8. Ladder(ops) BY <1>2, RepliesLadder
<1>9. z \in {0, 1} BY DEF HeldBack
<1> HIDE DEF t, ops, e
<1>10. z = HeldBack(ops, ~Free(drv, n)) BY <1>3 DEF HeldBack
<1>11. w = IF ~Free(drv, n) THEN DatBeats(t.kind) ELSE 0 BY <1>3
<1> HIDE DEF z, w, c
<1>12. /\ Len(t.rsp) <= hi
       /\ \A i \in DOMAIN t.rsp : t.rsp[i] = ops[i]
       /\ InLine(ROut(drv), n, ops, Len(t.rsp), hi)
       /\ t.dat + c + w = DatBeats(t.kind)
  BY <1>2, <1>4, <1>10, <1>11 DEF Served, c
<1>13. t.rsp = SubSeq(ops, 1, Len(t.rsp))
  <2> DEFINE s == t.rsp
             l == Len(s)
  <2>1. s \in Seq(RspOp) /\ ops \in Seq(RspOp) BY <1>6, <1>8 DEF Txn, Ladder
  <2>2. Len(ops) \in Nat /\ l \in Nat BY <2>1
  <2>3. l <= Len(ops)
    <3>1. l <= hi BY <1>12
    <3> HIDE DEF l
    <3> QED BY ONLY <1>9, <2>2, <3>1
  <2>4. \A i \in 1 .. l : s[i] = ops[i]
    <3>1. DOMAIN s = 1 .. l BY <2>1
    <3> QED BY <1>12, <3>1
  <2> HIDE DEF s
  <2>5. SubSeq(ops, 1, l) \in Seq(RspOp) /\ Len(SubSeq(ops, 1, l)) = l
        /\ \A i \in 1 .. l : SubSeq(ops, 1, l)[i] = ops[i]
    BY <2>1, <2>2, <2>3
  <2>6. s = SubSeq(ops, 1, l)
    <3> DEFINE q == SubSeq(ops, 1, l)
    <3>1. q \in Seq(RspOp) /\ Len(q) = Len(s)
          /\ \A i \in 1 .. Len(s) : q[i] = s[i]
      BY <2>4, <2>5
    <3> HIDE DEF q
    <3>2. s = q BY <2>1, <3>1, SeqEqual
    <3> QED BY <3>2 DEF q
  <2> QED BY <2>6 DEF s
<1> HIDE DEF hi
<1>14. /\ Cardinality(e) <= 1
       /\ Len(t.rsp) <= hi /\ t.rsp = SubSeq(ops, 1, Len(t.rsp))
       /\ InLine(RspOut, n, ops, Len(t.rsp), hi)
       /\ t.dat + Count(DatOut, LAMBDA f : f.num = n) + w
            = DatBeats(t.kind)
  BY <1>3, <1>5, <1>7, <1>12, <1>13
<1> QED BY <1>14 DEF t, ops, e, z, hi, w

LEMMA VerdictHolds ==
  ASSUME ChiInv, AnswersInv
  PROVE  VerdictDelivered
<1>1. drv \in Driver /\ peer \in Peer BY DEF ChiInv, Book
<1>2. ASSUME NEW e \in drv.req_port
      PROVE  ~Refused(peer.txn[e.num].kind)
  <2> DEFINE k == peer.txn[e.num].kind
  <2>1. /\ e.op = k.op /\ ~k.err
        /\ e.op \in {"READ", "READ_SEP", "WRITE", "WRITE_ZERO"}
    BY DEF AnswersInv, Answers, Entries, Matches
  <2> HIDE DEF k
  <2>2. ~Refused(k) BY <2>1 DEF Refused
  <2> QED BY <2>2 DEF k
<1>3. ASSUME NEW n \in DOMAIN peer.txn, Answered(peer.txn[n])
      PROVE  peer.txn[n].nderr <=> Refused(peer.txn[n].kind)
  <2> DEFINE t == peer.txn[n]
             split == drv.cfg.split_write_rsp
             ops == Replies(t.kind, split)
             p == ~Free(drv, n)
             z == HeldBack(ops, p)
             hi == Len(ops) - z
             m == Marks(DOut(drv), Of(n))
             c == Cardinality(m)
             w == IF p THEN DatBeats(t.kind) ELSE 0
  <2>1. t \in Txn
    <3>1. peer.txn \in Seq(Txn) BY <1>1 DEF Peer
    <3> QED BY <3>1
  <2>2. t.rsp = ops /\ t.dat = DatBeats(t.kind)
    BY <1>3, RepliesOps DEF Answered
  <2>3. Served(drv, n, t, split) BY DEF AnswersInv, Answers
  <2>4. /\ Len(ops) <= hi
        /\ InLine(ROut(drv), n, ops, Len(ops), hi)
        /\ t.dat + c + w = DatBeats(t.kind)
        /\ t.nderr \/ Told(drv, n) => Refused(t.kind)
        /\ Refused(t.kind) => t.nderr \/ Told(drv, n) \/ z = 1
    BY <2>2, <2>3 DEF Served
  <2>5. DOut(drv) \in Seq(DatFlit) BY <1>1, OutTypes
  <2>6. IsFiniteSet(m) /\ c \in Nat BY <2>5, MarksFinite
  <2>7. z \in {0, 1} BY DEF HeldBack
  <2>8. Len(ops) \in Nat
    <3>1. Ladder(ops) BY RepliesLadder
    <3> QED BY <3>1 DEF Ladder
  <2>9. t.dat \in Nat /\ w \in Nat
    <3>1. t.dat \in Nat /\ t.kind \in Request BY <2>1 DEF Txn
    <3>2. t.kind.beats \in Nat BY <3>1 DEF Request
    <3> QED BY <3>1, <3>2 DEF DatBeats
  <2>10. \A i \in DOMAIN DOut(drv) : DOut(drv)[i].num = n => i \in m
    BY <2>5 DEF Marks, Of
  <2> HIDE DEF t, ops, z, c, w, m
  <2>11. z = 0 /\ hi = Len(ops) BY ONLY <2>4, <2>7, <2>8
  <2>12. c = 0 BY ONLY <2>2, <2>4, <2>6, <2>9
  <2>13. m = {} BY <2>6, <2>12, FS_EmptySet DEF c
  <2>14. ~ToldIn(DOut(drv), n) BY <2>10, <2>13 DEF ToldIn
  <2>15. ~ToldIn(ROut(drv), n)
    <3>1. InLine(ROut(drv), n, ops, Len(ops), Len(ops)) BY <2>4, <2>11
    <3>2. Len(ops) + 1 .. Len(ops) = {} BY <2>8
    <3>3. \A i \in DOMAIN ROut(drv) : ROut(drv)[i].num # n
      BY <3>1, <3>2, InLineIs
    <3> QED BY <3>3 DEF ToldIn
  <2>16. ~Told(drv, n) BY <2>14, <2>15 DEF Told
  <2> QED BY <2>4, <2>11, <2>16 DEF t
<1> QED BY <1>2, <1>3, Zenon DEF VerdictDelivered

LEMMA SendRspSameDat ==
  ASSUME NEW d \in Driver, NEW due, NEW g, g = send_rsp(d, due)
  PROVE  SameDat(d, g)
<1>1. CASE d.rsp_announce = <<>>
  <2> DEFINE v == <<Head(d.rsp_send_q)>>
             w == Tail(d.rsp_send_q)
  <2>1. g = d \/ g = RspSet(d, v, w)
    BY <1>1 DEF send_rsp, announce_rsp_flit, RspSet
  <2> HIDE DEF v, w
  <2>2. SameDat(d, RspSet(d, v, w)) BY DEF SameDat, RspSet, Driver
  <2>3. SameDat(d, d) BY DEF SameDat
  <2> QED BY <2>1, <2>2, <2>3
<1>2. CASE d.rsp_announce # <<>>
  <2> DEFINE s == [d.send_credits EXCEPT !["rsp"] = @ - 1]
             h == RspGone(d, <<>>, s)
             closes == rsp_flit_closes_activity(Head(d.rsp_announce))
  <2>1. g = Close(h, closes) BY <1>2 DEF send_rsp, RspGone
  <2> HIDE DEF s
  <2>2. SameDat(d, h) BY DEF SameDat, RspGone, Driver
  <2> HIDE DEF h, closes
  <2>3. SameDat(h, g) BY <2>1 DEF SameDat, Close
  <2> QED BY <2>2, <2>3 DEF SameDat
<1> QED BY <1>1, <1>2

LEMMA EdgeLegs ==
  ASSUME ChiInv, NEW in, Sane(in), Edge(in), RespSepGoes(drv),
         drv.dat_announce # <<>>,
         Head(drv.dat_announce).op = "DATA_SEP_RESP"
  PROVE  drv'.dat_announce # <<>>
<1> PICK f \in {receive(link(drv, in), in)} :
      drv' = drive_sends(drive_credit_grants(f), in)
  BY DEF Edge
<1> DEFINE d == link(drv, in)
           h == drive_credit_grants(f)
           sep == RespSepGoes(h)
           d1 == send_rsp(h, in.rspdue)
           d2 == send_dat(d1, in.datdue, sep)
           v == d2.tx_activity_count > 0 \/ SentRsp(h) # <<>>
                  \/ SentDat(h) # <<>>
<1>1. f = receive(d, in) OBVIOUS
<1>2. peer \in Peer /\ drv \in Driver BY DEF ChiInv, Book
<1>3. Book(d, peer.txn, 0) BY LinkCredits
<1>4. Aside(drv, d)
  <2>1. in.link \in BOOLEAN BY DEF Sane
  <2> QED BY <1>2, <2>1, LinkIs
<1>5. drv' = [d2 EXCEPT !.txsactive = v] BY DEF drive_sends
<1> HIDE DEF d
<1>6. Book(f, Paid(in), 0) /\ Still(d, f) BY <1>1, <1>2, <1>3, ReceiveBook
<1>7. f \in Driver BY <1>6 DEF Book
<1>8. h \in Driver /\ Aside(f, h) BY <1>7, GrantIs
<1>9. /\ h.rsp_announce = drv.rsp_announce
      /\ h.dat_announce = drv.dat_announce
  BY <1>4, <1>6, <1>8 DEF Aside, SameQueues, Still
<1>10. sep BY <1>9 DEF RespSepGoes
<1> HIDE DEF h, sep, v
<1>11. SameDat(h, d1) BY <1>8, SendRspSameDat
<1> HIDE DEF d1
<1>12. d1.dat_announce = drv.dat_announce BY <1>9, <1>11 DEF SameDat
<1>13. Held(d1.dat_announce, sep) BY <1>10, <1>12 DEF Held
<1>14. d2 = d1 BY <1>12, <1>13 DEF send_dat
<1> HIDE DEF d2
<1>15. drv'.dat_announce = d2.dat_announce BY <1>5
<1> QED BY <1>12, <1>14, <1>15

(* An answer of the backend puts nothing on the reply channel.             *)
LEMMA AnswerLegs ==
  ASSUME Book(drv, peer.txn, 0), NEW e \in drv.req_port,
         NEW err \in {"OKAY", "DERR"}, Answer(e, err)
  PROVE  drv'.rsp_announce = drv.rsp_announce
<1> DEFINE g == complete([drv EXCEPT !.req_port = @ \ {e}], e, err)
<1>1. drv' = g BY DEF Answer
<1>2. Book(g, peer.txn, 0) /\ Kept(drv, g) BY CompleteBook
<1> HIDE DEF g
<1> QED BY <1>1, <1>2 DEF Kept

LEMMA LegsApart ==
  ASSUME ChiInv, [Next]_vars
  PROVE  SepLegsApart
<1> SUFFICES ASSUME RespSepGoes(drv), drv.dat_announce # <<>>,
                    Head(drv.dat_announce).op = "DATA_SEP_RESP",
                    drv'.rsp_announce = <<>>, drv'.dat_announce = <<>>,
                    drv' # Idle(drv.cfg)
             PROVE  FALSE
  BY DEF SepLegsApart
<1>0. peer \in Peer /\ drv \in Driver /\ drv.rsp_announce # <<>>
  BY DEF ChiInv, Book, RespSepGoes
<1>1. ASSUME NEW in \in Input(SUBSET Room, Spendable("req", Requests)),
             Edge(in)
      PROVE  FALSE
  BY <1>0, <1>1, InputSane, EdgeLegs
<1>2. ASSUME NEW e \in drv.req_port, NEW err \in {"OKAY", "DERR"},
             Answer(e, err)
      PROVE  FALSE
  <2>1. Book(drv, peer.txn, 0) BY DEF ChiInv
  <2> QED BY <1>0, <1>2, <2>1, AnswerLegs
<1>3. CASE Reset BY <1>3 DEF Reset
<1>4. CASE UNCHANGED vars BY <1>0, <1>4 DEF vars
<1> QED BY <1>1, <1>2, <1>3, <1>4 DEF Next

(***************************************************************************)
(* Whatever the order in which requests, data, credits, times and the      *)
(* answers of the backend come, every request gets its replies, each once  *)
(* and in the order of their channel, with all its beats, and the verdict  *)
(* that is its due; the two legs of a separated read never go by at one    *)
(* edge (handle_req, handle_write_data, complete and drive_sends of        *)
(* vip_mc_chi_driver).                                                     *)
(***************************************************************************)
THEOREM AnswersAreExact == Spec => AnswersExact
<1>1. ChiInv /\ AnswersInv => RepliesExact /\ VerdictDelivered
  BY RepliesHold, VerdictHolds
<1>2. ChiInv /\ [Next]_vars => SepLegsApart BY LegsApart
<1>3. Spec => [](ChiInv /\ AnswersInv)
  BY ChiBooksKept, AnswersBookKept, PTL
<1>4. Spec => []RepliesExact /\ []VerdictDelivered BY <1>1, <1>3, PTL
<1>5. RepliesExact' /\ VerdictDelivered' /\ ChiInv /\ [Next]_vars
        => [RepliesExact' /\ VerdictDelivered' /\ SepLegsApart]_vars
  BY <1>2
<1> QED BY <1>3, <1>4, <1>5, PTL DEF Spec, AnswersExact
=============================================================================
