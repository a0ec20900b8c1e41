--------------------------- MODULE CmdQueueProofs ---------------------------
(* What holds of the command queue for every workload, class count, aging  *)
(* period and coalescing setting.                                          *)
EXTENDS CmdQueue, WellFoundedInduction, TLAPS

-----------------------------------------------------------------------------
(* Admit orders are handed out once and never lie in the future.           *)
OrdersFresh ==
  /\ queued \cap inflight = {}
  /\ \A c \in Pending : admit_order[c] # 0 /\ admit_order[c] < next_admit_order
  /\ \A c, d \in Pending : admit_order[c] = admit_order[d] => c = d

(* Every entry is accepted at most once, at a rank of its own, and has no  *)
(* effect on the queue before that.                                        *)
ArrivalsFresh ==
  /\ \A c \in Cmd : arrival[c] <= arrivals
  /\ \A c, d \in Cmd : arrival[c] = arrival[d] /\ arrival[c] # 0 => c = d
  /\ \A c \in Cmd : arrival[c] = 0 =>
       /\ c \notin Pending
       /\ merged_writes[c] = {}
       /\ wdata[c] = [b \in Byte |-> IF b \in c.strb THEN c ELSE NoByte]

(* A pending entry and its merged writes form one interval of their        *)
(* stream's acceptance order, and the intervals follow the admit order.    *)
GroupsOrdered ==
  /\ \A p \in Pending : \A c \in Group(p) :
       /\ stream_key(c) = stream_key(p)
       /\ arrival[p] # 0 /\ arrival[p] <= arrival[c]
  /\ \A p, q \in Pending :
       stream_key(p) = stream_key(q) /\ admit_order[p] < admit_order[q] =>
         \A c \in Group(p) : \A d \in Group(q) : arrival[c] < arrival[d]

(* The inductive invariant.                                                *)
IInv ==
  /\ TypeOK
  /\ OrdersFresh
  /\ ArrivalsFresh
  /\ CacheCoherent
  /\ StreamSerialised
  /\ GroupsOrdered
  /\ NewestByteWins

-----------------------------------------------------------------------------
(* k is what a rescan of S finds for stream s.                             *)
IsOldest(k, S, order, s) ==
  \/ k = 0 /\ \A c \in S : stream_key(c) # s
  \/ \E d \in S : /\ stream_key(d) = s
                  /\ k = order[d]
                  /\ \A c \in S : stream_key(c) = s => k <= order[c]

(* A nonempty set of natural numbers has a least element.                  *)
LEMMA LeastNat ==
  ASSUME NEW T \in SUBSET Nat, T # {}
  PROVE  \E k \in T : \A j \in T : k <= j
<1>1. \E k \in T : \A j \in T : <<j, k>> \notin OpToRel(<, Nat)
  <2>1. IsWellFoundedOn(OpToRel(<, Nat), Nat)
    BY NatLessThanWellFounded
  <2> QED BY <2>1, WFMin, Zenon
<1>2. PICK k \in T : \A j \in T : <<j, k>> \notin OpToRel(<, Nat)
  BY <1>1
<1>3. ASSUME NEW j \in T PROVE k <= j
  <2>1. j \in Nat /\ k \in Nat OBVIOUS
  <2>2. ~ (j < k) BY <1>2, <2>1 DEF OpToRel
  <2> QED BY <2>1, <2>2
<1> QED BY <1>3

(* The rebuild loop finds the least order of the stream, or no key.        *)
LEMMA OldestOrderIsOldest ==
  ASSUME NEW S \in SUBSET Cmd, NEW order \in [Cmd -> Nat], NEW s, NEW k
  PROVE  k = OldestOrder(S, order, s) <=> IsOldest(k, S, order, s)
<1> DEFINE orders == {order[c] : c \in {d \in S : stream_key(d) = s}}
           m == CHOOSE i \in orders : \A j \in orders : i <= j
<1>1. CASE orders = {}
  <2>1. \A c \in S : stream_key(c) # s BY <1>1
  <2>2. OldestOrder(S, order, s) = 0 BY <1>1 DEF OldestOrder
  <2> QED BY <2>1, <2>2 DEF IsOldest
<1>2. CASE orders # {}
  <2>1. orders \in SUBSET Nat OBVIOUS
  <2>2. m \in orders /\ \A j \in orders : m <= j
    <3>1. \E i \in orders : \A j \in orders : i <= j
      BY <1>2, <2>1, LeastNat
    <3> QED BY <3>1
  <2>3. OldestOrder(S, order, s) = m BY <1>2 DEF OldestOrder
  <2>4. PICK d \in S : stream_key(d) = s /\ m = order[d] BY <2>2
  <2>5. \A c \in S : stream_key(c) = s => order[c] \in orders /\ order[c] \in Nat
    OBVIOUS
  <2> HIDE DEF m, orders
  <2>6. IsOldest(m, S, order, s)
    BY <2>2, <2>4, <2>5 DEF IsOldest
  <2>7. ASSUME IsOldest(k, S, order, s) PROVE k = m
    <3>1. PICK e \in S : /\ stream_key(e) = s
                         /\ k = order[e]
                         /\ \A c \in S : stream_key(c) = s => k <= order[c]
      BY <2>7, <2>4 DEF IsOldest
    <3>2. k <= m /\ m <= k /\ k \in Nat /\ m \in Nat
      BY <3>1, <2>4, <2>2, <2>5
    <3> QED BY <3>2
  <2> QED BY <2>3, <2>6, <2>7
<1> QED BY <1>1, <1>2

LEMMA OldestOrderNat ==
  ASSUME NEW S \in SUBSET Cmd, NEW order \in [Cmd -> Nat], NEW s
  PROVE  OldestOrder(S, order, s) \in Nat
<1>1. IsOldest(OldestOrder(S, order, s), S, order, s) BY OldestOrderIsOldest
<1>2. CASE OldestOrder(S, order, s) = 0 BY <1>2
<1>3. CASE \E d \in S : OldestOrder(S, order, s) = order[d] BY <1>3
<1> QED BY <1>1, <1>2, <1>3 DEF IsOldest

LEMMA MaxWaitType == MaxWait \in Nat
BY QosAssumption DEF MaxWait

LEMMA StreamType == \A c \in Cmd : stream_key(c) \in Stream
BY DEF Stream

LEMMA InitInv == QueueInit => IInv
<1> SUFFICES ASSUME QueueInit PROVE IInv OBVIOUS
<1>1. TypeOK
  <2>1. \A c \in Cmd : [b \in Byte |-> IF b \in c.strb THEN c ELSE NoByte]
                         \in [Byte -> Cmd \cup {NoByte}]
    OBVIOUS
  <2> QED BY <2>1, MaxWaitType DEF QueueInit, TypeOK
<1>2. Pending = {} BY DEF QueueInit, Pending
<1>3. ASSUME NEW s \in Stream
      PROVE /\ oldest_queued[s] = OldestOrder(queued, admit_order, s)
            /\ oldest_inflight[s] = OldestOrder(inflight, admit_order, s)
  <2>1. queued = {} /\ inflight = {} /\ oldest_queued[s] = 0 /\ oldest_inflight[s] = 0
    BY DEF QueueInit
  <2>2. OldestOrder({}, admit_order, s) = 0 BY DEF OldestOrder
  <2> QED BY <2>1, <2>2
<1>4. OrdersFresh /\ ArrivalsFresh
  BY <1>2 DEF QueueInit, OrdersFresh, ArrivalsFresh
<1>5. StreamSerialised /\ GroupsOrdered /\ NewestByteWins
  BY <1>2 DEF QueueInit, StreamSerialised, GroupsOrdered, NewestByteWins
<1> QED BY <1>1, <1>3, <1>4, <1>5 DEF IInv, CacheCoherent

(* A merge: the write c joins the group of p, the newest of its stream.    *)
LEMMA MergeInv ==
  ASSUME IInv, NEW c \in Cmd, NEW p \in coalesce_target(c),
         arrival[c] = 0, arrivals' = arrivals + 1,
         arrival' = [arrival EXCEPT ![c] = arrivals + 1],
         merged_writes' = [merged_writes EXCEPT ![p] = @ \cup {c}],
         wdata' = [wdata EXCEPT ![p] = overlay_write(@, wdata[c])],
         UNCHANGED <<queueVars, inflightVars, orderVars>>
  PROVE  IInv'
<1> USE DEF IInv, queueVars, inflightVars, orderVars
<1>1. /\ p \in queued /\ p \in Pending /\ p \in Cmd
      /\ stream_key(p) = stream_key(c)
      /\ \A q \in Pending : stream_key(q) = stream_key(c) =>
                               admit_order[q] <= admit_order[p]
  BY DEF coalesce_target, Pending, TypeOK
<1>2. Pending' = Pending /\ c \notin Pending /\ c # p
  BY <1>1 DEF Pending, ArrivalsFresh
<1>3. TypeOK'
  <2>1. overlay_write(wdata[p], wdata[c]) \in [Byte -> Cmd \cup {NoByte}]
    BY <1>1 DEF overlay_write, TypeOK
  <2> QED BY <2>1, <1>1 DEF TypeOK
<1>4. OrdersFresh' BY <1>2 DEF OrdersFresh
<1>5. ArrivalsFresh'
  BY <1>1, <1>2 DEF ArrivalsFresh, TypeOK
<1>6. CacheCoherent' BY DEF CacheCoherent
<1>7. StreamSerialised' BY <1>2 DEF StreamSerialised
<1>8. /\ Group(p)' = Group(p) \cup {c}
      /\ \A q \in Pending : q # p => Group(q)' = Group(q)
      /\ \A q \in Pending : Group(q) \subseteq Cmd
  BY <1>1, <1>2 DEF Group, TypeOK, Pending
<1>9. /\ \A d \in Cmd : d # c => arrival'[d] = arrival[d] /\ arrival[d] < arrival'[c]
      /\ arrival'[c] = arrivals + 1 /\ arrival'[c] # 0 /\ arrivals \in Nat
      /\ \A d \in Cmd : arrival[d] \in Nat
  BY DEF TypeOK, ArrivalsFresh
<1>10. \A q \in Pending : c \notin Group(q)
  BY <1>8, <1>9 DEF GroupsOrdered, Pending, TypeOK
<1>11. GroupsOrdered'
  <2>1. ASSUME NEW q \in Pending, NEW d \in Group(q)'
        PROVE  /\ stream_key(d) = stream_key(q)
               /\ arrival'[q] # 0 /\ arrival'[q] <= arrival'[d]
    <3>1. CASE d = c
      <4>1. q = p BY <3>1, <1>8, <1>10
      <4> QED BY <4>1, <3>1, <1>1, <1>2, <1>9 DEF GroupsOrdered, Group
    <3>2. CASE d # c
      <4>1. d \in Group(q) /\ q # c /\ q \in Cmd /\ d \in Cmd
        BY <3>2, <1>8, <1>2 DEF Pending, TypeOK
      <4> QED BY <4>1, <3>2, <1>9 DEF GroupsOrdered
    <3> QED BY <3>1, <3>2
  <2>2. ASSUME NEW q \in Pending, NEW r \in Pending,
               stream_key(q) = stream_key(r), admit_order[q] < admit_order[r],
               NEW d \in Group(q)', NEW e \in Group(r)'
        PROVE  arrival'[d] < arrival'[e]
    <3>1. q # p
      <4>1. CASE stream_key(r) = stream_key(c)
        <5>1. admit_order[r] <= admit_order[p] BY <4>1, <1>1
        <5>2. admit_order[r] \in Nat /\ admit_order[q] \in Nat
          BY DEF Pending, TypeOK
        <5> QED BY <5>1, <5>2, <2>2
      <4> QED BY <4>1, <2>2, <1>1
    <3>2. d \in Group(q) /\ d # c /\ d \in Cmd
      BY <3>1, <1>8, <1>10
    <3>3. CASE e = c BY <3>2, <3>3, <1>9
    <3>4. CASE e # c
      <4>1. e \in Group(r) /\ e \in Cmd BY <3>4, <1>8
      <4> QED BY <4>1, <3>2, <3>4, <2>2, <1>9 DEF GroupsOrdered
    <3> QED BY <3>3, <3>4
  <2> QED BY <2>1, <2>2, <1>2 DEF GroupsOrdered
<1>12. NewestByteWins'
  <2> SUFFICES ASSUME NEW q \in Pending, NEW b \in Byte
               PROVE  LET writers == {d \in Group(q)' : b \in d.strb}
                      IN IF writers = {} THEN wdata'[q][b] = NoByte
                         ELSE /\ wdata'[q][b] \in writers
                              /\ \A d \in writers : arrival'[d] <= arrival'[wdata'[q][b]]
    BY <1>2 DEF NewestByteWins
  <2> DEFINE old == {d \in Group(q) : b \in d.strb}
             new == {d \in Group(q)' : b \in d.strb}
  <2>1. /\ old \subseteq Cmd
        /\ c \notin old
        /\ IF old = {} THEN wdata[q][b] = NoByte
           ELSE /\ wdata[q][b] \in old
                /\ \A d \in old : arrival[d] <= arrival[wdata[q][b]]
    BY <1>8, <1>10 DEF NewestByteWins
  <2>2. CASE q # p
    <3>1. new = old /\ wdata'[q] = wdata[q] BY <2>2, <1>8, <1>1 DEF TypeOK, Pending
    <3>2. \A d \in old : arrival'[d] = arrival[d] BY <2>1, <1>9
    <3> HIDE DEF old, new
    <3>3. IF new = {} THEN wdata'[q][b] = NoByte
          ELSE /\ wdata'[q][b] \in new
               /\ \A d \in new : arrival'[d] <= arrival'[wdata'[q][b]]
      BY <3>1, <3>2, <2>1
    <3> QED BY <3>3 DEF new
  <2>3. CASE q = p
    <3>1. wdata[c][b] = IF b \in c.strb THEN c ELSE NoByte
      <4>1. wdata[c] = [a \in Byte |-> IF a \in c.strb THEN c ELSE NoByte]
        BY DEF ArrivalsFresh
      <4> QED BY <4>1
    <3>2. wdata'[p][b] = IF wdata[c][b] # NoByte THEN wdata[c][b] ELSE wdata[p][b]
      BY <1>1 DEF TypeOK, overlay_write
    <3>3. new = IF b \in c.strb THEN old \cup {c} ELSE old BY <2>3, <1>8
    <3>4. c # NoByte BY CmdAssumption
    <3>5. \A d \in old : arrival'[d] = arrival[d] /\ arrival'[d] < arrival'[c]
                          /\ arrival'[d] \in Nat /\ arrival'[c] \in Nat
      BY <2>1, <1>9
    <3> HIDE DEF old, new
    <3>6. IF new = {} THEN wdata'[q][b] = NoByte
          ELSE /\ wdata'[q][b] \in new
               /\ \A d \in new : arrival'[d] <= arrival'[wdata'[q][b]]
      <4>1. CASE b \in c.strb
        <5>1. wdata'[q][b] = c /\ new = old \cup {c}
          BY <4>1, <2>3, <3>1, <3>2, <3>3, <3>4
        <5>2. arrival'[c] <= arrival'[c] BY <1>9
        <5> QED BY <5>1, <5>2, <3>5
      <4>2. CASE b \notin c.strb
        <5>1. wdata'[q][b] = wdata[q][b] /\ new = old
          BY <4>2, <2>3, <3>1, <3>2, <3>3
        <5> QED BY <5>1, <2>1, <3>5
      <4> QED BY <4>1, <4>2
    <3> QED BY <3>6 DEF new
  <2> QED BY <2>2, <2>3
<1> QED BY <1>3, <1>4, <1>5, <1>6, <1>7, <1>11, <1>12

(* An admission: c becomes the newest entry of its stream.                 *)
LEMMA AdmitInv ==
  ASSUME IInv, NEW c \in Cmd,
         arrival[c] = 0, arrivals' = arrivals + 1,
         arrival' = [arrival EXCEPT ![c] = arrivals + 1],
         admit(c)
  PROVE  IInv'
<1> USE DEF IInv, admit, inflightVars, mergeVars
<1>1. c \notin Pending /\ c \notin queued /\ c \notin inflight
  BY DEF ArrivalsFresh, Pending
<1>2. /\ Pending' = Pending \cup {c} /\ Pending \subseteq Cmd
      /\ next_admit_order \in Nat \ {0}
      /\ \A d \in Cmd : admit_order[d] \in Nat
  BY DEF Pending, TypeOK
<1>3. /\ \A d \in Cmd : d # c => admit_order'[d] = admit_order[d]
      /\ admit_order'[c] = next_admit_order
      /\ \A d \in Pending : admit_order'[d] < next_admit_order /\ admit_order'[d] # 0
  BY <1>1, <1>2 DEF TypeOK, OrdersFresh
<1>4. TypeOK'
  <2>1. oldest_queued' \in [Stream -> Nat] BY DEF TypeOK, LowerTo
  <2>2. waited' \in [Cmd -> 0 .. MaxWait] BY MaxWaitType DEF TypeOK
  <2> QED BY <2>1, <2>2 DEF TypeOK
<1>5. OrdersFresh'
  <2>1. queued' \cap inflight' = {} BY <1>1 DEF OrdersFresh
  <2>2. ASSUME NEW d \in Pending' PROVE admit_order'[d] # 0 /\ admit_order'[d] < next_admit_order'
    BY <1>2, <1>3
  <2>3. ASSUME NEW d \in Pending', NEW e \in Pending', admit_order'[d] = admit_order'[e]
        PROVE  d = e
    BY <2>3, <1>1, <1>2, <1>3 DEF OrdersFresh
  <2> QED BY <2>1, <2>2, <2>3 DEF OrdersFresh
<1>6. ArrivalsFresh' BY <1>1, <1>2 DEF ArrivalsFresh, TypeOK
<1>7. ASSUME NEW s \in Stream
      PROVE  /\ oldest_queued'[s] = OldestOrder(queued', admit_order', s)
             /\ oldest_inflight'[s] = OldestOrder(inflight', admit_order', s)
  <2>1. /\ IsOldest(oldest_queued[s], queued, admit_order, s)
        /\ IsOldest(oldest_inflight[s], inflight, admit_order, s)
    BY OldestOrderIsOldest DEF CacheCoherent, TypeOK
  <2>2. /\ queued' \in SUBSET Cmd /\ inflight' \in SUBSET Cmd
        /\ admit_order' \in [Cmd -> Nat]
    BY <1>4 DEF TypeOK
  <2>3. \A d \in Pending : admit_order'[d] = admit_order[d]
    BY <1>1, <1>2, <1>3
  <2>4. IsOldest(oldest_inflight'[s], inflight', admit_order', s)
    BY <2>1, <2>3 DEF IsOldest, Pending
  <2>5. IsOldest(oldest_queued'[s], queued', admit_order', s)
    <3>1. CASE stream_key(c) # s
      <4>1. oldest_queued'[s] = oldest_queued[s] BY <3>1 DEF LowerTo, TypeOK
      <4> QED BY <4>1, <3>1, <2>1, <2>3 DEF IsOldest, Pending
    <3>2. CASE stream_key(c) = s /\ oldest_queued[s] = 0
      <4>1. oldest_queued'[s] = next_admit_order BY <3>2 DEF LowerTo, TypeOK
      <4>2. \A d \in queued : stream_key(d) # s
        BY <3>2, <2>1 DEF IsOldest, OrdersFresh, Pending
      <4> QED BY <4>1, <4>2, <3>2, <1>2, <1>3 DEF IsOldest
    <3>3. CASE stream_key(c) = s /\ oldest_queued[s] # 0
      <4>1. PICK d \in queued : /\ stream_key(d) = s
                                /\ oldest_queued[s] = admit_order[d]
                                /\ \A e \in queued : stream_key(e) = s =>
                                      admit_order[d] <= admit_order[e]
        BY <3>3, <2>1 DEF IsOldest
      <4>2. admit_order[d] < next_admit_order /\ admit_order[d] \in Nat /\ d \in Pending
        BY <1>2 DEF OrdersFresh, Pending, TypeOK
      <4>3. oldest_queued'[s] = admit_order[d]
        BY <3>3, <4>1, <4>2, <1>2 DEF LowerTo, TypeOK
      <4>4. \A e \in queued' : stream_key(e) = s => admit_order[d] <= admit_order'[e]
        BY <4>1, <4>2, <2>3, <1>2, <1>3 DEF Pending
      <4>5. admit_order'[d] = admit_order[d] /\ d \in queued' BY <4>2, <2>3
      <4> QED BY <4>1, <4>3, <4>4, <4>5 DEF IsOldest
    <3> QED BY <3>1, <3>2, <3>3
  <2> QED BY <2>2, <2>4, <2>5, OldestOrderIsOldest
<1>8. StreamSerialised'
  <2> SUFFICES ASSUME NEW d \in inflight, NEW e \in Pending',
                      d # e, stream_key(d) = stream_key(e)
               PROVE  e \in queued' /\ admit_order'[d] < admit_order'[e]
    BY DEF StreamSerialised
  <2>1. d \in Pending /\ d # c BY <1>1 DEF Pending
  <2>2. CASE e = c BY <2>2, <2>1, <1>3
  <2>3. CASE e # c
    <3>1. e \in Pending BY <2>3, <1>2
    <3>2. e \in queued /\ admit_order[d] < admit_order[e]
      BY <3>1 DEF StreamSerialised
    <3> QED BY <3>1, <3>2, <2>1, <2>3, <1>2, <1>3
  <2> QED BY <2>2, <2>3
<1>9. /\ \A q \in Pending' : Group(q)' = Group(q) /\ Group(q) \subseteq Cmd
      /\ Group(c) = {c}
  BY <1>2 DEF Group, TypeOK, ArrivalsFresh
<1>10. /\ \A d \in Cmd : d # c => arrival'[d] = arrival[d] /\ arrival[d] < arrival'[c]
       /\ arrival'[c] = arrivals + 1 /\ arrival'[c] # 0 /\ arrivals \in Nat
       /\ \A d \in Cmd : arrival[d] \in Nat
  BY DEF TypeOK, ArrivalsFresh
<1>11. \A q \in Pending : c \notin Group(q)
  BY <1>9, <1>10, <1>2 DEF GroupsOrdered, Pending, TypeOK
<1>12. GroupsOrdered'
  <2>1. ASSUME NEW q \in Pending', NEW d \in Group(q)'
        PROVE  /\ stream_key(d) = stream_key(q)
               /\ arrival'[q] # 0 /\ arrival'[q] <= arrival'[d]
    <3>1. CASE q = c BY <3>1, <1>9, <1>10
    <3>2. CASE q # c
      <4>1. q \in Pending /\ d \in Group(q) /\ d # c /\ d \in Cmd /\ q \in Cmd
        BY <3>2, <1>2, <1>9, <1>11
      <4> QED BY <4>1, <3>2, <1>10 DEF GroupsOrdered
    <3> QED BY <3>1, <3>2
  <2>2. ASSUME NEW q \in Pending', NEW r \in Pending',
               stream_key(q) = stream_key(r), admit_order'[q] < admit_order'[r],
               NEW d \in Group(q)', NEW e \in Group(r)'
        PROVE  arrival'[d] < arrival'[e]
    <3>1. q # c /\ q \in Pending
      <4>1. CASE q = c
        <5>1. admit_order'[r] <= next_admit_order BY <1>2, <1>3
        <5>2. admit_order'[r] \in Nat BY <1>2, <1>3
        <5> QED BY <4>1, <5>1, <5>2, <2>2, <1>2, <1>3
      <4> QED BY <4>1, <1>2
    <3>2. d \in Group(q) /\ d # c /\ d \in Cmd BY <3>1, <1>9, <1>11
    <3>3. CASE r = c BY <3>3, <3>2, <1>9, <1>10
    <3>4. CASE r # c
      <4>1. r \in Pending /\ e \in Group(r) /\ e # c /\ e \in Cmd
        BY <3>4, <1>2, <1>9, <1>11
      <4>2. admit_order[q] < admit_order[r] BY <4>1, <3>1, <3>4, <2>2, <1>2, <1>3
      <4> QED BY <4>1, <4>2, <3>1, <3>2, <2>2, <1>10 DEF GroupsOrdered
    <3> QED BY <3>3, <3>4
  <2> QED BY <2>1, <2>2 DEF GroupsOrdered
<1>13. NewestByteWins'
  <2> SUFFICES ASSUME NEW q \in Pending', NEW b \in Byte
               PROVE  LET writers == {d \in Group(q) : b \in d.strb}
                      IN IF writers = {} THEN wdata[q][b] = NoByte
                         ELSE /\ wdata[q][b] \in writers
                              /\ \A d \in writers : arrival'[d] <= arrival'[wdata[q][b]]
    BY <1>9 DEF NewestByteWins
  <2>1. CASE q = c
    <3>1. wdata[c] = [a \in Byte |-> IF a \in c.strb THEN c ELSE NoByte]
      BY DEF ArrivalsFresh
    <3>2. arrival'[c] <= arrival'[c] BY <1>10
    <3> QED BY <2>1, <3>1, <3>2, <1>9
  <2>2. CASE q # c
    <3>1. q \in Pending /\ \A d \in Group(q) : arrival'[d] = arrival[d]
      BY <2>2, <1>2, <1>9, <1>10, <1>11
    <3> QED BY <3>1 DEF NewestByteWins
  <2> QED BY <2>1, <2>2
<1> QED BY <1>4, <1>5, <1>6, <1>7, <1>8, <1>12, <1>13 DEF CacheCoherent

(* Removing entries from the lists or the map keeps what is said of the    *)
(* entries that stay.                                                      *)
LEMMA ShrinkInv ==
  ASSUME IInv, Pending' \subseteq Pending,
         UNCHANGED <<admit_order, next_admit_order, mergeVars, historyVars>>,
         queued' \cap inflight' = {}
  PROVE  OrdersFresh' /\ ArrivalsFresh' /\ GroupsOrdered' /\ NewestByteWins'
<1> USE DEF IInv, mergeVars, historyVars
<1>1. OrdersFresh' BY DEF OrdersFresh
<1>2. ArrivalsFresh' BY DEF ArrivalsFresh
<1>3. \A p : Group(p)' = Group(p) BY DEF Group
<1>4. GroupsOrdered' BY <1>3 DEF GroupsOrdered
<1>5. NewestByteWins' BY <1>3 DEF NewestByteWins
<1> QED BY <1>1, <1>2, <1>4, <1>5

(* A candidate is the oldest waiting entry of a stream with nothing at the *)
(* device.                                                                 *)
LEMMA CandidateIsHead ==
  ASSUME IInv, NEW c \in Candidates
  PROVE  /\ c \in queued /\ c \in Cmd
         /\ \A d \in inflight : stream_key(d) # stream_key(c)
         /\ \A d \in queued : stream_key(d) = stream_key(c) =>
              admit_order[c] <= admit_order[d]
<1> DEFINE s == stream_key(c)
<1> USE DEF IInv
<1>1. c \in queued /\ ~is_stream_blocked(c) /\ c \in Cmd
  BY DEF Candidates, get_eligible_entries_in_effective_class, Eligible, TypeOK
<1>2. s \in Stream BY <1>1, StreamType
<1>3. /\ IsOldest(oldest_queued[s], queued, admit_order, s)
      /\ IsOldest(oldest_inflight[s], inflight, admit_order, s)
  BY <1>2, OldestOrderIsOldest DEF CacheCoherent, TypeOK
<1>4. \A d \in inflight : stream_key(d) # s
  <2> SUFFICES ASSUME NEW d \in inflight, stream_key(d) = s PROVE FALSE OBVIOUS
  <2>1. PICK e \in inflight : stream_key(e) = s /\ oldest_inflight[s] = admit_order[e]
    BY <1>3 DEF IsOldest
  <2>2. e # c /\ c \in Pending /\ e \in Pending
    BY <1>1 DEF Pending, OrdersFresh
  <2>3. admit_order[e] < admit_order[c] /\ admit_order[e] # 0
    BY <1>1, <2>1, <2>2 DEF StreamSerialised, OrdersFresh
  <2> QED BY <1>1, <2>1, <2>3 DEF is_stream_blocked
<1>5. \A d \in queued : stream_key(d) = s => admit_order[c] <= admit_order[d]
  <2>1. PICK e \in queued : /\ oldest_queued[s] = admit_order[e]
                            /\ \A d \in queued : stream_key(d) = s =>
                                  admit_order[e] <= admit_order[d]
    BY <1>1, <1>3 DEF IsOldest
  <2>2. admit_order[e] # 0 /\ e \in Pending BY DEF OrdersFresh, Pending
  <2>3. admit_order[c] <= admit_order[e]
    BY <1>1, <2>1, <2>2 DEF is_stream_blocked, TypeOK
  <2>4. \A d \in queued : admit_order[d] \in Nat BY DEF TypeOK
  <2> QED BY <1>1, <2>1, <2>3, <2>4
<1> QED BY <1>1, <1>4, <1>5

LEMMA IssueInv == ASSUME IInv, NEW c \in Cmd, Issue(c) PROVE IInv'
<1> USE DEF IInv, orderVars
<1>1. /\ c \in queued /\ c \notin inflight /\ c \in Pending
      /\ \A d \in inflight : stream_key(d) # stream_key(c)
      /\ \A d \in queued : stream_key(d) = stream_key(c) =>
           admit_order[c] <= admit_order[d]
  BY CandidateIsHead DEF Issue, OrdersFresh, Pending
<1>2. /\ queued' = queued \ {c}
      /\ inflight' = inflight \/ inflight' = inflight \cup {c}
      /\ UNCHANGED <<orderVars, mergeVars, historyVars>>
  BY DEF Issue, take_entry, enqueue, inflightVars
<1>3. OldestOrder(queued \ {c}, admit_order, stream_key(c)) \in Nat
  BY OldestOrderNat DEF TypeOK
<1>4. TypeOK'
  <2>1. oldest_queued' \in [Stream -> Nat]
    BY <1>3 DEF Issue, take_entry, TypeOK
  <2>2. /\ oldest_inflight' \in [Stream -> Nat]
        /\ tag' \in [Cmd -> Nat] /\ next_tag' \in Nat \ {0}
    BY DEF Issue, enqueue, inflightVars, LowerTo, TypeOK
  <2> QED BY <1>2, <2>1, <2>2 DEF TypeOK, mergeVars, historyVars
<1>5. OrdersFresh' /\ ArrivalsFresh' /\ GroupsOrdered' /\ NewestByteWins'
  <2>1. Pending' \subseteq Pending BY <1>1, <1>2 DEF Pending
  <2>2. queued' \cap inflight' = {} BY <1>2 DEF OrdersFresh
  <2> QED BY <1>2, <2>1, <2>2, ShrinkInv DEF mergeVars
<1>6. ASSUME NEW s \in Stream
      PROVE  /\ oldest_queued'[s] = OldestOrder(queued', admit_order, s)
             /\ oldest_inflight'[s] = OldestOrder(inflight', admit_order, s)
  <2>1. /\ IsOldest(oldest_queued[s], queued, admit_order, s)
        /\ IsOldest(oldest_inflight[s], inflight, admit_order, s)
    BY OldestOrderIsOldest DEF CacheCoherent, TypeOK
  <2>2. oldest_queued'[s] = OldestOrder(queued', admit_order, s)
    <3>1. CASE stream_key(c) = s BY <3>1 DEF Issue, take_entry, TypeOK
    <3>2. CASE stream_key(c) # s
      <4>1. oldest_queued'[s] = oldest_queued[s]
        BY <3>2 DEF Issue, take_entry, TypeOK
      <4>2. IsOldest(oldest_queued'[s], queued', admit_order, s)
        BY <4>1, <3>2, <2>1, <1>2 DEF IsOldest
      <4> QED BY <4>2, <1>4, <1>2, OldestOrderIsOldest DEF TypeOK
    <3> QED BY <3>1, <3>2
  <2>3. IsOldest(oldest_inflight'[s], inflight', admit_order, s)
    <3>1. CASE c.pre
      BY <3>1, <2>1 DEF Issue, inflightVars
    <3>2. CASE ~c.pre /\ stream_key(c) # s
      <4>1. oldest_inflight'[s] = oldest_inflight[s] /\ inflight' = inflight \cup {c}
        BY <3>2 DEF Issue, enqueue, LowerTo, TypeOK
      <4> QED BY <4>1, <3>2, <2>1 DEF IsOldest
    <3>3. CASE ~c.pre /\ stream_key(c) = s
      <4>1. oldest_inflight[s] = 0 BY <3>3, <1>1, <2>1 DEF IsOldest
      <4>2. oldest_inflight'[s] = admit_order[c] /\ inflight' = inflight \cup {c}
        BY <3>3, <4>1 DEF Issue, enqueue, LowerTo, TypeOK
      <4>3. admit_order[c] <= admit_order[c] BY DEF TypeOK
      <4> QED BY <4>2, <4>3, <3>3, <1>1 DEF IsOldest
    <3> QED BY <3>1, <3>2, <3>3
  <2> QED BY <2>2, <2>3, <1>4, <1>2, OldestOrderIsOldest DEF TypeOK
<1>7. StreamSerialised'
  <2> SUFFICES ASSUME NEW d \in inflight', NEW e \in Pending',
                      d # e, stream_key(d) = stream_key(e)
               PROVE  e \in queued' /\ admit_order[d] < admit_order[e]
    BY <1>2 DEF StreamSerialised
  <2>1. e \in Pending BY <1>1, <1>2 DEF Pending
  <2>2. CASE d \in inflight
    <3>1. e \in queued /\ admit_order[d] < admit_order[e]
      BY <2>1, <2>2 DEF StreamSerialised
    <3>2. e # c BY <2>2, <1>1
    <3> QED BY <3>1, <3>2, <1>2
  <2>3. CASE d \notin inflight
    <3>1. d = c BY <2>3, <1>2
    <3>2. e \in queued /\ e # c BY <3>1, <2>1, <1>1 DEF Pending
    <3>3. admit_order[c] <= admit_order[e] /\ admit_order[c] # admit_order[e]
      BY <3>1, <3>2, <1>1, <2>1 DEF OrdersFresh
    <3>4. admit_order[c] \in Nat /\ admit_order[e] \in Nat
      BY <2>1 DEF TypeOK, Pending
    <3> QED BY <3>1, <3>2, <3>3, <3>4, <1>2
  <2> QED BY <2>2, <2>3
<1> QED BY <1>2, <1>4, <1>5, <1>6, <1>7 DEF CacheCoherent

LEMMA CompleteInv ==
  ASSUME IInv, NEW t, complete_by_rsp(t)
  PROVE  IInv'
<1> USE DEF IInv, queueVars, orderVars
<1>1. PICK c \in inflight :
        /\ inflight' = inflight \ {c}
        /\ oldest_inflight' = [oldest_inflight EXCEPT ![stream_key(c)] =
             OldestOrder(inflight \ {c}, admit_order, stream_key(c))]
        /\ UNCHANGED <<tag, next_tag, queueVars, orderVars, mergeVars, historyVars>>
  BY DEF complete_by_rsp
<1>2. OldestOrder(inflight \ {c}, admit_order, stream_key(c)) \in Nat
  BY OldestOrderNat DEF TypeOK
<1>3. TypeOK' BY <1>1, <1>2 DEF TypeOK, mergeVars, historyVars
<1>4. Pending' \subseteq Pending /\ queued' \cap inflight' = {}
  BY <1>1 DEF Pending, OrdersFresh
<1>5. OrdersFresh' /\ ArrivalsFresh' /\ GroupsOrdered' /\ NewestByteWins'
  BY <1>1, <1>4, ShrinkInv DEF mergeVars
<1>6. ASSUME NEW s \in Stream
      PROVE  oldest_inflight'[s] = OldestOrder(inflight', admit_order, s)
  <2>1. IsOldest(oldest_inflight[s], inflight, admit_order, s)
    BY OldestOrderIsOldest DEF CacheCoherent, TypeOK
  <2>2. CASE stream_key(c) = s BY <2>2, <1>1 DEF TypeOK
  <2>3. CASE stream_key(c) # s
    <3>1. oldest_inflight'[s] = oldest_inflight[s] BY <2>3, <1>1 DEF TypeOK
    <3>2. IsOldest(oldest_inflight'[s], inflight', admit_order, s)
      BY <3>1, <2>1, <2>3, <1>1 DEF IsOldest
    <3> QED BY <3>2, <1>1, OldestOrderIsOldest DEF TypeOK
  <2> QED BY <2>2, <2>3
<1>7. CacheCoherent' BY <1>1, <1>6 DEF CacheCoherent
<1>8. StreamSerialised' BY <1>1, <1>4 DEF StreamSerialised
<1> QED BY <1>3, <1>5, <1>7, <1>8

LEMMA FlushInv == ASSUME IInv, flush_queue PROVE IInv'
<1> USE DEF IInv, flush_queue, orderVars
<1>1. Pending' = {} /\ queued' = {} /\ inflight' = {} BY DEF Pending
<1>2. TypeOK' BY DEF TypeOK, mergeVars, historyVars
<1>3. OrdersFresh' /\ ArrivalsFresh' /\ GroupsOrdered' /\ NewestByteWins'
  BY <1>1, ShrinkInv
<1>4. CacheCoherent'
  <2>1. \A s : OldestOrder({}, admit_order', s) = 0 BY DEF OldestOrder
  <2> QED BY <2>1 DEF CacheCoherent
<1>5. StreamSerialised' BY <1>1 DEF StreamSerialised
<1> QED BY <1>2, <1>3, <1>4, <1>5

LEMMA TickInv == ASSUME IInv, Age PROVE IInv'
<1> USE DEF IInv, Age, queueVars, inflightVars
<1>1. waited' \in [Cmd -> 0 .. MaxWait] BY MaxWaitType DEF TypeOK
<1>2. TypeOK' BY <1>1 DEF TypeOK, mergeVars, historyVars
<1>3. Pending' = Pending BY DEF Pending
<1>4. OrdersFresh' /\ ArrivalsFresh' /\ GroupsOrdered' /\ NewestByteWins'
  BY <1>3, ShrinkInv DEF OrdersFresh
<1>5. CacheCoherent' BY DEF CacheCoherent
<1>6. StreamSerialised' BY <1>3 DEF StreamSerialised
<1> QED BY <1>2, <1>4, <1>5, <1>6

LEMMA AcceptInv == ASSUME IInv, NEW c \in Cmd, Accept(c) PROVE IInv'
<1>1. CASE try_coalesce_write(c)
  BY <1>1, MergeInv DEF Accept, try_coalesce_write
<1>2. CASE admit(c) BY <1>2, AdmitInv DEF Accept
<1> QED BY <1>1, <1>2 DEF Accept

LEMMA StutterInv == ASSUME IInv, UNCHANGED queueState PROVE IInv'
<1> USE DEF IInv, queueState, queueVars, inflightVars, orderVars, mergeVars, historyVars
<1>1. Pending' = Pending /\ TypeOK' BY DEF Pending, TypeOK
<1>2. OrdersFresh' /\ ArrivalsFresh' /\ GroupsOrdered' /\ NewestByteWins'
  BY <1>1, ShrinkInv DEF OrdersFresh
<1>3. CacheCoherent' /\ StreamSerialised'
  BY <1>1 DEF CacheCoherent, StreamSerialised
<1> QED BY <1>1, <1>2, <1>3

(* The invariant is inductive.                                             *)
LEMMA StepInv == IInv /\ [QueueNext]_queueState => IInv'
<1> SUFFICES ASSUME IInv, [QueueNext]_queueState PROVE IInv' OBVIOUS
<1>1. ASSUME NEW c \in Cmd, Accept(c) PROVE IInv' BY <1>1, AcceptInv
<1>2. ASSUME NEW c \in Cmd, Issue(c) PROVE IInv' BY <1>2, IssueInv
<1>3. ASSUME NEW t \in 1 .. next_tag - 1, complete_by_rsp(t) PROVE IInv'
  BY <1>3, CompleteInv
<1>4. CASE flush_queue BY <1>4, FlushInv
<1>5. CASE Age BY <1>5, TickInv
<1>6. CASE UNCHANGED queueState BY <1>6, StutterInv
<1> QED BY <1>1, <1>2, <1>3, <1>4, <1>5, <1>6 DEF QueueNext

LEMMA Invariance == QueueSpec => []IInv
BY InitInv, StepInv, PTL DEF QueueSpec

-----------------------------------------------------------------------------
(* Every variable of the queue stays in its range.                         *)
THEOREM TypeCorrect == QueueSpec => []TypeOK
BY Invariance, PTL DEF IInv

(* vip_mc_cmd_queue's two caches always agree with a rescan of the lists   *)
(* and of the in-flight map.                                               *)
THEOREM CachesCoherent == QueueSpec => []CacheCoherent
BY Invariance, PTL DEF IInv

(* The device holds at most one command of a stream, the oldest pending.   *)
THEOREM StreamsSerialised == QueueSpec => []StreamSerialised
BY Invariance, PTL DEF IInv

(* A merged write carries, on each lane, the byte accepted last.           *)
THEOREM CoalescingKeepsOrder == QueueSpec => []NewestByteWins
BY Invariance, PTL DEF IInv

-----------------------------------------------------------------------------
(* Scheduling.  Of two waiting entries the older has waited longer, so in  *)
(* a class list the first eligible entry is the most promoted one.         *)
AgesOrdered ==
  \A c, d \in queued : admit_order[c] <= admit_order[d] => waited[d] <= waited[c]

LEMMA AgesInit == QueueInit => AgesOrdered
BY DEF QueueInit, AgesOrdered

LEMMA AgesShrink ==
  ASSUME AgesOrdered, queued' \subseteq queued, UNCHANGED orderVars
  PROVE  AgesOrdered'
BY DEF AgesOrdered, orderVars

LEMMA AgesStep ==
  ASSUME IInv, AgesOrdered, [QueueNext]_queueState
  PROVE  AgesOrdered'
<1> USE DEF IInv
<1>1. ASSUME NEW c \in Cmd, try_coalesce_write(c) PROVE AgesOrdered'
  BY <1>1 DEF try_coalesce_write, queueVars, orderVars, AgesOrdered
<1>2. ASSUME NEW c \in Cmd, arrival[c] = 0, admit(c) PROVE AgesOrdered'
  <2> SUFFICES ASSUME NEW d \in queued \cup {c}, NEW e \in queued \cup {c},
                      admit_order'[d] <= admit_order'[e]
               PROVE  waited'[e] <= waited'[d]
    BY <1>2 DEF admit, AgesOrdered
  <2>1. c \notin queued BY <1>2 DEF ArrivalsFresh, Pending
  <2>2. /\ admit_order'[c] = next_admit_order /\ waited'[c] = 0
        /\ \A f \in queued : /\ admit_order'[f] = admit_order[f]
                             /\ admit_order[f] < next_admit_order
                             /\ waited'[f] = waited[f]
    BY <1>2, <2>1 DEF admit, TypeOK, OrdersFresh, Pending
  <2>3. /\ \A f \in Cmd : admit_order[f] \in Nat /\ waited[f] \in Nat
        /\ next_admit_order \in Nat /\ queued \subseteq Cmd
    BY MaxWaitType DEF TypeOK
  <2>4. CASE e = c
    <3>1. waited'[d] \in Nat BY <2>2, <2>3
    <3> QED BY <2>4, <2>2, <3>1
  <2>5. CASE e # c
    <3>1. d # c BY <2>5, <2>2, <2>3
    <3> QED BY <2>5, <3>1, <2>2 DEF AgesOrdered
  <2> QED BY <2>4, <2>5
<1>4. CASE Age
  <2> SUFFICES ASSUME NEW c \in queued, NEW d \in queued,
                      admit_order[c] <= admit_order[d]
               PROVE  waited'[d] <= waited'[c]
    BY <1>4 DEF Age, queueVars, AgesOrdered
  <2>1. waited[d] <= waited[c] BY DEF AgesOrdered
  <2>2. /\ waited[c] \in 0 .. MaxWait /\ waited[d] \in 0 .. MaxWait
        /\ c \in Cmd /\ d \in Cmd
    BY DEF TypeOK
  <2>3. /\ waited'[c] = IF waited[c] < MaxWait THEN waited[c] + 1 ELSE waited[c]
        /\ waited'[d] = IF waited[d] < MaxWait THEN waited[d] + 1 ELSE waited[d]
    BY <1>4, <2>2 DEF Age
  <2> QED BY <2>1, <2>2, <2>3, MaxWaitType
<1>5. ASSUME NEW c \in Cmd, Accept(c) PROVE AgesOrdered'
  BY <1>1, <1>2, <1>5 DEF Accept
<1>6. ASSUME NEW c \in Cmd, Issue(c) PROVE AgesOrdered'
  BY <1>6, AgesShrink DEF Issue, take_entry
<1>7. ASSUME NEW t, complete_by_rsp(t) PROVE AgesOrdered'
  BY <1>7, AgesShrink DEF complete_by_rsp, queueVars
<1>8. CASE flush_queue BY <1>8, AgesShrink DEF flush_queue
<1>9. CASE UNCHANGED queueState
  BY <1>9, AgesShrink DEF queueState, orderVars
<1> QED BY <1>4, <1>5, <1>6, <1>7, <1>8, <1>9 DEF QueueNext

(* Integer division is monotonic.                                          *)
LEMMA DivMonotonic ==
  ASSUME NEW n \in Nat \ {0}, NEW i \in Nat, NEW j \in Nat, i <= j
  PROVE  i \div n <= j \div n /\ i \div n \in Nat
<1>1. /\ i \div n \in Int /\ j \div n \in Int
      /\ n * (i \div n) <= i /\ i < n * (i \div n) + n
      /\ n * (j \div n) <= j /\ j < n * (j \div n) + n
  OBVIOUS
<1>2. ASSUME NEW a \in Int, NEW b \in Int, b < a
      PROVE  n * b + n <= n * a
  <2>1. b + 1 <= a BY <1>2
  <2>2. n * (b + 1) <= n * a BY <2>1
  <2>3. n * (b + 1) = n * b + n OBVIOUS
  <2> QED BY <2>2, <2>3
<1>3. i \div n <= j \div n
  <2> SUFFICES ASSUME j \div n < i \div n PROVE FALSE BY <1>1
  <2>1. n * (j \div n) + n <= n * (i \div n) BY <1>1, <1>2
  <2>2. n * (j \div n) \in Int /\ n * (i \div n) \in Int BY <1>1
  <2> QED BY <1>1, <2>1, <2>2
<1>4. i \div n >= 0 BY <1>1
<1> QED BY <1>1, <1>3, <1>4

LEMMA ClassType ==
  ASSUME NEW k \in Int
  PROVE  clamp_qos_class(k) \in 0 .. QosClassCount - 1
BY QosAssumption DEF clamp_qos_class

LEMMA EffectiveClassType ==
  ASSUME TypeOK, NEW c \in Cmd
  PROVE  /\ clamp_qos_class(c.qos) \in 0 .. QosClassCount - 1
         /\ get_effective_qos_class(c) \in 0 .. QosClassCount - 1
<1>1. c.qos \in Int BY CmdAssumption DEF Entry
<1>2. clamp_qos_class(c.qos) \in 0 .. QosClassCount - 1 BY <1>1, ClassType
<1>3. CASE QosAging = 0 BY <1>2, <1>3 DEF get_effective_qos_class
<1>4. CASE QosAging # 0
  <2>1. waited[c] \in Nat /\ QosAging \in Nat \ {0} /\ QosClassCount \in Nat
    BY <1>4, QosAssumption, MaxWaitType DEF TypeOK
  <2>2. waited[c] \div QosAging \in Nat BY <2>1, DivMonotonic
  <2>3. clamp_qos_class(c.qos) + waited[c] \div QosAging \in Int
    BY <1>2, <2>1, <2>2
  <2> QED BY <1>2, <1>4, <2>3, ClassType DEF get_effective_qos_class
<1> QED BY <1>2, <1>3, <1>4

(* In a class, the entry that waited longer is promoted at least as far.   *)
LEMMA PromotionMonotonic ==
  ASSUME TypeOK, NEW c \in Cmd, NEW d \in Cmd, waited[c] <= waited[d],
         clamp_qos_class(c.qos) = clamp_qos_class(d.qos)
  PROVE  get_effective_qos_class(c) <= get_effective_qos_class(d)
<1> DEFINE k == clamp_qos_class(c.qos)
<1>1. k \in 0 .. QosClassCount - 1 /\ QosClassCount \in Nat \ {0}
  BY EffectiveClassType, QosAssumption
<1>2. CASE QosAging = 0 BY <1>1, <1>2 DEF get_effective_qos_class
<1>3. CASE QosAging # 0
  <2>1. waited[c] \in Nat /\ waited[d] \in Nat /\ QosAging \in Nat \ {0}
    BY <1>3, QosAssumption, MaxWaitType DEF TypeOK
  <2>2. /\ waited[c] \div QosAging <= waited[d] \div QosAging
        /\ waited[c] \div QosAging \in Nat /\ waited[d] \div QosAging \in Nat
    BY <2>1, DivMonotonic
  <2>3. ASSUME NEW i \in Nat, NEW j \in Nat, i <= j
        PROVE  clamp_qos_class(i) <= clamp_qos_class(j)
    BY <2>3, <1>1 DEF clamp_qos_class
  <2>4. clamp_qos_class(k + waited[c] \div QosAging)
          <= clamp_qos_class(k + waited[d] \div QosAging)
    BY <2>2, <2>3, <1>1
  <2> QED BY <2>4, <1>3 DEF get_effective_qos_class
<1> QED BY <1>2, <1>3

(* An inhabited set of numbers with an upper bound has a greatest element. *)
LEMMA GreatestBelow ==
  ASSUME NEW m \in Nat, NEW T \in SUBSET (0 .. m), T # {}
  PROVE  \E k \in T : \A j \in T : j <= k
<1> DEFINE U == {m - j : j \in T}
<1>1. U \in SUBSET Nat /\ U # {}
  <2>1. \A j \in T : j \in 0 .. m OBVIOUS
  <2>2. \A j \in 0 .. m : m - j \in Nat OBVIOUS
  <2> QED BY <2>1, <2>2
<1>2. PICK u \in U : \A v \in U : u <= v BY <1>1, LeastNat
<1>3. PICK k \in T : u = m - k BY <1>2
<1>4. ASSUME NEW j \in T PROVE j <= k
  <2>1. m - j \in U /\ j \in Int /\ k \in Int OBVIOUS
  <2> QED BY <2>1, <1>2, <1>3
<1> QED BY <1>4

(* The class-head shortcut: some head of a class list has the highest      *)
(* effective class of all eligible entries.                                *)
LEMMA HighestClass ==
  ASSUME IInv, AgesOrdered, Eligible # {}
  PROVE  /\ \A c \in Eligible :
              get_effective_qos_class(c) <= get_highest_effective_class
         /\ \E c \in Eligible :
              get_effective_qos_class(c) = get_highest_effective_class
<1> USE DEF IInv
<1> DEFINE firsts == UNION {first_eligible_in_class(k) :
                              k \in 0 .. QosClassCount - 1}
           classes == {get_effective_qos_class(c) : c \in firsts}
           top == CHOOSE k \in classes : \A j \in classes : j <= k
<1>1. Eligible \subseteq queued /\ queued \subseteq Cmd
  BY DEF Eligible, TypeOK
<1>2. ASSUME NEW c \in Eligible
      PROVE  \E f \in firsts : get_effective_qos_class(c)
                                 <= get_effective_qos_class(f)
  <2> DEFINE k == clamp_qos_class(c.qos)
             alike == {d \in Eligible : clamp_qos_class(d.qos) = k}
             orders == {admit_order[d] : d \in alike}
  <2>1. k \in 0 .. QosClassCount - 1 BY <1>1, EffectiveClassType
  <2>2. orders \in SUBSET Nat /\ admit_order[c] \in orders
    BY <1>1 DEF TypeOK
  <2>3. PICK o \in orders : \A p \in orders : o <= p BY <2>2, LeastNat
  <2>4. PICK f \in alike : o = admit_order[f] BY <2>3
  <2>5. \A d \in alike : admit_order[f] <= admit_order[d] BY <2>3, <2>4
  <2>6. f \in first_eligible_in_class(k)
    BY <2>4, <2>5 DEF first_eligible_in_class
  <2>7. f \in firsts BY <2>1, <2>6
  <2>8. waited[c] <= waited[f] BY <2>5, <1>1 DEF AgesOrdered
  <2>9. get_effective_qos_class(c) <= get_effective_qos_class(f)
    BY <2>4, <2>8, <1>1, PromotionMonotonic
  <2> QED BY <2>7, <2>9
<1>3. firsts \subseteq Eligible BY DEF first_eligible_in_class
<1>4. classes # {} BY <1>2
<1>5. classes \in SUBSET (0 .. QosClassCount - 1)
  BY <1>1, <1>3, EffectiveClassType
<1>6. top \in classes /\ \A j \in classes : j <= top
  <2>1. \E k \in classes : \A j \in classes : j <= k
    <3>1. QosClassCount - 1 \in Nat BY QosAssumption
    <3> HIDE DEF classes
    <3> QED BY <1>4, <1>5, <3>1, GreatestBelow
  <2> QED BY <2>1
<1>7. get_highest_effective_class = top
  BY <1>4 DEF get_highest_effective_class
<1>8. ASSUME NEW c \in Eligible PROVE get_effective_qos_class(c) <= top
  <2>1. PICK f \in firsts : get_effective_qos_class(c)
                              <= get_effective_qos_class(f)
    BY <1>2
  <2>2. get_effective_qos_class(f) <= top BY <1>6
  <2>3. /\ get_effective_qos_class(c) \in Int
        /\ get_effective_qos_class(f) \in Int /\ top \in Int
    BY <1>1, <1>3, <1>5, <1>6, EffectiveClassType
  <2> HIDE DEF top, firsts, classes
  <2> QED BY <2>1, <2>2, <2>3
<1>9. \E c \in Eligible : get_effective_qos_class(c) = top BY <1>3, <1>6
<1> QED BY <1>7, <1>8, <1>9

LEMMA CandidatesExist ==
  ASSUME IInv, AgesOrdered
  PROVE  Candidates = {} <=> Eligible = {}
<1>1. Candidates \subseteq Eligible
  BY DEF Candidates, get_eligible_entries_in_effective_class
<1>2. Eligible # {} => Candidates # {}
  BY HighestClass DEF Candidates, get_eligible_entries_in_effective_class
<1> QED BY <1>1, <1>2

(* The oldest waiting entry of a stream is eligible unless the stream is   *)
(* at the device.                                                          *)
LEMMA HeadEligible ==
  ASSUME IInv, NEW c \in queued,
         \A d \in inflight : stream_key(d) # stream_key(c)
  PROVE  \E d \in Eligible : stream_key(d) = stream_key(c)
<1> USE DEF IInv
<1> DEFINE s == stream_key(c)
<1>1. c \in Cmd /\ s \in Stream BY StreamType DEF TypeOK
<1>2. /\ IsOldest(oldest_queued[s], queued, admit_order, s)
      /\ IsOldest(oldest_inflight[s], inflight, admit_order, s)
  BY <1>1, OldestOrderIsOldest DEF CacheCoherent, TypeOK
<1>3. PICK d \in queued : stream_key(d) = s /\ oldest_queued[s] = admit_order[d]
  BY <1>2 DEF IsOldest
<1>4. oldest_inflight[s] = 0 BY <1>2 DEF IsOldest
<1>5. admit_order[d] \in Nat BY DEF TypeOK
<1>6. ~is_stream_blocked(d) BY <1>3, <1>4, <1>5 DEF is_stream_blocked
<1> QED BY <1>3, <1>6 DEF Eligible

LEMMA SchedulingInvariance == QueueSpec => []AgesOrdered
<1>1. IInv /\ AgesOrdered /\ [QueueNext]_queueState => AgesOrdered' BY AgesStep
<1> QED BY AgesInit, <1>1, Invariance, PTL DEF QueueSpec

LEMMA SchedulingFacts ==
  ASSUME IInv, AgesOrdered
  PROVE  TopClassFound /\ NoStreamWedged
BY HighestClass, HeadEligible, CandidatesExist
   DEF TopClassFound, NoStreamWedged

(* Asking only the first eligible entry of each class list, the queue      *)
(* finds the highest class that aging gave to any eligible entry.          *)
THEOREM TopClassIsFound == QueueSpec => []TopClassFound
<1>1. IInv /\ AgesOrdered => TopClassFound BY SchedulingFacts
<1> QED BY <1>1, Invariance, SchedulingInvariance, PTL

(* While a command of a stream waits, either one is at the device or one   *)
(* can be issued, and then the class search finds something to issue.      *)
THEOREM StreamsNotWedged == QueueSpec => []NoStreamWedged
<1>1. IInv /\ AgesOrdered => NoStreamWedged BY SchedulingFacts
<1> QED BY <1>1, Invariance, SchedulingInvariance, PTL

-----------------------------------------------------------------------------
(* The refinement of StreamService.                                        *)
allPending == UNION {Group(p) : p \in Pending}

LEMMA InitRefines == QueueInit => Service!Init
<1> SUFFICES ASSUME QueueInit PROVE Service!Init OBVIOUS
<1>1. allPending = {} BY DEF QueueInit, Pending, allPending
<1> QED BY <1>1 DEF QueueInit, Service!Init, allPending

(* An accepted entry is a new pending one, merged or not.                  *)
LEMMA AcceptRefines ==
  ASSUME IInv, NEW c \in Cmd, Accept(c)
  PROVE  Service!Accept(c)
<1> USE DEF IInv
<1>1. arrival[c] = 0 /\ arrivals' = arrivals + 1
      /\ arrival' = [arrival EXCEPT ![c] = arrivals + 1]
  BY DEF Accept
<1>2. c \notin Pending /\ Group(c) = {c}
  BY <1>1 DEF ArrivalsFresh, Group
<1>3. allPending' = allPending \cup {c}
  <2>1. CASE try_coalesce_write(c)
    <3>1. PICK p \in coalesce_target(c) :
            merged_writes' = [merged_writes EXCEPT ![p] = @ \cup {c}]
      BY <2>1 DEF try_coalesce_write
    <3>2. p \in Pending /\ p \in Cmd BY DEF coalesce_target, Pending, TypeOK
    <3>3. Pending' = Pending
      BY <2>1 DEF try_coalesce_write, queueVars, inflightVars, Pending
    <3>4. /\ Group(p)' = Group(p) \cup {c}
          /\ \A q \in Pending : q # p => Group(q)' = Group(q)
      BY <3>1, <3>2 DEF Group, TypeOK, Pending
    <3> QED BY <3>2, <3>3, <3>4 DEF allPending
  <2>2. CASE admit(c)
    <3>1. Pending' = Pending \cup {c} BY <2>2 DEF admit, Pending, inflightVars
    <3>2. \A q : Group(q)' = Group(q) BY <2>2 DEF admit, mergeVars, Group
    <3> QED BY <3>1, <3>2, <1>2 DEF allPending
  <2> QED BY <2>1, <2>2 DEF Accept
<1> QED BY <1>1, <1>3 DEF Service!Accept, allPending

(* When p is the oldest pending entry of its stream, its group is served.  *)
LEMMA GroupServed ==
  ASSUME IInv, NEW p \in Pending, Pending' = Pending \ {p},
         \A q \in Pending : stream_key(q) = stream_key(p) =>
            admit_order[p] <= admit_order[q],
         UNCHANGED <<merged_writes, historyVars>>
  PROVE  Service!Serve(Group(p)) /\ Group(p) \in SUBSET allPending
<1> USE DEF IInv
<1>1. \A q : Group(q)' = Group(q) BY DEF Group
<1>2. \A q \in Pending : q # p /\ stream_key(q) = stream_key(p) =>
        \A c \in Group(p) : \A d \in Group(q) : arrival[c] < arrival[d]
  <2>1. ASSUME NEW q \in Pending, q # p, stream_key(q) = stream_key(p)
        PROVE  admit_order[p] < admit_order[q]
    <3>1. admit_order[p] \in Nat /\ admit_order[q] \in Nat
      BY DEF TypeOK, Pending
    <3>2. admit_order[p] # admit_order[q] BY <2>1 DEF OrdersFresh
    <3>3. admit_order[p] <= admit_order[q] BY <2>1
    <3> QED BY <3>1, <3>2, <3>3
  <2> QED BY <2>1 DEF GroupsOrdered
<1>3. \A q \in Pending : q # p => Group(q) \cap Group(p) = {}
  <2> SUFFICES ASSUME NEW q \in Pending, q # p, NEW c \in Group(q), c \in Group(p)
               PROVE FALSE
    OBVIOUS
  <2>1. stream_key(q) = stream_key(p) BY DEF GroupsOrdered
  <2>2. arrival[c] < arrival[c] BY <1>2, <2>1
  <2>3. c \in Cmd BY DEF Group, TypeOK, Pending
  <2> QED BY <2>2, <2>3 DEF TypeOK
<1>4. allPending' = allPending \ Group(p) BY <1>1, <1>3 DEF allPending
<1>5. Group(p) # {} /\ Group(p) \in SUBSET allPending BY DEF Group, allPending
<1>6. \A c, d \in Group(p) : stream_key(c) = stream_key(d) BY DEF GroupsOrdered
<1>7. \A c \in Group(p) : \A d \in allPending \ Group(p) :
        stream_key(c) = stream_key(d) => arrival[c] < arrival[d]
  <2> SUFFICES ASSUME NEW c \in Group(p), NEW q \in Pending, NEW d \in Group(q),
                      d \notin Group(p), stream_key(c) = stream_key(d)
               PROVE  arrival[c] < arrival[d]
    BY DEF allPending
  <2>1. q # p /\ stream_key(q) = stream_key(p) BY DEF GroupsOrdered
  <2> QED BY <1>2, <2>1
<1> QED BY <1>4, <1>5, <1>6, <1>7 DEF Service!Serve, allPending, historyVars

(* A pre-resolved entry is served when it is issued, any other stays       *)
(* pending.                                                                *)
LEMMA IssueRefines ==
  ASSUME IInv, NEW c \in Cmd, Issue(c)
  PROVE  IF c.pre THEN Service!Serve(Group(c)) /\ Group(c) \in SUBSET allPending
                  ELSE UNCHANGED Service!vars
<1> USE DEF IInv
<1>1. /\ c \in queued /\ c \notin inflight /\ c \in Pending
      /\ \A q \in Pending : stream_key(q) = stream_key(c) =>
           admit_order[c] <= admit_order[q]
  BY CandidateIsHead DEF Issue, OrdersFresh, Pending
<1>2. queued' = queued \ {c} /\ UNCHANGED <<mergeVars, historyVars>>
  BY DEF Issue, take_entry
<1>3. CASE c.pre
  <2>1. Pending' = Pending \ {c}
    BY <1>1, <1>2, <1>3 DEF Issue, inflightVars, Pending
  <2>2. Service!Serve(Group(c)) /\ Group(c) \in SUBSET allPending
    BY <1>1, <1>2, <2>1, GroupServed DEF mergeVars
  <2> QED BY <1>3, <2>2
<1>4. CASE ~c.pre
  <2>1. Pending' = Pending
    BY <1>1, <1>2, <1>4 DEF Issue, enqueue, Pending
  <2>2. UNCHANGED Service!vars
    BY <1>2, <2>1 DEF Service!vars, mergeVars, historyVars, Group
  <2> QED BY <1>4, <2>2
<1> QED BY <1>3, <1>4

(* An answer serves the group of the entry whose tag it carries.           *)
LEMMA CompleteRefines ==
  ASSUME IInv, NEW t, complete_by_rsp(t)
  PROVE  \E c \in inflight :
           /\ tag[c] = t
           /\ Service!Serve(Group(c)) /\ Group(c) \in SUBSET allPending
<1> USE DEF IInv
<1>1. PICK c \in inflight :
        /\ tag[c] = t
        /\ inflight' = inflight \ {c}
        /\ UNCHANGED <<queueVars, mergeVars, historyVars>>
  BY DEF complete_by_rsp
<1>2. /\ c \in Pending /\ Pending' = Pending \ {c}
  BY <1>1 DEF Pending, OrdersFresh, queueVars
<1>3. \A q \in Pending : stream_key(q) = stream_key(c) =>
        admit_order[c] <= admit_order[q]
  <2> SUFFICES ASSUME NEW q \in Pending, stream_key(q) = stream_key(c)
               PROVE  admit_order[c] <= admit_order[q]
    OBVIOUS
  <2>1. admit_order[c] \in Nat /\ admit_order[q] \in Nat BY DEF TypeOK, Pending
  <2>2. CASE q = c BY <2>1, <2>2
  <2>3. CASE q # c BY <2>1, <2>3 DEF StreamSerialised
  <2> QED BY <2>2, <2>3
<1>4. Service!Serve(Group(c)) /\ Group(c) \in SUBSET allPending
  BY <1>1, <1>2, <1>3, GroupServed DEF mergeVars
<1> QED BY <1>1, <1>4

LEMMA StepRefines ==
  IInv /\ [QueueNext]_queueState => [Service!Next]_(Service!vars)
<1> SUFFICES ASSUME IInv, [QueueNext]_queueState
             PROVE  [Service!Next]_(Service!vars)
  OBVIOUS
<1>1. ASSUME NEW c \in Cmd, Accept(c) PROVE Service!Next
  BY <1>1, AcceptRefines DEF Service!Next
<1>2. ASSUME NEW c \in Cmd, Issue(c)
      PROVE Service!Next \/ UNCHANGED Service!vars
  BY <1>2, IssueRefines DEF Service!Next, allPending
<1>3. ASSUME NEW t \in 1 .. next_tag - 1, complete_by_rsp(t) PROVE Service!Next
  BY <1>3, CompleteRefines DEF Service!Next, allPending
<1>4. CASE flush_queue
  <2>1. allPending' = {} BY <1>4 DEF flush_queue, allPending, Pending
  <2> QED BY <1>4, <2>1 DEF flush_queue, allPending, Service!Next, Service!Drop,
                            historyVars
<1>5. CASE Age
  BY <1>5 DEF Age, queueVars, inflightVars, mergeVars, historyVars, Pending,
              Group, Service!vars
<1>6. CASE UNCHANGED queueState
  BY <1>6 DEF queueState, queueVars, inflightVars, mergeVars, historyVars, Pending,
              Group, Service!vars
<1> QED BY <1>1, <1>2, <1>3, <1>4, <1>5, <1>6 DEF QueueNext

(* The command queue serves every stream in acceptance order, each entry   *)
(* at most once, whatever the device's answer order.                       *)
THEOREM QueueServesStreams == QueueSpec => ServiceSpec
BY InitRefines, Invariance, StepRefines, PTL
   DEF QueueSpec, ServiceSpec, Service!Spec
=============================================================================
