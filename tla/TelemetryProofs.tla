-------------------------- MODULE TelemetryProofs --------------------------
(***************************************************************************)
(* What holds of the performance counters for every finite set of commands *)
(* and every set of configurations, any burst time and any number of       *)
(* resets: predictions belong to the commands at the device, and the       *)
(* counters of CountersExact are what the history of the epoch gives.      *)
(***************************************************************************)
EXTENDS Telemetry, CmdQueueProofs, FiniteSetTheorems

(***************************************************************************)
(* Folds over finite sets.  A fold is a function on the subsets, defined   *)
(* from that of the subset without one chosen element.                     *)
(***************************************************************************)
Pick(s) == CHOOSE x \in s : TRUE
Rest(s) == s \ {Pick(s)}

IsSetRecursion(it, dom, base, G) ==
  it = [s \in dom |-> IF s = {} THEN base ELSE G[<<s, it[Rest(s)]>>]]

Small(S, n) == {s \in SUBSET S : Cardinality(s) <= n}

(* A finite set without the chosen element is one smaller.                 *)
LEMMA RestIsSmaller ==
  ASSUME NEW S, IsFiniteSet(S), NEW s \in SUBSET S, s # {}
  PROVE  /\ Pick(s) \in s /\ Rest(s) \in SUBSET S
         /\ IsFiniteSet(s) /\ IsFiniteSet(Rest(s))
         /\ Cardinality(s) \in Nat /\ Cardinality(Rest(s)) \in Nat
         /\ Cardinality(Rest(s)) = Cardinality(s) - 1
<1>1. Pick(s) \in s BY DEF Pick
<1>2. IsFiniteSet(s) BY FS_Subset
<1>3. IsFiniteSet(Rest(s)) /\ Cardinality(Rest(s)) = Cardinality(s) - 1
  BY <1>1, <1>2, FS_RemoveElement DEF Rest
<1>4. Cardinality(s) \in Nat /\ Cardinality(Rest(s)) \in Nat
  BY <1>2, <1>3, FS_CardinalityType
<1> QED BY <1>1, <1>2, <1>3, <1>4 DEF Rest

(* Among the subsets of a finite set that have some property, one has      *)
(* fewest elements.                                                        *)
LEMMA SmallestSubset ==
  ASSUME NEW S, IsFiniteSet(S), NEW B \in SUBSET SUBSET S, B # {}
  PROVE  \E s \in B : \A r \in B : Cardinality(s) <= Cardinality(r)
<1> DEFINE sizes == {Cardinality(s) : s \in B}
<1>1. \A s \in B : Cardinality(s) \in Nat
  BY FS_Subset, FS_CardinalityType
<1>2. sizes \in SUBSET Nat /\ sizes # {} BY <1>1
<1>3. PICK k \in sizes : \A j \in sizes : k <= j BY <1>2, LeastNat
<1>4. PICK s \in B : k = Cardinality(s) BY <1>3
<1> QED BY <1>3, <1>4

LEMMA SetRecursion ==
  ASSUME NEW S, IsFiniteSet(S), NEW V, NEW base \in V,
         NEW G \in [(SUBSET S) \X V -> V]
  PROVE  \E it \in [SUBSET S -> V] : IsSetRecursion(it, SUBSET S, base, G)
<1> DEFINE Upto(n) == \E f \in [Small(S, n) -> V] :
                        IsSetRecursion(f, Small(S, n), base, G)
           Bad == {n \in Nat : ~Upto(n)}
<1>1. Upto(0)
  <2> DEFINE f == [s \in Small(S, 0) |-> base]
  <2>1. \A s \in Small(S, 0) : s = {}
    <3> SUFFICES ASSUME NEW s \in Small(S, 0), s # {} PROVE FALSE OBVIOUS
    <3>1. s \in SUBSET S /\ Cardinality(s) <= 0 BY DEF Small
    <3> QED BY <3>1, RestIsSmaller
  <2>2. f \in [Small(S, 0) -> V] OBVIOUS
  <2>3. IsSetRecursion(f, Small(S, 0), base, G) BY <2>1 DEF IsSetRecursion
  <2> QED BY <2>2, <2>3
<1>2. ASSUME NEW n \in Nat, Upto(n) PROVE Upto(n + 1)
  <2>1. PICK f \in [Small(S, n) -> V] : IsSetRecursion(f, Small(S, n), base, G)
    BY <1>2
  <2> DEFINE g == [s \in Small(S, n + 1) |->
                     IF s = {} THEN base ELSE G[<<s, f[Rest(s)]>>]]
  <2>2. \A s \in Small(S, n + 1) : s # {} => Rest(s) \in Small(S, n)
    <3> SUFFICES ASSUME NEW s \in Small(S, n + 1), s # {}
                 PROVE  Rest(s) \in Small(S, n)
      OBVIOUS
    <3>1. s \in SUBSET S /\ Cardinality(s) <= n + 1 BY DEF Small
    <3> QED BY <3>1, RestIsSmaller DEF Small
  <2>3. g \in [Small(S, n + 1) -> V]
    <3> SUFFICES ASSUME NEW s \in Small(S, n + 1), s # {}
                 PROVE  G[<<s, f[Rest(s)]>>] \in V
      OBVIOUS
    <3>1. s \in SUBSET S BY DEF Small
    <3>2. f[Rest(s)] \in V BY <2>2
    <3> QED BY <3>1, <3>2
  <2>4. \A s \in Small(S, n) : s \in Small(S, n + 1) /\ g[s] = f[s]
    <3> SUFFICES ASSUME NEW s \in Small(S, n)
                 PROVE  s \in Small(S, n + 1) /\ g[s] = f[s]
      OBVIOUS
    <3>1. s \in Small(S, n + 1)
      <4>1. s \in SUBSET S /\ Cardinality(s) <= n BY DEF Small
      <4>2. Cardinality(s) \in Nat BY <4>1, FS_Subset, FS_CardinalityType
      <4> QED BY <4>1, <4>2 DEF Small
    <3>2. f[s] = IF s = {} THEN base ELSE G[<<s, f[Rest(s)]>>]
      BY <2>1, Zenon DEF IsSetRecursion
    <3> QED BY <3>1, <3>2
  <2>5. \A s \in Small(S, n + 1) : s # {} => g[Rest(s)] = f[Rest(s)]
    BY <2>2, <2>4
  <2>6. IsSetRecursion(g, Small(S, n + 1), base, G)
    <3> SUFFICES g = [s \in Small(S, n + 1) |->
                        IF s = {} THEN base ELSE G[<<s, g[Rest(s)]>>]]
      BY DEF IsSetRecursion
    <3> QED BY <2>5
  <2> QED BY <2>3, <2>6
<1>3. \A n \in Nat : Upto(n)
  <2> SUFFICES ASSUME Bad # {} PROVE FALSE OBVIOUS
  <2>1. PICK k \in Bad : \A j \in Bad : k <= j BY LeastNat
  <2> HIDE DEF Upto
  <2>2. k \in Nat /\ ~Upto(k) OBVIOUS
  <2>3. k # 0 BY <1>1, <2>2
  <2>4. k - 1 \in Nat /\ (k - 1) + 1 = k BY <2>2, <2>3
  <2>5. Upto(k - 1) BY <2>1, <2>4
  <2>6. Upto((k - 1) + 1) BY <1>2, <2>4, <2>5
  <2> QED BY <2>2, <2>4, <2>6
<1>4. Small(S, Cardinality(S)) = SUBSET S
  BY FS_Subset DEF Small
<1>5. Cardinality(S) \in Nat BY FS_CardinalityType
<1> QED BY <1>3, <1>4, <1>5
(* A property of the empty set that carries over from the rest of a set to *)
(* the set holds of all subsets: stated as the set of those that have it.  *)
LEMMA SetInduction ==
  ASSUME NEW S, IsFiniteSet(S), NEW Good, {} \in Good,
         \A s \in SUBSET S : s # {} /\ Rest(s) \in Good => s \in Good
  PROVE  \A s \in SUBSET S : s \in Good
<1> DEFINE Bad == {s \in SUBSET S : s \notin Good}
<1> SUFFICES ASSUME Bad # {} PROVE FALSE OBVIOUS
<1>1. PICK s \in Bad : \A r \in Bad : Cardinality(s) <= Cardinality(r)
  BY SmallestSubset
<1>2. s \in SUBSET S /\ s # {} OBVIOUS
<1>3. Rest(s) \in SUBSET S /\ ~(Cardinality(s) <= Cardinality(Rest(s)))
  BY <1>2, RestIsSmaller
<1>4. Rest(s) \in Good BY <1>1, <1>3
<1> QED BY <1>2, <1>4

(***************************************************************************)
(* The sum over a histogram                                                *)
(***************************************************************************)
Sum(h, S) == MapThenSumSet(LAMBDA b : h[b], S)

IsSum(it, h, S) ==
  it = [s \in SUBSET S |-> IF s = {} THEN 0 ELSE h[Pick(s)] + it[Rest(s)]]

LEMMA SumIsRecursive ==
  ASSUME NEW S, IsFiniteSet(S), NEW h \in [S -> Nat]
  PROVE  \E it \in [SUBSET S -> Nat] : IsSum(it, h, S) /\ Sum(h, S) = it[S]
<1> DEFINE G == [a \in (SUBSET S) \X Nat |->
                   IF a[1] = {} THEN 0 ELSE h[Pick(a[1])] + a[2]]
<1>1. G \in [(SUBSET S) \X Nat -> Nat]
  <2> SUFFICES ASSUME NEW s \in SUBSET S, s # {}, NEW n \in Nat
               PROVE  h[Pick(s)] + n \in Nat
    OBVIOUS
  <2>1. h[Pick(s)] \in Nat BY RestIsSmaller
  <2> QED BY <2>1
<1>2. \E it : IsSum(it, h, S)
  <2>1. PICK it \in [SUBSET S -> Nat] : IsSetRecursion(it, SUBSET S, 0, G)
    <3> HIDE DEF G
    <3> QED BY <1>1, SetRecursion
  <2>2. \A s \in SUBSET S : s # {} =>
          G[<<s, it[Rest(s)]>>] = h[Pick(s)] + it[Rest(s)]
    <3> SUFFICES ASSUME NEW s \in SUBSET S, s # {}
                 PROVE  G[<<s, it[Rest(s)]>>] = h[Pick(s)] + it[Rest(s)]
      OBVIOUS
    <3>1. it[Rest(s)] \in Nat BY RestIsSmaller
    <3> QED BY <3>1
  <2> HIDE DEF G
  <2>3. IsSum(it, h, S) BY <2>1, <2>2 DEF IsSetRecursion, IsSum
  <2> QED BY <2>3
<1> DEFINE it == CHOOSE f : IsSum(f, h, S)
<1>3. IsSum(it, h, S) BY <1>2
<1>4. Sum(h, S) = it[S]
  BY Zenon DEF Sum, MapThenSumSet, MapThenFoldSet, IsSum, Pick, Rest
<1>5. it \in [SUBSET S -> Nat]
  <2> DEFINE Good == {s \in SUBSET S : it[s] \in Nat}
  <2> HIDE DEF it
  <2>1. {} \in Good BY <1>3 DEF IsSum
  <2>2. \A s \in SUBSET S : s # {} /\ Rest(s) \in Good => s \in Good
    <3> SUFFICES ASSUME NEW s \in SUBSET S, s # {}, Rest(s) \in Good
                 PROVE  it[s] \in Nat
      OBVIOUS
    <3>1. h[Pick(s)] \in Nat BY RestIsSmaller
    <3>2. it[s] = h[Pick(s)] + it[Rest(s)] BY <1>3 DEF IsSum
    <3> QED BY <3>1, <3>2
  <2>3. \A s \in SUBSET S : s \in Good
    <3> HIDE DEF Good
    <3> QED BY <2>1, <2>2, SetInduction
  <2> QED BY <1>3, <2>3 DEF IsSum
<1> QED BY <1>3, <1>4, <1>5

(* The sum over no counts is zero.                                         *)
LEMMA SumOfZeros ==
  ASSUME NEW S, IsFiniteSet(S)
  PROVE  Sum([b \in S |-> 0], S) = 0
<1> DEFINE h == [b \in S |-> 0]
<1>1. PICK it \in [SUBSET S -> Nat] : IsSum(it, h, S) /\ Sum(h, S) = it[S]
  BY SumIsRecursive
<1> DEFINE Good == {s \in SUBSET S : it[s] = 0}
<1>2. {} \in Good BY <1>1 DEF IsSum
<1>3. \A s \in SUBSET S : s # {} /\ Rest(s) \in Good => s \in Good
  <2> SUFFICES ASSUME NEW s \in SUBSET S, s # {}, Rest(s) \in Good
               PROVE  it[s] = 0
    OBVIOUS
  <2>1. it[s] = h[Pick(s)] + it[Rest(s)] BY <1>1 DEF IsSum
  <2>2. h[Pick(s)] = 0 BY RestIsSmaller
  <2> QED BY <2>1, <2>2
<1>4. \A s \in SUBSET S : s \in Good
  <2> HIDE DEF Good
  <2> QED BY <1>2, <1>3, SetInduction
<1> QED BY <1>1, <1>4

(* One more in one bucket is one more in the sum.                          *)
LEMMA SumIncrement ==
  ASSUME NEW S, IsFiniteSet(S), NEW h \in [S -> Nat], NEW b \in S
  PROVE  /\ Sum(h, S) \in Nat
         /\ Sum([h EXCEPT ![b] = @ + 1], S) = Sum(h, S) + 1
<1> DEFINE g == [h EXCEPT ![b] = @ + 1]
<1>1. PICK it \in [SUBSET S -> Nat] : IsSum(it, h, S) /\ Sum(h, S) = it[S]
  BY SumIsRecursive
<1>2. g \in [S -> Nat] OBVIOUS
<1>3. PICK jt \in [SUBSET S -> Nat] : IsSum(jt, g, S) /\ Sum(g, S) = jt[S]
  <2> HIDE DEF g
  <2> QED BY <1>2, SumIsRecursive
<1> DEFINE Good ==
      {s \in SUBSET S : jt[s] = it[s] + (IF b \in s THEN 1 ELSE 0)}
<1>4. {} \in Good BY <1>1, <1>3 DEF IsSum
<1>5. \A s \in SUBSET S : s # {} /\ Rest(s) \in Good => s \in Good
  <2> SUFFICES ASSUME NEW s \in SUBSET S, s # {}, Rest(s) \in Good
               PROVE  jt[s] = it[s] + (IF b \in s THEN 1 ELSE 0)
    OBVIOUS
  <2>1. /\ it[s] = h[Pick(s)] + it[Rest(s)]
        /\ jt[s] = g[Pick(s)] + jt[Rest(s)]
    <3> HIDE DEF g
    <3> QED BY <1>1, <1>3 DEF IsSum
  <2>2. /\ Pick(s) \in S /\ Rest(s) \in SUBSET S
        /\ b \in s <=> b = Pick(s) \/ b \in Rest(s)
        /\ Pick(s) \notin Rest(s)
    BY RestIsSmaller DEF Rest
  <2>3. /\ it[Rest(s)] \in Nat /\ h[Pick(s)] \in Nat
        /\ g[Pick(s)] = h[Pick(s)] + (IF b = Pick(s) THEN 1 ELSE 0)
        /\ jt[Rest(s)] = it[Rest(s)] + (IF b \in Rest(s) THEN 1 ELSE 0)
    BY <2>2
  <2> HIDE DEF g, Good
  <2> QED BY <2>1, <2>2, <2>3
<1>6. \A s \in SUBSET S : s \in Good
  <2> HIDE DEF Good
  <2> QED BY <1>4, <1>5, SetInduction
<1> QED BY <1>1, <1>3, <1>6

(***************************************************************************)
(* Every latency has a bucket                                              *)
(***************************************************************************)
IsHalving(f, lat) ==
  f = [v \in 0 .. lat |-> IF v < 2 THEN 0 ELSE 1 + f[v \div 2]]

LEMMA Halving ==
  ASSUME NEW lat \in Nat
  PROVE  \E f \in [0 .. lat -> Nat] : IsHalving(f, lat)
<1> DEFINE Upto(n) == \E f \in [0 .. n -> Nat] : IsHalving(f, n)
           Bad == {n \in Nat : ~Upto(n)}
<1>1. Upto(0)
  <2> DEFINE f == [v \in 0 .. 0 |-> 0]
  <2>1. f \in [0 .. 0 -> Nat] OBVIOUS
  <2>2. IsHalving(f, 0) BY DEF IsHalving
  <2> QED BY <2>1, <2>2
<1>2. ASSUME NEW n \in Nat, Upto(n) PROVE Upto(n + 1)
  <2>1. PICK f \in [0 .. n -> Nat] : IsHalving(f, n) BY <1>2
  <2> DEFINE g == [v \in 0 .. n + 1 |-> IF v < 2 THEN 0 ELSE 1 + f[v \div 2]]
  <2>2. \A v \in 0 .. n + 1 : v >= 2 => v \div 2 \in 0 .. n OBVIOUS
  <2>3. g \in [0 .. n + 1 -> Nat] BY <2>2
  <2>4. \A v \in 0 .. n : g[v] = f[v]
    <3> SUFFICES ASSUME NEW v \in 0 .. n PROVE g[v] = f[v] OBVIOUS
    <3>1. f[v] = IF v < 2 THEN 0 ELSE 1 + f[v \div 2]
      BY <2>1, Zenon DEF IsHalving
    <3> QED BY <3>1
  <2>5. \A v \in 0 .. n + 1 : v >= 2 => g[v \div 2] = f[v \div 2]
    BY <2>2, <2>4
  <2>6. IsHalving(g, n + 1)
    <3> SUFFICES g = [v \in 0 .. n + 1 |-> IF v < 2 THEN 0 ELSE 1 + g[v \div 2]]
      BY DEF IsHalving
    <3>1. \A v \in 0 .. n + 1 :
            (IF v < 2 THEN 0 ELSE 1 + f[v \div 2])
              = (IF v < 2 THEN 0 ELSE 1 + g[v \div 2])
      <4> HIDE DEF g
      <4> QED BY <2>5
    <3>2. \A h : h = [v \in 0 .. n + 1 |-> IF v < 2 THEN 0 ELSE 1 + f[v \div 2]]
            => h = [v \in 0 .. n + 1 |-> IF v < 2 THEN 0 ELSE 1 + g[v \div 2]]
      <4> HIDE DEF g
      <4> QED BY <3>1, Zenon
    <3> QED BY <3>2
  <2> QED BY <2>3, <2>6
<1>3. \A n \in Nat : Upto(n)
  <2> SUFFICES ASSUME Bad # {} PROVE FALSE OBVIOUS
  <2>1. PICK k \in Bad : \A j \in Bad : k <= j BY LeastNat
  <2> HIDE DEF Upto
  <2>2. k \in Nat /\ ~Upto(k) OBVIOUS
  <2>3. k # 0 BY <1>1, <2>2
  <2>4. k - 1 \in Nat /\ (k - 1) + 1 = k BY <2>2, <2>3
  <2>5. Upto(k - 1) BY <2>1, <2>4
  <2>6. Upto((k - 1) + 1) BY <1>2, <2>4, <2>5
  <2> QED BY <2>2, <2>4, <2>6
<1> QED BY <1>3

LEMMA HalvingIsNatural ==
  ASSUME NEW lat \in Nat, NEW f, IsHalving(f, lat)
  PROVE  f[lat] \in Nat
<1> DEFINE Bad == {v \in 0 .. lat : f[v] \notin Nat}
<1>1. \A v \in 0 .. lat : f[v] = IF v < 2 THEN 0 ELSE 1 + f[v \div 2]
  BY Zenon DEF IsHalving
<1>2. Bad = {}
  <2> SUFFICES ASSUME Bad # {} PROVE FALSE OBVIOUS
  <2>1. Bad \in SUBSET Nat OBVIOUS
  <2>2. PICK v \in Bad : \A w \in Bad : v <= w BY <2>1, LeastNat
  <2>3. v \in 0 .. lat /\ f[v] \notin Nat OBVIOUS
  <2>4. v >= 2 /\ f[v] = 1 + f[v \div 2] BY <1>1, <2>3
  <2>5. v \div 2 \in 0 .. lat /\ ~(v <= v \div 2) BY <2>3, <2>4
  <2>6. f[v \div 2] \in Nat BY <2>2, <2>5
  <2> QED BY <2>3, <2>4, <2>6
<1> QED BY <1>2

LEMMA BucketInRange ==
  ASSUME NEW lat \in Nat
  PROVE  latency_bucket(lat) \in 0 .. LAT_HIST_MAX_BUCKET
<1> DEFINE f == CHOOSE g : IsHalving(g, lat)
<1>1. IsHalving(f, lat) BY Halving
<1>2. f[lat] \in Nat
  <2> HIDE DEF f
  <2> QED BY <1>1, HalvingIsNatural
<1>3. latency_bucket(lat) = IF f[lat] > LAT_HIST_MAX_BUCKET
                            THEN LAT_HIST_MAX_BUCKET ELSE f[lat]
  BY Zenon DEF latency_bucket, IsHalving
<1> HIDE DEF f
<1> QED BY <1>2, <1>3 DEF LAT_HIST_MAX_BUCKET

(***************************************************************************)
(* The notes taken                                                         *)
(***************************************************************************)
Buckets == 0 .. LAT_HIST_MAX_BUCKET

Tele ==
  [issued_req_count : Nat, observed_rsp_count : Nat, completed_cmd_count : Nat,
   data_bytes : Nat, busy_time : Nat,
   window_valid : BOOLEAN, first_data : Int, last_burst_end : Int,
   predict_error : Int, predict_samples : Nat,
   latency_sum : Nat, latency_samples : Nat,
   latency_min : Nat, latency_max : Nat, latency_hist : [Buckets -> Nat],
   observed_reorder_count : Nat, max_completed_admit_order : Nat,
   port_completed_count : [Port -> Nat], port_data_bytes : [Port -> Nat],
   ecc_corrected_count : Nat, ecc_uncorrectable_count : Nat,
   fr_fcfs_forced_count : Nat, bus_turnaround_count : Nat,
   rd_wr_grouped_count : Nat,
   peak_depth : Depth, coalesced_write_count : Nat,
   occupancy_hist : [Depth -> Nat], occupancy_samples : Nat]

(* What the notes read.                                                    *)
Readable ==
  /\ cfg \in Cfg /\ now \in Nat /\ predicted_last \subseteq Nat \X Nat
  /\ admit_time \in [Cmd -> Nat] /\ accepted \in [Cmd -> Nat]
  /\ admit_order \in [Cmd -> Nat]

(* What a completion's note leaves alone.                                  *)
Kept(u, t) ==
  /\ u.completed_cmd_count = t.completed_cmd_count
  /\ u.data_bytes = t.data_bytes
  /\ u.ecc_uncorrectable_count = t.ecc_uncorrectable_count
  /\ u.peak_depth = t.peak_depth
  /\ u.occupancy_hist = t.occupancy_hist

(* What it writes, with the counters enabled.                              *)
Noted(u, t, c, lat) ==
  /\ u.latency_samples = t.latency_samples + 1
  /\ u.latency_min = IF t.latency_samples = 0 \/ lat < t.latency_min
                     THEN lat ELSE t.latency_min
  /\ u.latency_max = IF t.latency_samples = 0 \/ lat > t.latency_max
                     THEN lat ELSE t.latency_max
  /\ Sum(u.latency_hist, Buckets) = Sum(t.latency_hist, Buckets) + 1
  /\ u.port_completed_count =
       [t.port_completed_count EXCEPT ![c.port] = @ + 1]
  /\ IF admit_order[c] < t.max_completed_admit_order
     THEN /\ u.observed_reorder_count = t.observed_reorder_count + 1
          /\ u.max_completed_admit_order = t.max_completed_admit_order
     ELSE /\ u.observed_reorder_count = t.observed_reorder_count
          /\ u.max_completed_admit_order = admit_order[c]

LEMMA BucketsFinite == IsFiniteSet(Buckets)
<1>1. Buckets = 0 .. 24 /\ 0 \in Int /\ 24 \in Int
  BY DEF Buckets, LAT_HIST_MAX_BUCKET
<1> QED BY <1>1, FS_Interval

LEMMA NoteCompletion ==
  ASSUME Readable, NEW t \in Tele, NEW c \in Cmd, NEW last \in Nat
  PROVE  LET u == note_completion_observability(t, c, last)
         IN /\ u \in Tele /\ Kept(u, t)
            /\ ~cfg.perf_counters_enabled => u = t
            /\ cfg.perf_counters_enabled =>
                 Noted(u, t, c, NonNegative(last - admit_time[c]))
<1>1. CASE ~cfg.perf_counters_enabled
  BY <1>1 DEF note_completion_observability, Kept
<1>2. CASE cfg.perf_counters_enabled
  <2> DEFINE lat == NonNegative(last - admit_time[c])
             b == latency_bucket(lat)
             sum == t.latency_sum + lat
             samples == t.latency_samples + 1
             least == IF t.latency_samples = 0 \/ lat < t.latency_min
                      THEN lat ELSE t.latency_min
             most == IF t.latency_samples = 0 \/ lat > t.latency_max
                     THEN lat ELSE t.latency_max
             hist == [t.latency_hist EXCEPT ![b] = @ + 1]
             older == admit_order[c] < t.max_completed_admit_order
             reorders == IF older THEN t.observed_reorder_count + 1
                         ELSE t.observed_reorder_count
             newest == IF older THEN t.max_completed_admit_order
                       ELSE admit_order[c]
             counts == [t.port_completed_count EXCEPT ![c.port] = @ + 1]
             bytes == [t.port_data_bytes EXCEPT ![c.port] = @ + 1]
             u == [t EXCEPT
                     !.latency_sum = sum, !.latency_samples = samples,
                     !.latency_min = least, !.latency_max = most,
                     !.latency_hist = hist,
                     !.observed_reorder_count = reorders,
                     !.max_completed_admit_order = newest,
                     !.port_completed_count = counts,
                     !.port_data_bytes = bytes]
  <2>1. /\ t.latency_sum \in Nat /\ t.latency_samples \in Nat
        /\ t.latency_min \in Nat /\ t.latency_max \in Nat
        /\ t.latency_hist \in [Buckets -> Nat]
        /\ t.observed_reorder_count \in Nat
        /\ t.max_completed_admit_order \in Nat
        /\ t.port_completed_count \in [Port -> Nat]
        /\ t.port_data_bytes \in [Port -> Nat]
    BY DEF Tele
  <2>2. lat \in Nat BY DEF Readable, NonNegative
  <2>3. b \in Buckets BY <2>2, BucketInRange DEF Buckets
  <2>4. c.port \in Port BY TelemetryAssumption DEF Port
  <2>5. admit_order[c] \in Nat BY DEF Readable
  <2>6. note_completion_observability(t, c, last) = u
    <3>1. note_completion_observability(t, c, last) =
            [t EXCEPT
               !.latency_sum = sum, !.latency_samples = samples,
               !.latency_min = least, !.latency_max = most,
               !.latency_hist[b] = @ + 1,
               !.observed_reorder_count = reorders,
               !.max_completed_admit_order = newest,
               !.port_completed_count[c.port] = @ + 1,
               !.port_data_bytes[c.port] = @ + 1]
      BY <1>2, Zenon DEF note_completion_observability
    <3> HIDE DEF sum, samples, least, most, b, reorders, newest
    <3> QED BY <3>1 DEF Tele
  <2> HIDE DEF lat, b
  <2>7. /\ sum \in Nat /\ samples \in Nat /\ least \in Nat /\ most \in Nat
        /\ reorders \in Nat /\ newest \in Nat
    BY <2>1, <2>2, <2>5
  <2>8. hist \in [Buckets -> Nat] /\ Sum(hist, Buckets) = Sum(t.latency_hist, Buckets) + 1
    BY <2>1, <2>3, BucketsFinite, SumIncrement
  <2>9. counts \in [Port -> Nat] /\ bytes \in [Port -> Nat]
    BY <2>1, <2>4
  <2>10. Noted(u, t, c, lat)
    <3>1. /\ u.latency_samples = samples /\ u.latency_min = least
          /\ u.latency_max = most /\ u.latency_hist = hist
          /\ u.observed_reorder_count = reorders
          /\ u.max_completed_admit_order = newest
          /\ u.port_completed_count = counts
      <4> HIDE DEF samples, least, most, hist, reorders, newest, counts, bytes
      <4> QED BY DEF Tele
    <3> HIDE DEF u, hist
    <3> QED BY <3>1, <2>8 DEF Noted
  <2> HIDE DEF sum, samples, least, most, hist, reorders, newest, counts, bytes
  <2>11. u \in Tele BY <2>7, <2>8, <2>9 DEF Tele
  <2>12. Kept(u, t) BY DEF Tele, Kept
  <2> QED BY <1>2, <2>6, <2>10, <2>11, <2>12 DEF lat
<1> QED BY <1>1, <1>2

(* A completion notes every command of a set, one after the other.         *)
NoteAll(t, last, S) ==
  FoldSet(LAMBDA d, acc : note_completion_observability(acc, d, last), t, S)

IsNoted(it, t, last, S) ==
  it = [s \in SUBSET S |->
          IF s = {} THEN t
          ELSE note_completion_observability(it[Rest(s)], Pick(s), last)]

LEMMA NoteAllIsRecursive ==
  ASSUME Readable, NEW t \in Tele, NEW last \in Nat,
         NEW S \in SUBSET Cmd, IsFiniteSet(S)
  PROVE  \E it : IsNoted(it, t, last, S) /\ NoteAll(t, last, S) = it[S]
<1> DEFINE G == [a \in (SUBSET S) \X Tele |->
                   IF a[1] = {} THEN t
                   ELSE note_completion_observability(a[2], Pick(a[1]), last)]
<1>1. G \in [(SUBSET S) \X Tele -> Tele]
  <2> SUFFICES ASSUME NEW s \in SUBSET S, s # {}, NEW u \in Tele
               PROVE  note_completion_observability(u, Pick(s), last) \in Tele
    OBVIOUS
  <2>1. Pick(s) \in Cmd BY RestIsSmaller
  <2> QED BY <2>1, NoteCompletion
<1>2. \E it : IsNoted(it, t, last, S)
  <2>1. PICK it \in [SUBSET S -> Tele] : IsSetRecursion(it, SUBSET S, t, G)
    <3> HIDE DEF G
    <3> QED BY <1>1, SetRecursion
  <2>2. \A s \in SUBSET S : s # {} =>
          G[<<s, it[Rest(s)]>>] =
            note_completion_observability(it[Rest(s)], Pick(s), last)
    <3> SUFFICES ASSUME NEW s \in SUBSET S, s # {}
                 PROVE  G[<<s, it[Rest(s)]>>] =
                          note_completion_observability(it[Rest(s)], Pick(s), last)
      OBVIOUS
    <3>1. it[Rest(s)] \in Tele BY RestIsSmaller
    <3> QED BY <3>1
  <2> HIDE DEF G
  <2>3. IsNoted(it, t, last, S) BY <2>1, <2>2 DEF IsSetRecursion, IsNoted
  <2> QED BY <2>3
<1> DEFINE it == CHOOSE f : IsNoted(f, t, last, S)
<1>3. IsNoted(it, t, last, S) BY <1>2
<1>4. NoteAll(t, last, S) = it[S]
  BY Zenon DEF NoteAll, FoldSet, MapThenFoldSet, IsNoted, Pick, Rest
<1> QED BY <1>3, <1>4

OfPort(S, p) == {d \in S : d.port = p}

(* What is left of t when the commands of S were noted.                    *)
AllNoted(u, t, S) ==
  /\ u \in Tele /\ Kept(u, t)
  /\ S = {} => u = t
  /\ u.latency_samples = t.latency_samples + Reported(Cardinality(S))
  /\ Sum(u.latency_hist, Buckets) =
       Sum(t.latency_hist, Buckets) + Reported(Cardinality(S))
  /\ \A p \in Port : u.port_completed_count[p] =
       t.port_completed_count[p] + Reported(Cardinality(OfPort(S, p)))

(* One element more in a set is one more of its own port.                  *)
LEMMA OnePortMore ==
  ASSUME NEW S \in SUBSET Cmd, IsFiniteSet(S), NEW c \in Cmd, c \notin S, NEW p
  PROVE  /\ IsFiniteSet(OfPort(S, p)) /\ Cardinality(OfPort(S, p)) \in Nat
         /\ Cardinality(OfPort(S \cup {c}, p)) =
              Cardinality(OfPort(S, p)) + (IF c.port = p THEN 1 ELSE 0)
<1>1. IsFiniteSet(OfPort(S, p)) BY FS_Subset DEF OfPort
<1>2. Cardinality(OfPort(S, p)) \in Nat BY <1>1, FS_CardinalityType
<1>3. CASE c.port = p
  <2>1. OfPort(S \cup {c}, p) = OfPort(S, p) \cup {c} /\ c \notin OfPort(S, p)
    BY <1>3 DEF OfPort
  <2> QED BY <1>1, <1>2, <1>3, <2>1, FS_AddElement
<1>4. CASE c.port # p
  <2>1. OfPort(S \cup {c}, p) = OfPort(S, p) BY <1>4 DEF OfPort
  <2> QED BY <1>1, <1>2, <1>4, <2>1
<1> QED BY <1>3, <1>4

LEMMA NoteOneMore ==
  ASSUME Readable, NEW t \in Tele, NEW u \in Tele, NEW last \in Nat,
         NEW S \in SUBSET Cmd, IsFiniteSet(S), NEW c \in Cmd, c \notin S,
         AllNoted(u, t, S)
  PROVE  AllNoted(note_completion_observability(u, c, last), t, S \cup {c})
<1> DEFINE v == note_completion_observability(u, c, last)
<1>1. /\ v \in Tele /\ Kept(v, u)
      /\ ~cfg.perf_counters_enabled => v = u
      /\ cfg.perf_counters_enabled =>
           Noted(v, u, c, NonNegative(last - admit_time[c]))
  BY NoteCompletion
<1> HIDE DEF v
<1>2. Kept(v, t) BY <1>1 DEF AllNoted, Kept
<1>3. Cardinality(S) \in Nat /\ Cardinality(S \cup {c}) = Cardinality(S) + 1
  BY FS_CardinalityType, FS_AddElement
<1>4. c.port \in Port BY TelemetryAssumption DEF Port
<1>5. /\ t.latency_samples \in Nat /\ u.latency_samples \in Nat
      /\ t.latency_hist \in [Buckets -> Nat] /\ u.latency_hist \in [Buckets -> Nat]
      /\ t.port_completed_count \in [Port -> Nat]
      /\ u.port_completed_count \in [Port -> Nat]
  BY DEF Tele
<1>6. /\ Sum(t.latency_hist, Buckets) \in Nat
      /\ Sum(u.latency_hist, Buckets) \in Nat
  <2>1. 0 \in Buckets BY DEF Buckets, LAT_HIST_MAX_BUCKET
  <2> QED BY <1>5, <2>1, BucketsFinite, SumIncrement
<1>7. v.latency_samples = t.latency_samples + Reported(Cardinality(S \cup {c}))
  BY <1>1, <1>3, <1>5 DEF AllNoted, Noted, Reported
<1>8. Sum(v.latency_hist, Buckets) =
        Sum(t.latency_hist, Buckets) + Reported(Cardinality(S \cup {c}))
  BY <1>1, <1>3, <1>6 DEF AllNoted, Noted, Reported
<1>9. ASSUME NEW p \in Port
      PROVE  v.port_completed_count[p] = t.port_completed_count[p]
               + Reported(Cardinality(OfPort(S \cup {c}, p)))
  <2>1. /\ Cardinality(OfPort(S, p)) \in Nat
        /\ Cardinality(OfPort(S \cup {c}, p)) =
             Cardinality(OfPort(S, p)) + (IF c.port = p THEN 1 ELSE 0)
    BY OnePortMore
  <2>2. u.port_completed_count[p] = t.port_completed_count[p]
          + Reported(Cardinality(OfPort(S, p)))
    BY DEF AllNoted
  <2>3. v.port_completed_count[p] = u.port_completed_count[p]
          + Reported(IF c.port = p THEN 1 ELSE 0)
    BY <1>1, <1>4, <1>5 DEF Noted, Reported
  <2>4. u.port_completed_count[p] \in Nat /\ t.port_completed_count[p] \in Nat
    BY <1>5
  <2> QED BY <2>1, <2>2, <2>3, <2>4 DEF Reported
<1> QED BY <1>1, <1>2, <1>7, <1>8, <1>9 DEF AllNoted, v

LEMMA NoteAllCounts ==
  ASSUME Readable, NEW t \in Tele, NEW u \in Tele, NEW last \in Nat,
         NEW S \in SUBSET Cmd, IsFiniteSet(S),
         NEW T \in SUBSET Cmd, IsFiniteSet(T), S \cap T = {},
         AllNoted(u, t, S)
  PROVE  AllNoted(NoteAll(u, last, T), t, S \cup T)
<1>1. PICK it : IsNoted(it, u, last, T) /\ NoteAll(u, last, T) = it[T]
  BY NoteAllIsRecursive
<1> DEFINE Good == {s \in SUBSET T : AllNoted(it[s], t, S \cup s)}
<1>2. {} \in Good
  <2>1. it[{}] = u /\ S \cup {} = S BY <1>1 DEF IsNoted
  <2> QED BY <2>1
<1>3. \A s \in SUBSET T : s # {} /\ Rest(s) \in Good => s \in Good
  <2> SUFFICES ASSUME NEW s \in SUBSET T, s # {}, Rest(s) \in Good
               PROVE  AllNoted(it[s], t, S \cup s)
    OBVIOUS
  <2>0. Pick(s) \in s /\ Rest(s) \in SUBSET T /\ IsFiniteSet(Rest(s))
    <3> HIDE DEF Good
    <3> QED BY RestIsSmaller
  <2>1. /\ Pick(s) \in s /\ Rest(s) \in SUBSET T /\ IsFiniteSet(Rest(s))
        /\ Pick(s) \notin Rest(s) /\ s = Rest(s) \cup {Pick(s)}
    BY <2>0 DEF Rest
  <2>2. AllNoted(it[Rest(s)], t, S \cup Rest(s)) OBVIOUS
  <2>3. it[Rest(s)] \in Tele BY <2>2 DEF AllNoted
  <2>4. it[s] = note_completion_observability(it[Rest(s)], Pick(s), last)
    BY <1>1 DEF IsNoted
  <2>5. /\ Pick(s) \in Cmd /\ S \cup Rest(s) \in SUBSET Cmd
        /\ Pick(s) \notin S \cup Rest(s) /\ IsFiniteSet(S \cup Rest(s))
    BY <2>1, FS_Union
  <2> HIDE DEF Good
  <2>6. AllNoted(note_completion_observability(it[Rest(s)], Pick(s), last), t,
                 (S \cup Rest(s)) \cup {Pick(s)})
    BY <2>2, <2>3, <2>5, NoteOneMore
  <2>7. (S \cup Rest(s)) \cup {Pick(s)} = S \cup s BY <2>1
  <2> QED BY <2>4, <2>6, <2>7
<1>4. \A s \in SUBSET T : s \in Good
  <2> HIDE DEF Good
  <2> QED BY <1>2, <1>3, SetInduction
<1>5. T \in Good BY <1>4
<1>6. AllNoted(it[T], t, S \cup T) BY <1>5
<1> QED BY <1>1, <1>6

LEMMA NoneNoted == ASSUME NEW t \in Tele PROVE AllNoted(t, t, {})
<1>1. /\ t.latency_samples \in Nat /\ t.latency_hist \in [Buckets -> Nat]
      /\ t.port_completed_count \in [Port -> Nat]
  BY DEF Tele
<1>2. Sum(t.latency_hist, Buckets) \in Nat
  <2>1. 0 \in Buckets BY DEF Buckets, LAT_HIST_MAX_BUCKET
  <2> QED BY <1>1, <2>1, BucketsFinite, SumIncrement
<1>3. Cardinality({}) = 0 /\ \A p : OfPort({}, p) = {}
  BY FS_EmptySet DEF OfPort
<1>4. Reported(0) = 0 BY DEF Reported
<1> QED BY <1>1, <1>2, <1>3, <1>4 DEF AllNoted, Kept

(* What the notes before those of the group leave alone.                   *)
Untouched(u, t) ==
  /\ u.completed_cmd_count = t.completed_cmd_count
  /\ u.latency_samples = t.latency_samples
  /\ u.latency_min = t.latency_min /\ u.latency_max = t.latency_max
  /\ u.latency_hist = t.latency_hist
  /\ u.port_completed_count = t.port_completed_count
  /\ u.observed_reorder_count = t.observed_reorder_count
  /\ u.max_completed_admit_order = t.max_completed_admit_order
  /\ u.peak_depth = t.peak_depth
  /\ u.occupancy_hist = t.occupancy_hist

LEMMA EccNoted ==
  ASSUME Readable, NEW t \in Tele, NEW c \in Cmd, NEW fault
  PROVE  LET u == note_ecc(t, c, fault)
         IN /\ u \in Tele /\ Untouched(u, t) /\ u.data_bytes = t.data_bytes
            /\ u.ecc_uncorrectable_count = t.ecc_uncorrectable_count
                 + Reported(IF Response(c, fault) = "SLVERR" THEN 1 ELSE 0)
<1>1. Response(c, fault) = "SLVERR" <=>
        cfg.ecc_enable /\ c.op = "RD" /\ fault = "UNCORRECTABLE"
  BY DEF Response
<1>2. t.ecc_corrected_count \in Nat /\ t.ecc_uncorrectable_count \in Nat
  BY DEF Tele
<1>3. CASE ~(cfg.ecc_enable /\ cfg.perf_counters_enabled /\ c.op = "RD")
  BY <1>1, <1>2, <1>3 DEF note_ecc, Untouched, Reported
<1>4. CASE cfg.ecc_enable /\ cfg.perf_counters_enabled /\ c.op = "RD"
  <2> DEFINE n == IF fault = "CORRECTABLE" THEN t.ecc_corrected_count + 1
                  ELSE t.ecc_corrected_count
             m == IF fault = "UNCORRECTABLE" THEN t.ecc_uncorrectable_count + 1
                  ELSE t.ecc_uncorrectable_count
             u == [t EXCEPT !.ecc_corrected_count = n,
                            !.ecc_uncorrectable_count = m]
  <2>1. note_ecc(t, c, fault) = u BY <1>4, Zenon DEF note_ecc
  <2>2. n \in Nat /\ m \in Nat BY <1>2
  <2>3. m = t.ecc_uncorrectable_count
              + Reported(IF Response(c, fault) = "SLVERR" THEN 1 ELSE 0)
    BY <1>1, <1>2, <1>4 DEF Reported
  <2> HIDE DEF n, m
  <2>4. /\ u \in Tele /\ Untouched(u, t) /\ u.data_bytes = t.data_bytes
        /\ u.ecc_uncorrectable_count = m
    BY <2>2 DEF Tele, Untouched
  <2> QED BY <2>1, <2>3, <2>4
<1> QED BY <1>3, <1>4

LEMMA PredictionNoted ==
  ASSUME Readable, NEW t \in Tele, NEW tg, NEW first \in Nat, NEW last \in Nat
  PROVE  LET u == note_prediction(t, tg, first, last)
         IN /\ u \in Tele /\ Untouched(u, t)
            /\ u.data_bytes = t.data_bytes + Reported(1)
            /\ u.ecc_uncorrectable_count = t.ecc_uncorrectable_count
<1>1. /\ t.data_bytes \in Nat /\ t.busy_time \in Nat
      /\ t.first_data \in Int /\ t.last_burst_end \in Int
      /\ t.predict_error \in Int /\ t.predict_samples \in Nat
  BY DEF Tele
<1>2. CASE ~cfg.perf_counters_enabled
  BY <1>1, <1>2 DEF note_prediction, Untouched, Reported
<1>3. CASE cfg.perf_counters_enabled
  <2> DEFINE end == last + TBL
             data == t.data_bytes + 1
             busy == t.busy_time + NonNegative(end - first)
             begin == IF ~t.window_valid \/ first < t.first_data THEN first
                      ELSE t.first_data
             stop == IF ~t.window_valid \/ end > t.last_burst_end THEN end
                     ELSE t.last_burst_end
             t1 == [t EXCEPT !.data_bytes = data, !.busy_time = busy,
                             !.first_data = begin, !.last_burst_end = stop,
                             !.window_valid = TRUE]
             p == CHOOSE q \in Predicted(tg) : TRUE
             error == t1.predict_error + Distance(last, p[2])
             samples == t1.predict_samples + 1
             t2 == [t1 EXCEPT !.predict_error = error,
                              !.predict_samples = samples]
  <2>1. note_prediction(t, tg, first, last) =
          IF Predicted(tg) = {} THEN t1 ELSE t2
    BY <1>3, Zenon DEF note_prediction
  <2>2. end \in Nat /\ data \in Nat /\ busy \in Nat /\ begin \in Int /\ stop \in Int
    BY <1>1, TelemetryAssumption DEF NonNegative
  <2> HIDE DEF end, data, busy, begin, stop
  <2>3. /\ t1 \in Tele /\ Untouched(t1, t) /\ t1.data_bytes = data
        /\ t1.ecc_uncorrectable_count = t.ecc_uncorrectable_count
        /\ t1.predict_error = t.predict_error
        /\ t1.predict_samples = t.predict_samples
    BY <2>2 DEF Tele, Untouched
  <2> HIDE DEF t1
  <2>4. ASSUME Predicted(tg) # {}
        PROVE  /\ t2 \in Tele /\ Untouched(t2, t1) /\ t2.data_bytes = t1.data_bytes
               /\ t2.ecc_uncorrectable_count = t1.ecc_uncorrectable_count
    <3>1. p \in Predicted(tg) BY <2>4
    <3>2. p[2] \in Nat BY <3>1 DEF Predicted, Readable
    <3>3. error \in Int /\ samples \in Nat BY <1>1, <2>3, <3>2 DEF Distance
    <3> HIDE DEF error, samples
    <3> QED BY <2>3, <3>3 DEF Tele, Untouched
  <2> HIDE DEF t2
  <2>5. data = t.data_bytes + Reported(1) BY <1>3 DEF data, Reported
  <2>6. CASE Predicted(tg) = {} BY <2>1, <2>3, <2>5, <2>6
  <2>7. CASE Predicted(tg) # {}
    <3>1. Untouched(t2, t) BY <2>3, <2>4, <2>7 DEF Untouched
    <3> QED BY <2>1, <2>3, <2>4, <2>5, <2>7, <3>1
  <2> QED BY <2>6, <2>7
<1> QED BY <1>2, <1>3

(* A command and the writes merged into it are noted, each once.           *)
LEMMA GroupNoted ==
  ASSUME Readable, NEW t \in Tele, NEW c \in Cmd, NEW last \in Nat,
         merged_writes[c] \in SUBSET Cmd, IsFiniteSet(merged_writes[c]),
         c \notin merged_writes[c]
  PROVE  LET u == note_group(t, c, last)
         IN /\ AllNoted(u, t, Group(c))
            /\ merged_writes[c] = {} =>
                 u = note_completion_observability(t, c, last)
<1> DEFINE v == note_completion_observability(t, c, last)
<1>1. v \in Tele BY NoteCompletion
<1>2. AllNoted(v, t, {c})
  <2>1. AllNoted(v, t, {} \cup {c})
    BY NoneNoted, NoteOneMore, FS_EmptySet
  <2>2. {} \cup {c} = {c} OBVIOUS
  <2> QED BY <2>1, <2>2
<1>3. note_group(t, c, last) = NoteAll(v, last, merged_writes[c])
  BY Zenon DEF note_group, NoteAll
<1> HIDE DEF v
<1>4. IsFiniteSet({c}) /\ {c} \in SUBSET Cmd /\ {c} \cap merged_writes[c] = {}
  BY FS_Singleton
<1>5. AllNoted(NoteAll(v, last, merged_writes[c]), t, {c} \cup merged_writes[c])
  BY <1>1, <1>2, <1>4, NoteAllCounts
<1>6. ASSUME merged_writes[c] = {} PROVE NoteAll(v, last, merged_writes[c]) = v
  <2>1. PICK it : /\ IsNoted(it, v, last, merged_writes[c])
                  /\ NoteAll(v, last, merged_writes[c]) = it[merged_writes[c]]
    BY <1>1, NoteAllIsRecursive
  <2> QED BY <1>6, <2>1 DEF IsNoted
<1> QED BY <1>3, <1>5, <1>6 DEF Group, v

(* What the answer of a command leaves behind.                             *)
Answered(u, t, c, last, resp) ==
  /\ u.completed_cmd_count = t.completed_cmd_count + Cardinality(Group(c))
  /\ u.latency_samples = t.latency_samples + Reported(Cardinality(Group(c)))
  /\ Sum(u.latency_hist, Buckets) =
       Sum(t.latency_hist, Buckets) + Reported(Cardinality(Group(c)))
  /\ \A p \in Port : u.port_completed_count[p] =
       t.port_completed_count[p] + Reported(Cardinality(OfPort(Group(c), p)))
  /\ u.data_bytes = t.data_bytes + Reported(IF resp # "local" THEN 1 ELSE 0)
  /\ u.ecc_uncorrectable_count = t.ecc_uncorrectable_count
       + Reported(IF resp = "SLVERR" THEN 1 ELSE 0)
  /\ merged_writes[c] = {} =>
       IF cfg.perf_counters_enabled
       THEN Noted(u, t, c, NonNegative(last - admit_time[c]))
       ELSE /\ u.observed_reorder_count = t.observed_reorder_count
            /\ u.max_completed_admit_order = t.max_completed_admit_order
            /\ u.latency_min = t.latency_min /\ u.latency_max = t.latency_max

LEMMA AnswerNoted ==
  ASSUME Readable, NEW t \in Tele, NEW c \in Cmd, NEW tg, NEW fault,
         NEW first \in Nat, NEW last \in Nat,
         merged_writes[c] \in SUBSET Cmd, IsFiniteSet(merged_writes[c]),
         c \notin merged_writes[c]
  PROVE  LET u == note_rsp(t, c, tg, first, last, fault)
         IN /\ u \in Tele /\ Answered(u, t, c, last, Response(c, fault))
            /\ u.peak_depth = t.peak_depth
            /\ u.occupancy_hist = t.occupancy_hist
<1> DEFINE seen == t.observed_rsp_count + 1
           count == t.completed_cmd_count + 1 + Cardinality(merged_writes[c])
           t1 == [t EXCEPT !.observed_rsp_count = seen,
                           !.completed_cmd_count = count]
           t2 == note_ecc(t1, c, fault)
           t3 == note_prediction(t2, tg, first, last)
           u == note_group(t3, c, last)
           lat == NonNegative(last - admit_time[c])
<1>1. note_rsp(t, c, tg, first, last, fault) = u BY Zenon DEF note_rsp
<1>2. /\ Cardinality(merged_writes[c]) \in Nat
      /\ t.observed_rsp_count \in Nat /\ t.completed_cmd_count \in Nat
  BY FS_CardinalityType DEF Tele
<1>3. count = t.completed_cmd_count + Cardinality(Group(c))
  <2>1. Group(c) = merged_writes[c] \cup {c} BY DEF Group
  <2>2. Cardinality(Group(c)) = Cardinality(merged_writes[c]) + 1
    BY <2>1, FS_AddElement
  <2> QED BY <1>2, <2>2
<1>4. seen \in Nat /\ count \in Nat BY <1>2
<1> HIDE DEF seen, count
<1>5. /\ t1 \in Tele /\ t1.completed_cmd_count = count
      /\ t1.latency_samples = t.latency_samples
      /\ t1.latency_min = t.latency_min /\ t1.latency_max = t.latency_max
      /\ t1.latency_hist = t.latency_hist
      /\ t1.port_completed_count = t.port_completed_count
      /\ t1.observed_reorder_count = t.observed_reorder_count
      /\ t1.max_completed_admit_order = t.max_completed_admit_order
      /\ t1.peak_depth = t.peak_depth /\ t1.occupancy_hist = t.occupancy_hist
      /\ t1.data_bytes = t.data_bytes
      /\ t1.ecc_uncorrectable_count = t.ecc_uncorrectable_count
  BY <1>4 DEF Tele
<1> HIDE DEF t1
<1>6. /\ t2 \in Tele /\ Untouched(t2, t1) /\ t2.data_bytes = t1.data_bytes
      /\ t2.ecc_uncorrectable_count = t1.ecc_uncorrectable_count
           + Reported(IF Response(c, fault) = "SLVERR" THEN 1 ELSE 0)
  BY <1>5, EccNoted
<1> HIDE DEF t2
<1>7. /\ t3 \in Tele /\ Untouched(t3, t2)
      /\ t3.data_bytes = t2.data_bytes + Reported(1)
      /\ t3.ecc_uncorrectable_count = t2.ecc_uncorrectable_count
  BY <1>6, PredictionNoted
<1> HIDE DEF t3
<1>8. /\ AllNoted(u, t3, Group(c))
      /\ merged_writes[c] = {} =>
           u = note_completion_observability(t3, c, last)
  BY <1>7, GroupNoted
<1>9. merged_writes[c] = {} =>
        /\ ~cfg.perf_counters_enabled => u = t3
        /\ cfg.perf_counters_enabled => Noted(u, t3, c, lat)
  BY <1>7, <1>8, NoteCompletion
<1> HIDE DEF u, lat
<1>10. merged_writes[c] = {} =>
         IF cfg.perf_counters_enabled THEN Noted(u, t, c, lat)
         ELSE /\ u.observed_reorder_count = t.observed_reorder_count
              /\ u.max_completed_admit_order = t.max_completed_admit_order
              /\ u.latency_min = t.latency_min /\ u.latency_max = t.latency_max
  <2>1. /\ t3.latency_samples = t.latency_samples
        /\ t3.latency_min = t.latency_min /\ t3.latency_max = t.latency_max
        /\ t3.latency_hist = t.latency_hist
        /\ t3.port_completed_count = t.port_completed_count
        /\ t3.observed_reorder_count = t.observed_reorder_count
        /\ t3.max_completed_admit_order = t.max_completed_admit_order
    BY <1>5, <1>6, <1>7 DEF Untouched
  <2> QED BY <1>9, <2>1 DEF Noted
<1>11. Response(c, fault) # "local" BY DEF Response
<1>12. /\ u \in Tele
       /\ u.completed_cmd_count = count
       /\ u.latency_samples = t.latency_samples + Reported(Cardinality(Group(c)))
       /\ Sum(u.latency_hist, Buckets) =
            Sum(t.latency_hist, Buckets) + Reported(Cardinality(Group(c)))
       /\ \A p \in Port : u.port_completed_count[p] =
            t.port_completed_count[p] + Reported(Cardinality(OfPort(Group(c), p)))
       /\ u.peak_depth = t.peak_depth /\ u.occupancy_hist = t.occupancy_hist
       /\ u.data_bytes = t.data_bytes + Reported(1)
       /\ u.ecc_uncorrectable_count = t.ecc_uncorrectable_count
            + Reported(IF Response(c, fault) = "SLVERR" THEN 1 ELSE 0)
  BY <1>5, <1>6, <1>7, <1>8 DEF Untouched, AllNoted, Kept
<1> QED BY <1>1, <1>3, <1>10, <1>11, <1>12 DEF Answered, lat

(* What a note that no answer is about leaves alone.                       *)
SameAnswers(u, t) ==
  /\ u.completed_cmd_count = t.completed_cmd_count
  /\ u.latency_samples = t.latency_samples
  /\ u.latency_min = t.latency_min /\ u.latency_max = t.latency_max
  /\ u.latency_hist = t.latency_hist
  /\ u.port_completed_count = t.port_completed_count
  /\ u.observed_reorder_count = t.observed_reorder_count
  /\ u.max_completed_admit_order = t.max_completed_admit_order
  /\ u.data_bytes = t.data_bytes
  /\ u.ecc_uncorrectable_count = t.ecc_uncorrectable_count

LEMMA OccupancyNoted ==
  ASSUME cfg.perf_counters_enabled \in BOOLEAN, NEW t \in Tele, NEW d \in Depth
  PROVE  LET u == record_occupancy(t, d)
         IN /\ u \in Tele /\ SameAnswers(u, t) /\ u.peak_depth = t.peak_depth
            /\ u.occupancy_hist =
                 IF cfg.perf_counters_enabled
                 THEN [t.occupancy_hist EXCEPT ![d] = @ + 1]
                 ELSE t.occupancy_hist
<1>1. CASE ~cfg.perf_counters_enabled
  BY <1>1 DEF record_occupancy, SameAnswers
<1>2. CASE cfg.perf_counters_enabled
  <2> DEFINE hist == [t.occupancy_hist EXCEPT ![d] = @ + 1]
             samples == t.occupancy_samples + 1
             u == [t EXCEPT !.occupancy_hist = hist, !.occupancy_samples = samples]
  <2>1. hist \in [Depth -> Nat] /\ samples \in Nat BY DEF Tele
  <2>2. record_occupancy(t, d) = u BY <1>2 DEF record_occupancy, Tele
  <2> HIDE DEF hist, samples
  <2>3. /\ u \in Tele /\ SameAnswers(u, t) /\ u.peak_depth = t.peak_depth
        /\ u.occupancy_hist = hist
    BY <2>1 DEF Tele, SameAnswers
  <2> QED BY <1>2, <2>2, <2>3 DEF hist
<1> QED BY <1>1, <1>2

LEMMA AdmissionNoted ==
  ASSUME cfg.perf_counters_enabled \in BOOLEAN, NEW t \in Tele,
         Cardinality(queued) + 1 \in Depth
  PROVE  LET u == note_admit(t)
             depth == Cardinality(queued) + 1
         IN /\ u \in Tele /\ SameAnswers(u, t)
            /\ u.peak_depth = IF depth > t.peak_depth THEN depth ELSE t.peak_depth
            /\ u.occupancy_hist =
                 IF cfg.perf_counters_enabled
                 THEN [t.occupancy_hist EXCEPT ![depth] = @ + 1]
                 ELSE t.occupancy_hist
<1> DEFINE depth == Cardinality(queued) + 1
           peak == IF depth > t.peak_depth THEN depth ELSE t.peak_depth
           t1 == [t EXCEPT !.peak_depth = peak]
<1>1. note_admit(t) = record_occupancy(t1, depth) BY Zenon DEF note_admit
<1>2. peak \in Depth BY DEF Tele
<1> HIDE DEF depth, peak
<1>3. /\ t1 \in Tele /\ SameAnswers(t1, t) /\ t1.peak_depth = peak
      /\ t1.occupancy_hist = t.occupancy_hist
  BY <1>2 DEF Tele, SameAnswers
<1> HIDE DEF t1
<1>4. LET u == record_occupancy(t1, depth)
      IN /\ u \in Tele /\ SameAnswers(u, t1) /\ u.peak_depth = t1.peak_depth
         /\ u.occupancy_hist =
              IF cfg.perf_counters_enabled
              THEN [t1.occupancy_hist EXCEPT ![depth] = @ + 1]
              ELSE t1.occupancy_hist
  BY <1>3, OccupancyNoted DEF depth
<1>5. SameAnswers(record_occupancy(t1, depth), t)
  BY <1>3, <1>4 DEF SameAnswers
<1> QED BY <1>1, <1>3, <1>4, <1>5 DEF depth, peak

(* A pre-resolved command is answered as it is taken from the queue.       *)
LEMMA LocalNoted ==
  ASSUME Readable, NEW t \in Tele, NEW c \in Cmd, NEW last \in Nat,
         merged_writes[c] = {}
  PROVE  LET u == note_completion_observability(
                    [t EXCEPT !.completed_cmd_count = @ + 1], c, last)
         IN /\ u \in Tele /\ Answered(u, t, c, last, "local")
            /\ u.peak_depth = t.peak_depth
            /\ u.occupancy_hist = t.occupancy_hist
<1> DEFINE count == t.completed_cmd_count + 1
           t1 == [t EXCEPT !.completed_cmd_count = count]
           u == note_completion_observability(t1, c, last)
           lat == NonNegative(last - admit_time[c])
<1>1. count \in Nat /\ t.data_bytes \in Nat /\ t.ecc_uncorrectable_count \in Nat
  BY DEF Tele
<1> HIDE DEF count
<1>2. /\ t1 \in Tele /\ t1.completed_cmd_count = count
      /\ t1.latency_samples = t.latency_samples
      /\ t1.latency_min = t.latency_min /\ t1.latency_max = t.latency_max
      /\ t1.latency_hist = t.latency_hist
      /\ t1.port_completed_count = t.port_completed_count
      /\ t1.observed_reorder_count = t.observed_reorder_count
      /\ t1.max_completed_admit_order = t.max_completed_admit_order
      /\ t1.peak_depth = t.peak_depth /\ t1.occupancy_hist = t.occupancy_hist
      /\ t1.data_bytes = t.data_bytes
      /\ t1.ecc_uncorrectable_count = t.ecc_uncorrectable_count
  BY <1>1 DEF Tele
<1> HIDE DEF t1
<1>3. Group(c) = {c} /\ Cardinality(Group(c)) = 1 /\ {} \cup {c} = {c}
  BY FS_Singleton DEF Group
<1>4. AllNoted(u, t1, {} \cup {c})
  BY <1>2, NoneNoted, NoteOneMore, FS_EmptySet
<1>5. AllNoted(u, t1, Group(c)) BY <1>3, <1>4
<1>6. /\ ~cfg.perf_counters_enabled => u = t1
      /\ cfg.perf_counters_enabled => Noted(u, t1, c, lat)
  BY <1>2, NoteCompletion
<1> HIDE DEF u, lat
<1>7. IF cfg.perf_counters_enabled THEN Noted(u, t, c, lat)
      ELSE /\ u.observed_reorder_count = t.observed_reorder_count
           /\ u.max_completed_admit_order = t.max_completed_admit_order
           /\ u.latency_min = t.latency_min /\ u.latency_max = t.latency_max
  BY <1>2, <1>6 DEF Noted
<1>8. Reported(0) = 0 BY DEF Reported
<1>9. Answered(u, t, c, last, "local")
  <2>1. u.completed_cmd_count = t.completed_cmd_count + Cardinality(Group(c))
    BY <1>2, <1>3, <1>5 DEF AllNoted, Kept, count
  <2>2. /\ u.latency_samples = t.latency_samples + Reported(Cardinality(Group(c)))
        /\ Sum(u.latency_hist, Buckets) =
             Sum(t.latency_hist, Buckets) + Reported(Cardinality(Group(c)))
        /\ \A p \in Port : u.port_completed_count[p] =
             t.port_completed_count[p] + Reported(Cardinality(OfPort(Group(c), p)))
    BY <1>2, <1>5 DEF AllNoted
  <2>3. /\ u.data_bytes = t.data_bytes + Reported(0)
        /\ u.ecc_uncorrectable_count = t.ecc_uncorrectable_count + Reported(0)
    BY <1>1, <1>2, <1>5, <1>8 DEF AllNoted, Kept
  <2> QED BY <1>7, <2>1, <2>2, <2>3 DEF Answered, lat
<1>10. u \in Tele /\ u.peak_depth = t.peak_depth /\ u.occupancy_hist = t.occupancy_hist
  BY <1>2, <1>5 DEF AllNoted, Kept
<1> QED BY <1>9, <1>10 DEF u, t1, count

(***************************************************************************)
(* The inductive invariant                                                 *)
(***************************************************************************)
Resp == {"OKAY", "EXOKAY", "SLVERR", "local"}
Done == [cmd : Cmd, group : SUBSET Cmd, last : Nat, resp : Resp]

CounterTypes ==
  /\ Readable
  /\ tele \in Tele
  /\ done \in Seq(Done)
  /\ \A c \in Cmd : accepted[c] <= now

(* What was answered in this epoch was accepted and is not pending; a      *)
(* pre-resolved command absorbs no write, and no command itself.           *)
EpochInv ==
  /\ \A c \in Cmd : c \notin merged_writes[c] /\ (c.pre => merged_writes[c] = {})
  /\ \A i \in DOMAIN done : done[i].cmd \in done[i].group
  /\ \A c \in Completed : arrival[c] # 0 /\ \A p \in Pending : c \notin Group(p)

(* No queue of this epoch was deeper than the peak, whose bucket counted.  *)
PeakInv ==
  /\ Cardinality(queued) <= tele.peak_depth
  /\ cfg.perf_counters_enabled =>
       /\ \A d \in Depth : tele.occupancy_hist[d] > 0 => d <= tele.peak_depth
       /\ tele.peak_depth > 0 => tele.occupancy_hist[tele.peak_depth] > 0

(* Without merged writes, commands are admitted as they are accepted.      *)
AdmittedAsAccepted ==
  NoneMerged =>
    /\ next_admit_order = arrivals + 1
    /\ \A c \in Cmd : admit_order[c] = arrival[c] /\ admit_time[c] = accepted[c]
    /\ \A i \in DOMAIN done : done[i].group = {done[i].cmd}

(* Then the newest order noted is that of the newest command answered.     *)
NewestNoted ==
  NoneMerged /\ cfg.perf_counters_enabled =>
    /\ \A i \in DOMAIN done :
         arrival[done[i].cmd] <= tele.max_completed_admit_order
    /\ tele.max_completed_admit_order # 0 =>
         \E i \in DOMAIN done :
           arrival[done[i].cmd] = tele.max_completed_admit_order

(* Then the latencies noted are those of commands answered, and no other   *)
(* is smaller, or larger.                                                  *)
ExtremesNoted ==
  NoneMerged /\ cfg.perf_counters_enabled /\ done # <<>> =>
    /\ tele.latency_min \in Latencies /\ tele.latency_max \in Latencies
    /\ \A x \in Latencies : tele.latency_min <= x /\ x <= tele.latency_max

TeleInv ==
  /\ IInv /\ CounterTypes
  /\ EpochInv /\ CountsAgree
  /\ PeakInv
  /\ AdmittedAsAccepted /\ NewestNoted /\ ReorderExact /\ ExtremesNoted

(* What follows from the invariant at once.                                *)
LEMMA GroupTypes ==
  ASSUME IInv, NEW p \in Cmd
  PROVE  /\ merged_writes[p] \in SUBSET Cmd /\ IsFiniteSet(merged_writes[p])
         /\ Group(p) \in SUBSET Cmd /\ IsFiniteSet(Group(p))
         /\ Cardinality(Group(p)) \in Nat
<1>1. merged_writes[p] \in SUBSET Cmd BY DEF IInv, TypeOK
<1>2. Group(p) \in SUBSET Cmd BY <1>1 DEF Group
<1>3. IsFiniteSet(Group(p)) BY <1>2, FS_Subset, TelemetryAssumption
<1>4. IsFiniteSet(merged_writes[p]) BY <1>1, FS_Subset, TelemetryAssumption
<1> QED BY <1>1, <1>2, <1>3, <1>4, FS_CardinalityType

LEMMA GroupsApart ==
  ASSUME IInv, NEW p \in Pending, NEW q \in Pending, p # q
  PROVE  Group(p) \cap Group(q) = {}
<1>1. p \in Cmd /\ q \in Cmd BY DEF IInv, TypeOK, Pending
<1>2. admit_order[p] # admit_order[q] /\ admit_order \in [Cmd -> Nat]
  BY <1>1 DEF IInv, OrdersFresh, TypeOK
<1>3. SUFFICES ASSUME NEW c \in Group(p), c \in Group(q) PROVE FALSE
  OBVIOUS
<1>4. c \in Cmd BY <1>1, GroupTypes
<1>5. stream_key(p) = stream_key(q) BY <1>3 DEF IInv, GroupsOrdered
<1>6. arrival[c] < arrival[c]
  BY <1>1, <1>2, <1>3, <1>5 DEF IInv, GroupsOrdered
<1>7. arrival[c] \in Nat BY <1>4 DEF IInv, TypeOK
<1> QED BY <1>6, <1>7

LEMMA CompletedTypes ==
  ASSUME done \in Seq(Done)
  PROVE  /\ Completed \in SUBSET Cmd /\ IsFiniteSet(Completed)
         /\ Cardinality(Completed) \in Nat
         /\ DOMAIN done = 1 .. Len(done) /\ Len(done) \in Nat
         /\ \A i \in DOMAIN done : done[i] \in Done
<1>1. DOMAIN done = 1 .. Len(done) /\ Len(done) \in Nat OBVIOUS
<1>2. \A i \in DOMAIN done : done[i] \in Done OBVIOUS
<1>3. Completed \in SUBSET Cmd BY <1>2 DEF Completed, Done
<1>4. IsFiniteSet(Completed) BY <1>3, FS_Subset, TelemetryAssumption
<1> QED BY <1>1, <1>2, <1>3, <1>4, FS_CardinalityType

(***************************************************************************)
(* Completions                                                             *)
(***************************************************************************)
CompletionStep(c, last, resp) ==
  /\ c \in Pending /\ last \in Nat /\ accepted[c] <= last /\ resp \in Resp
  /\ Pending' = Pending \ {c}
  /\ UNCHANGED <<cfg, admit_time, accepted, admit_order, next_admit_order,
                 merged_writes, arrival, arrivals>>
  /\ done' = Append(done, Completion(c, last, resp))
  /\ Answered(tele', tele, c, last, resp) /\ tele' \in Tele

LEMMA DoneGrows ==
  ASSUME IInv, done \in Seq(Done), NEW c, NEW last, NEW resp,
         CompletionStep(c, last, resp)
  PROVE  LET n == Len(done) + 1
         IN /\ done' \in Seq(Done) /\ done' # <<>>
            /\ DOMAIN done' = DOMAIN done \cup {n} /\ n \notin DOMAIN done
            /\ \A i \in DOMAIN done : i < n /\ done'[i] = done[i]
            /\ done'[n] = Completion(c, last, resp)
            /\ Completed' = Completed \cup Group(c)
<1> DEFINE e == Completion(c, last, resp)
           n == Len(done) + 1
<1>1. c \in Cmd BY DEF IInv, TypeOK, Pending, CompletionStep
<1>2. e \in Done BY <1>1, GroupTypes DEF Completion, Done, CompletionStep
<1>3. done' = Append(done, e) BY DEF CompletionStep
<1>4. e.group = Group(c) BY DEF Completion
<1> HIDE DEF e
<1>5. done' \in Seq(Done) /\ done' # <<>> BY <1>2, <1>3
<1>6. DOMAIN done' = DOMAIN done \cup {n} /\ n \notin DOMAIN done
  BY <1>2, <1>3
<1>7. \A i \in DOMAIN done : i < n /\ done'[i] = done[i] BY <1>2, <1>3
<1>8. done'[n] = e BY <1>2, <1>3
<1>9. Completed' = Completed \cup Group(c)
  <2>1. Completed' = UNION {done'[i].group : i \in DOMAIN done'} BY DEF Completed
  <2> HIDE DEF n
  <2> QED BY <2>1, <1>4, <1>6, <1>7, <1>8 DEF Completed
<1> QED BY <1>5, <1>6, <1>7, <1>8, <1>9 DEF e

LEMMA EpochStep ==
  ASSUME IInv, EpochInv, done \in Seq(Done), NEW c, NEW last, NEW resp,
         CompletionStep(c, last, resp)
  PROVE  /\ EpochInv'
         /\ Completed \cap Group(c) = {}
<1>1. c \in Pending /\ c \in Cmd /\ Pending \subseteq Cmd
  BY DEF IInv, TypeOK, Pending, CompletionStep
<1>2. UNCHANGED <<merged_writes, arrival>> /\ Pending' = Pending \ {c}
  BY DEF CompletionStep
<1>3. \A p : Group(p)' = Group(p) BY <1>2 DEF Group
<1>4. \A d \in Group(c) : arrival[d] # 0
  <2> SUFFICES ASSUME NEW d \in Group(c) PROVE arrival[d] # 0 OBVIOUS
  <2>1. d \in Cmd BY <1>1, GroupTypes
  <2>2. arrival[c] # 0 /\ arrival[c] <= arrival[d]
    BY <1>1 DEF IInv, GroupsOrdered
  <2>3. arrival[c] \in Nat /\ arrival[d] \in Nat BY <1>1, <2>1 DEF IInv, TypeOK
  <2> QED BY <2>2, <2>3
<1>5. Completed \cap Group(c) = {} BY <1>1 DEF EpochInv
<1>6. \A i \in DOMAIN done' : done'[i].cmd \in done'[i].group
  <2> DEFINE n == Len(done) + 1
  <2>1. /\ DOMAIN done' = DOMAIN done \cup {n}
        /\ \A i \in DOMAIN done : done'[i] = done[i]
        /\ done'[n] = Completion(c, last, resp)
    BY DoneGrows
  <2>2. done'[n].cmd \in done'[n].group BY <2>1 DEF Completion, Group
  <2>3. \A i \in DOMAIN done : done'[i].cmd \in done'[i].group
    BY <2>1 DEF EpochInv
  <2> HIDE DEF n
  <2> QED BY <2>1, <2>2, <2>3
<1>7. Completed' = Completed \cup Group(c) BY DoneGrows
<1>8. \A d \in Completed' :
        arrival'[d] # 0 /\ \A p \in Pending' : d \notin Group(p)'
  <2> SUFFICES ASSUME NEW d \in Completed'
               PROVE  arrival[d] # 0 /\ \A p \in Pending \ {c} : d \notin Group(p)
    BY <1>2, <1>3
  <2>1. CASE d \in Completed BY <2>1 DEF EpochInv
  <2>2. CASE d \in Group(c) BY <1>1, <1>4, <2>2, GroupsApart
  <2> QED BY <1>7, <2>1, <2>2
<1> QED BY <1>2, <1>5, <1>6, <1>8 DEF EpochInv

(* Two disjoint sets of commands and their commands of one port.           *)
LEMMA CountsAdd ==
  ASSUME NEW S \in SUBSET Cmd, NEW T \in SUBSET Cmd, S \cap T = {}
  PROVE  /\ IsFiniteSet(S) /\ IsFiniteSet(T)
         /\ Cardinality(S) \in Nat /\ Cardinality(T) \in Nat
         /\ Cardinality(S \cup T) = Cardinality(S) + Cardinality(T)
<1>1. IsFiniteSet(S) /\ IsFiniteSet(T) BY FS_Subset, TelemetryAssumption
<1>2. Cardinality({}) = 0 BY FS_EmptySet
<1>3. Cardinality(S) \in Nat /\ Cardinality(T) \in Nat
  BY <1>1, FS_CardinalityType
<1>4. Cardinality(S \cup T) = Cardinality(S) + Cardinality(T) - Cardinality({})
  BY <1>1, FS_Union
<1> QED BY <1>1, <1>2, <1>3, <1>4

LEMMA PortsAdd ==
  ASSUME NEW S \in SUBSET Cmd, NEW T \in SUBSET Cmd, S \cap T = {}, NEW p
  PROVE  /\ Cardinality(OfPort(S, p)) \in Nat /\ Cardinality(OfPort(T, p)) \in Nat
         /\ Cardinality(OfPort(S \cup T, p)) =
              Cardinality(OfPort(S, p)) + Cardinality(OfPort(T, p))
<1> DEFINE A == OfPort(S, p)
           B == OfPort(T, p)
<1>1. OfPort(S \cup T, p) = A \cup B BY DEF OfPort
<1>2. A \in SUBSET Cmd /\ B \in SUBSET Cmd /\ A \cap B = {} BY DEF OfPort
<1> HIDE DEF A, B
<1>3. /\ Cardinality(A) \in Nat /\ Cardinality(B) \in Nat
      /\ Cardinality(A \cup B) = Cardinality(A) + Cardinality(B)
  BY <1>2, CountsAdd
<1> QED BY <1>1, <1>3, Zenon DEF A, B

(* The positions of a longer history that satisfy some condition.          *)
LEMMA OneIndexMore ==
  ASSUME NEW n \in Nat, NEW A \in SUBSET (1 .. n), NEW B, NEW b \in BOOLEAN,
         B = A \cup (IF b THEN {n + 1} ELSE {})
  PROVE  /\ Cardinality(A) \in Nat
         /\ Cardinality(B) = Cardinality(A) + (IF b THEN 1 ELSE 0)
<1>1. IsFiniteSet(1 .. n)
  <2>1. 1 \in Int /\ n \in Int OBVIOUS
  <2> QED BY <2>1, FS_Interval
<1>2. IsFiniteSet(A) /\ Cardinality(A) \in Nat
  BY <1>1, FS_Subset, FS_CardinalityType
<1>3. n + 1 \notin A OBVIOUS
<1>4. Cardinality(A \cup {n + 1}) = Cardinality(A) + 1 BY <1>2, <1>3, FS_AddElement
<1> QED BY <1>2, <1>4

Answers == {i \in DOMAIN done : done[i].resp # "local"}
Errors == {i \in Answers : done[i].resp = "SLVERR"}

(* The parts of CountsAgree.                                               *)
TotalAgrees == tele.completed_cmd_count = Cardinality(Completed)
SamplesAgree == tele.latency_samples = Reported(Cardinality(Completed))
HistogramAgrees ==
  MapThenSumSet(LAMBDA b : tele.latency_hist[b], DOMAIN tele.latency_hist) =
    Reported(Cardinality(Completed))
PortsAgree ==
  \A p \in Port : tele.port_completed_count[p] =
    Reported(Cardinality({d \in Completed : d.port = p}))
DataAgrees == tele.data_bytes = Reported(Cardinality(Answers))
ErrorsAgree ==
  tele.ecc_uncorrectable_count =
    Reported(Cardinality({i \in Answers : done[i].resp = "SLVERR"}))

PartsAgree ==
  /\ TotalAgrees /\ SamplesAgree /\ HistogramAgrees /\ PortsAgree
  /\ DataAgrees /\ ErrorsAgree

LEMMA CountsInParts ==
  (CountsAgree <=> PartsAgree) /\ (CountsAgree <=> PartsAgree)'
<1>1. CountsAgree <=> PartsAgree
  BY Zenon DEF CountsAgree, PartsAgree, TotalAgrees, SamplesAgree,
    HistogramAgrees, PortsAgree, DataAgrees, ErrorsAgree, Answers
<1>2. CountsAgree' <=> PartsAgree'
  BY Zenon DEF CountsAgree, PartsAgree, TotalAgrees, SamplesAgree,
    HistogramAgrees, PortsAgree, DataAgrees, ErrorsAgree, Answers
<1> QED BY <1>1, <1>2

LEMMA HistogramAgreesNext ==
  (Sum(tele.latency_hist, DOMAIN tele.latency_hist)
     = Reported(Cardinality(Completed)))' => HistogramAgrees'
BY Zenon DEF HistogramAgrees, Sum

LEMMA CountsStep ==
  ASSUME IInv, EpochInv, CounterTypes, CountsAgree,
         NEW c, NEW last, NEW resp, CompletionStep(c, last, resp)
  PROVE  CountsAgree'
<1> DEFINE n == Len(done) + 1
<1>1. c \in Cmd BY DEF IInv, TypeOK, Pending, CompletionStep
<1>2. /\ Completed \in SUBSET Cmd /\ Len(done) \in Nat
      /\ DOMAIN done = 1 .. Len(done)
  BY CompletedTypes DEF CounterTypes
<1>3. /\ DOMAIN done' = DOMAIN done \cup {n} /\ n \notin DOMAIN done
      /\ \A i \in DOMAIN done : done'[i] = done[i]
      /\ done'[n] = Completion(c, last, resp)
      /\ Completed' = Completed \cup Group(c)
  BY DoneGrows DEF CounterTypes
<1>4. Completed \cap Group(c) = {} BY EpochStep DEF CounterTypes
<1>5. Group(c) \in SUBSET Cmd BY <1>1, GroupTypes
<1>6. /\ Cardinality(Completed') = Cardinality(Completed) + Cardinality(Group(c))
      /\ Cardinality(Completed) \in Nat /\ Cardinality(Group(c)) \in Nat
  BY <1>2, <1>3, <1>4, <1>5, CountsAdd
<1>7. cfg' = cfg /\ Answered(tele', tele, c, last, resp) /\ tele' \in Tele /\ tele \in Tele
  BY DEF CompletionStep, CounterTypes
<1>8. /\ tele.latency_samples \in Nat /\ DOMAIN tele.latency_hist = Buckets
      /\ DOMAIN tele'.latency_hist = Buckets
  BY <1>7 DEF Tele
<1>9. /\ tele.completed_cmd_count = Cardinality(Completed)
      /\ tele.latency_samples = Reported(Cardinality(Completed))
      /\ Sum(tele.latency_hist, Buckets) = Reported(Cardinality(Completed))
      /\ \A p \in Port : tele.port_completed_count[p] =
           Reported(Cardinality(OfPort(Completed, p)))
      /\ tele.data_bytes = Reported(Cardinality(Answers))
      /\ tele.ecc_uncorrectable_count = Reported(Cardinality(Errors))
  BY <1>8, CountsInParts, Zenon DEF PartsAgree, TotalAgrees, SamplesAgree,
    HistogramAgrees, PortsAgree, DataAgrees, ErrorsAgree, Sum, OfPort, Errors
<1>10. Cardinality(Answers') =
         Cardinality(Answers) + (IF resp # "local" THEN 1 ELSE 0)
       /\ Cardinality(Answers) \in Nat
  <2>1. done'[n].resp = resp BY <1>3 DEF Completion
  <2>2. Answers' = Answers \cup (IF resp # "local" THEN {n} ELSE {})
    <3>1. Answers' = {i \in DOMAIN done' : done'[i].resp # "local"} BY DEF Answers
    <3> HIDE DEF n
    <3> QED BY <1>3, <2>1, <3>1 DEF Answers
  <2>3. Answers \in SUBSET (1 .. Len(done)) BY <1>2 DEF Answers
  <2> QED BY <1>2, <2>2, <2>3, OneIndexMore
<1>11. Cardinality(Errors') =
         Cardinality(Errors) + (IF resp = "SLVERR" THEN 1 ELSE 0)
       /\ Cardinality(Errors) \in Nat
  <2>1. done'[n].resp = resp BY <1>3 DEF Completion
  <2>2. Errors' = Errors \cup (IF resp = "SLVERR" THEN {n} ELSE {})
    <3>1. Errors' = {i \in DOMAIN done' : done'[i].resp = "SLVERR"}
      BY DEF Errors, Answers
    <3>2. Errors = {i \in DOMAIN done : done[i].resp = "SLVERR"}
      BY DEF Errors, Answers
    <3> HIDE DEF n
    <3> QED BY <1>3, <2>1, <3>1, <3>2
  <2>3. Errors \in SUBSET (1 .. Len(done)) BY <1>2 DEF Errors, Answers
  <2> QED BY <1>2, <2>2, <2>3, OneIndexMore
<1>12. tele'.completed_cmd_count = Cardinality(Completed')
  BY <1>6, <1>7, <1>9 DEF Answered
<1>13. /\ tele'.latency_samples = Reported(Cardinality(Completed))'
       /\ Sum(tele'.latency_hist, Buckets) = Reported(Cardinality(Completed))'
  BY <1>6, <1>7, <1>9 DEF Answered, Reported
<1>14. ASSUME NEW p \in Port
       PROVE  tele'.port_completed_count[p] =
                Reported(Cardinality(OfPort(Completed, p)))'
  <2> DEFINE S == Completed
             T == Group(c)
  <2>4. S \in SUBSET Cmd /\ T \in SUBSET Cmd /\ S \cap T = {}
    BY <1>2, <1>4, <1>5
  <2> HIDE DEF S, T
  <2>5. /\ Cardinality(OfPort(S, p)) \in Nat /\ Cardinality(OfPort(T, p)) \in Nat
        /\ Cardinality(OfPort(S \cup T, p)) =
             Cardinality(OfPort(S, p)) + Cardinality(OfPort(T, p))
    BY <2>4, PortsAdd
  <2>1. /\ Cardinality(OfPort(Completed \cup Group(c), p)) =
             Cardinality(OfPort(Completed, p)) + Cardinality(OfPort(Group(c), p))
        /\ Cardinality(OfPort(Completed, p)) \in Nat
        /\ Cardinality(OfPort(Group(c), p)) \in Nat
    BY <2>5, Zenon DEF S, T
  <2>2. tele'.port_completed_count[p] =
          Reported(Cardinality(OfPort(Completed, p)))
            + Reported(Cardinality(OfPort(Group(c), p)))
    BY <1>7, <1>9 DEF Answered
  <2>3. OfPort(Completed, p)' = OfPort(Completed \cup Group(c), p)
    BY <1>3 DEF OfPort
  <2> QED BY <1>7, <2>1, <2>2, <2>3 DEF Reported
<1>15. tele'.data_bytes = Reported(Cardinality(Answers))'
  BY <1>7, <1>9, <1>10 DEF Answered, Reported
<1>16. tele'.ecc_uncorrectable_count = Reported(Cardinality(Errors))'
  BY <1>7, <1>9, <1>11 DEF Answered, Reported
<1>17. TotalAgrees' BY <1>12, Zenon DEF TotalAgrees
<1>18. SamplesAgree' BY <1>13, Zenon DEF SamplesAgree
<1>19. HistogramAgrees'
  <2>1. (Sum(tele.latency_hist, DOMAIN tele.latency_hist)
           = Reported(Cardinality(Completed)))'
    BY <1>8, <1>13, Zenon
  <2> QED BY <2>1, HistogramAgreesNext, Zenon
<1>20. PortsAgree' BY <1>14, Zenon DEF PortsAgree, OfPort
<1>21. DataAgrees' BY <1>15, Zenon DEF DataAgrees
<1>22. ErrorsAgree' BY <1>16, Zenon DEF ErrorsAgree, Errors
<1> QED
  BY <1>17, <1>18, <1>19, <1>20, <1>21, <1>22, CountsInParts, Zenon
    DEF PartsAgree

(* A completion leaves the admissions alone.                               *)
LEMMA AdmittedStep ==
  ASSUME IInv, CounterTypes, AdmittedAsAccepted,
         NEW c, NEW last, NEW resp, CompletionStep(c, last, resp)
  PROVE  AdmittedAsAccepted'
<1> SUFFICES ASSUME NoneMerged'
             PROVE  /\ next_admit_order' = arrivals' + 1
                    /\ \A d \in Cmd : admit_order'[d] = arrival'[d]
                                      /\ admit_time'[d] = accepted'[d]
                    /\ \A i \in DOMAIN done' : done'[i].group = {done'[i].cmd}
  BY DEF AdmittedAsAccepted
<1> DEFINE n == Len(done) + 1
<1>1. c \in Cmd BY DEF IInv, TypeOK, Pending, CompletionStep
<1>2. UNCHANGED <<admit_time, accepted, admit_order, next_admit_order,
                  merged_writes, arrival, arrivals>>
  BY DEF CompletionStep
<1>3. NoneMerged BY <1>2 DEF NoneMerged
<1>4. /\ DOMAIN done' = DOMAIN done \cup {n}
      /\ \A i \in DOMAIN done : done'[i] = done[i]
      /\ done'[n] = Completion(c, last, resp)
  BY DoneGrows DEF CounterTypes
<1>5. Group(c) = {c} BY <1>1, <1>3 DEF NoneMerged, Group
<1>6. done'[n].group = {done'[n].cmd} BY <1>4, <1>5 DEF Completion
<1> HIDE DEF n
<1>7. \A i \in DOMAIN done' : done'[i].group = {done'[i].cmd}
  BY <1>3, <1>4, <1>6 DEF AdmittedAsAccepted
<1> QED BY <1>2, <1>3, <1>7 DEF AdmittedAsAccepted

(* With no write merged and the counters enabled, a completion notes the   *)
(* rank of its command's acceptance and its latency from then on.          *)
LEMMA AnswerAlone ==
  ASSUME IInv, CounterTypes, AdmittedAsAccepted, NoneMerged,
         cfg.perf_counters_enabled,
         NEW c, NEW last, NEW resp, CompletionStep(c, last, resp)
  PROVE  /\ c \in Cmd /\ arrival[c] \in Nat
         /\ last - accepted[c] \in Nat
         /\ tele.latency_samples \in Nat /\ tele.max_completed_admit_order \in Nat
         /\ tele.observed_reorder_count \in Nat
         /\ tele.latency_min \in Nat /\ tele.latency_max \in Nat
         /\ LET lat == last - accepted[c]
            IN /\ tele'.latency_min =
                    IF tele.latency_samples = 0 \/ lat < tele.latency_min
                    THEN lat ELSE tele.latency_min
               /\ tele'.latency_max =
                    IF tele.latency_samples = 0 \/ lat > tele.latency_max
                    THEN lat ELSE tele.latency_max
         /\ IF arrival[c] < tele.max_completed_admit_order
            THEN /\ tele'.observed_reorder_count = tele.observed_reorder_count + 1
                 /\ tele'.max_completed_admit_order = tele.max_completed_admit_order
            ELSE /\ tele'.observed_reorder_count = tele.observed_reorder_count
                 /\ tele'.max_completed_admit_order = arrival[c]
<1>1. c \in Cmd BY DEF IInv, TypeOK, Pending, CompletionStep
<1>2. /\ admit_order[c] = arrival[c] /\ admit_time[c] = accepted[c]
      /\ merged_writes[c] = {}
  BY <1>1 DEF AdmittedAsAccepted, NoneMerged
<1>3. arrival[c] \in Nat BY <1>1 DEF IInv, TypeOK
<1>4. last \in Nat /\ accepted[c] <= last /\ accepted[c] \in Nat
  BY <1>1 DEF CompletionStep, CounterTypes, Readable
<1>5. last - accepted[c] \in Nat BY <1>4
<1>6. NonNegative(last - admit_time[c]) = last - accepted[c]
  BY <1>2, <1>5 DEF NonNegative
<1>7. Noted(tele', tele, c, last - accepted[c])
  BY <1>2, <1>6, Zenon DEF CompletionStep, Answered
<1>8. /\ tele.latency_samples \in Nat /\ tele.max_completed_admit_order \in Nat
      /\ tele.observed_reorder_count \in Nat
      /\ tele.latency_min \in Nat /\ tele.latency_max \in Nat
  BY DEF CounterTypes, Tele
<1> QED BY <1>1, <1>2, <1>3, <1>5, <1>7, <1>8, Zenon DEF Noted

LEMMA NewestStep ==
  ASSUME IInv, CounterTypes, AdmittedAsAccepted, NewestNoted,
         NEW c, NEW last, NEW resp, CompletionStep(c, last, resp)
  PROVE  NewestNoted'
<1> DEFINE n == Len(done) + 1
           max == tele.max_completed_admit_order
           max1 == tele'.max_completed_admit_order
<1> SUFFICES ASSUME NoneMerged', cfg'.perf_counters_enabled
             PROVE  /\ \A i \in DOMAIN done' : arrival'[done'[i].cmd] <= max1
                    /\ max1 # 0 => \E i \in DOMAIN done' :
                                     arrival'[done'[i].cmd] = max1
  BY DEF NewestNoted
<1>1. UNCHANGED <<cfg, merged_writes, arrival>> BY DEF CompletionStep
<1>2. NoneMerged /\ cfg.perf_counters_enabled BY <1>1 DEF NoneMerged
<1>3. /\ DOMAIN done' = DOMAIN done \cup {n}
      /\ \A i \in DOMAIN done : done'[i] = done[i]
      /\ done'[n] = Completion(c, last, resp)
  BY DoneGrows DEF CounterTypes
<1>4. done'[n].cmd = c BY <1>3 DEF Completion
<1>5. /\ arrival[c] \in Nat /\ max \in Nat
      /\ max1 = IF arrival[c] < max THEN max ELSE arrival[c]
  BY <1>2, AnswerAlone
<1>6. /\ \A i \in DOMAIN done : arrival[done[i].cmd] <= max
      /\ max # 0 => \E i \in DOMAIN done : arrival[done[i].cmd] = max
  BY <1>2 DEF NewestNoted
<1>7. \A i \in DOMAIN done : arrival[done[i].cmd] \in Nat
  <2>1. \A i \in DOMAIN done : done[i].cmd \in Cmd
    BY CompletedTypes DEF CounterTypes, Done
  <2> QED BY <2>1 DEF IInv, TypeOK
<1> HIDE DEF n, max, max1
<1>8. \A i \in DOMAIN done' : arrival[done'[i].cmd] <= max1
  BY <1>3, <1>4, <1>5, <1>6, <1>7
<1>9. max1 # 0 => \E i \in DOMAIN done' : arrival[done'[i].cmd] = max1
  <2>1. CASE arrival[c] < max
    <3>1. max # 0 /\ max1 = max BY <1>5, <2>1
    <3>2. PICK i \in DOMAIN done : arrival[done[i].cmd] = max BY <1>6, <3>1
    <3> QED BY <1>3, <3>1, <3>2
  <2>2. CASE ~(arrival[c] < max) BY <1>3, <1>4, <1>5, <2>2
  <2> QED BY <2>1, <2>2
<1> QED BY <1>1, <1>8, <1>9

LateOnes == {i \in DOMAIN done : Late(i)}

LEMMA ReorderStep ==
  ASSUME IInv, CounterTypes, AdmittedAsAccepted, NewestNoted, ReorderExact,
         NEW c, NEW last, NEW resp, CompletionStep(c, last, resp)
  PROVE  ReorderExact'
<1> DEFINE n == Len(done) + 1
           max == tele.max_completed_admit_order
           late == arrival[c] < max
<1>1. UNCHANGED <<cfg, merged_writes, arrival>> BY DEF CompletionStep
<1>2. SUFFICES ASSUME NoneMerged
               PROVE  get_observed_reorder_count' =
                        Reported(Cardinality(LateOnes))'
  BY <1>1 DEF ReorderExact, NoneMerged, LateOnes
<1>3. CASE ~cfg.perf_counters_enabled
  BY <1>1, <1>3 DEF get_observed_reorder_count, Reported
<1>4. CASE cfg.perf_counters_enabled
  <2>1. /\ DOMAIN done' = DOMAIN done \cup {n} /\ n \notin DOMAIN done
        /\ \A i \in DOMAIN done : i < n /\ done'[i] = done[i]
        /\ done'[n] = Completion(c, last, resp)
    BY DoneGrows DEF CounterTypes
  <2>2. done'[n].cmd = c BY <2>1 DEF Completion
  <2>3. DOMAIN done = 1 .. Len(done) /\ Len(done) \in Nat
    BY CompletedTypes DEF CounterTypes
  <2>4. \A i \in DOMAIN done : arrival[done[i].cmd] \in Nat
    <3>1. \A i \in DOMAIN done : done[i].cmd \in Cmd
      BY CompletedTypes DEF CounterTypes, Done
    <3> QED BY <3>1 DEF IInv, TypeOK
  <2>5. /\ arrival[c] \in Nat /\ max \in Nat
        /\ tele.observed_reorder_count \in Nat
        /\ tele'.observed_reorder_count =
             tele.observed_reorder_count + (IF late THEN 1 ELSE 0)
    <3>1. /\ arrival[c] \in Nat /\ max \in Nat
          /\ tele.observed_reorder_count \in Nat
          /\ IF arrival[c] < max
             THEN tele'.observed_reorder_count = tele.observed_reorder_count + 1
             ELSE tele'.observed_reorder_count = tele.observed_reorder_count
      BY <1>2, <1>4, AnswerAlone
    <3> QED BY <3>1
  <2>6. late <=> \E j \in DOMAIN done : arrival[done[j].cmd] > arrival[c]
    <3>1. /\ \A i \in DOMAIN done : arrival[done[i].cmd] <= max
          /\ max # 0 => \E i \in DOMAIN done : arrival[done[i].cmd] = max
      BY <1>2, <1>4 DEF NewestNoted
    <3> HIDE DEF max
    <3> QED BY <2>4, <2>5, <3>1
  <2> HIDE DEF late, max
  <2>7. LateOnes' = LateOnes \cup (IF late THEN {n} ELSE {})
    <3>1. LateOnes' = {i \in DOMAIN done' :
                         \E j \in 1 .. i - 1 :
                           arrival[done'[j].cmd] > arrival[done'[i].cmd]}
      BY <1>1 DEF LateOnes, Late
    <3>2. \A i \in DOMAIN done : \A j \in 1 .. i - 1 : j \in DOMAIN done
      BY <2>3
    <3>3. 1 .. n - 1 = DOMAIN done BY <2>3
    <3> HIDE DEF n
    <3>4. \A i \in DOMAIN done :
            (\E j \in 1 .. i - 1 : arrival[done'[j].cmd] > arrival[done'[i].cmd])
              <=> Late(i)
      BY <2>1, <3>2 DEF Late
    <3>5. (\E j \in 1 .. n - 1 : arrival[done'[j].cmd] > arrival[done'[n].cmd])
            <=> late
      BY <2>1, <2>2, <2>6, <3>3
    <3> QED BY <2>1, <3>1, <3>4, <3>5 DEF LateOnes
  <2>8. LateOnes \in SUBSET (1 .. Len(done)) BY <2>3 DEF LateOnes
  <2>9. late \in BOOLEAN BY DEF late
  <2>10. /\ Cardinality(LateOnes) \in Nat
         /\ Cardinality(LateOnes') =
              Cardinality(LateOnes) + (IF late THEN 1 ELSE 0)
    BY <2>3, <2>7, <2>8, <2>9, OneIndexMore
  <2>11. tele.observed_reorder_count = Cardinality(LateOnes)
    BY <1>2, <1>4
      DEF ReorderExact, LateOnes, get_observed_reorder_count, Reported
  <2>12. tele'.observed_reorder_count = Cardinality(LateOnes')
    BY <2>5, <2>10, <2>11
  <2> QED BY <1>1, <1>4, <2>12 DEF get_observed_reorder_count, Reported
<1> QED BY <1>3, <1>4

(* The latencies of a longer history.                                      *)
LEMMA LatencyTypes ==
  ASSUME CounterTypes
  PROVE  /\ \A x \in Latencies : x \in Int
         /\ done = <<>> => Latencies = {}
<1>1. \A i \in DOMAIN done : done[i] \in Done
  BY CompletedTypes DEF CounterTypes
<1>2. \A i \in DOMAIN done : \A d \in done[i].group :
        done[i].last - accepted[d] \in Int
  <2> SUFFICES ASSUME NEW i \in DOMAIN done, NEW d \in done[i].group
               PROVE  done[i].last - accepted[d] \in Int
    OBVIOUS
  <2>1. done[i].last \in Nat /\ d \in Cmd BY <1>1 DEF Done
  <2>2. accepted[d] \in Nat BY <2>1 DEF CounterTypes, Readable
  <2> QED BY <2>1, <2>2
<1>3. done = <<>> => DOMAIN done = {} OBVIOUS
<1> QED BY <1>2, <1>3 DEF Latencies, LatenciesOf

LEMMA LatenciesGrow ==
  ASSUME IInv, CounterTypes, NoneMerged,
         NEW c \in Cmd, NEW last, NEW resp, CompletionStep(c, last, resp)
  PROVE  Latencies' = Latencies \cup {last - accepted[c]}
<1> DEFINE n == Len(done) + 1
<1>1. UNCHANGED accepted BY DEF CompletionStep
<1>2. /\ DOMAIN done' = DOMAIN done \cup {n}
      /\ \A i \in DOMAIN done : done'[i] = done[i]
      /\ done'[n] = Completion(c, last, resp)
  BY DoneGrows DEF CounterTypes
<1>3. done'[n].last = last /\ done'[n].group = {c}
  BY <1>2 DEF Completion, Group, NoneMerged
<1>4. Latencies' = UNION {{done'[i].last - accepted[d] : d \in done'[i].group} :
                            i \in DOMAIN done'}
  BY <1>1 DEF Latencies, LatenciesOf
<1> HIDE DEF n
<1>5. {done'[n].last - accepted[d] : d \in done'[n].group} = {last - accepted[c]}
  BY <1>3
<1>6. \A i \in DOMAIN done :
        {done'[i].last - accepted[d] : d \in done'[i].group} = LatenciesOf(i)
  BY <1>2 DEF LatenciesOf
<1> DEFINE L(i) == {done'[i].last - accepted[d] : d \in done'[i].group}
<1>7. Latencies' = UNION {L(i) : i \in DOMAIN done'} BY <1>4
<1>8. L(n) = {last - accepted[c]} /\ \A i \in DOMAIN done : L(i) = LatenciesOf(i)
  BY <1>5, <1>6
<1> HIDE DEF L
<1> QED BY <1>2, <1>7, <1>8 DEF Latencies

LEMMA ExtremesStep ==
  ASSUME IInv, CounterTypes, EpochInv, CountsAgree, AdmittedAsAccepted,
         ExtremesNoted,
         NEW c, NEW last, NEW resp, CompletionStep(c, last, resp)
  PROVE  ExtremesNoted'
<1> DEFINE lat == last - accepted[c]
           least == tele.latency_min
           most == tele.latency_max
           least1 == tele'.latency_min
           most1 == tele'.latency_max
<1> SUFFICES ASSUME NoneMerged', cfg'.perf_counters_enabled
             PROVE  /\ least1 \in Latencies' /\ most1 \in Latencies'
                    /\ \A x \in Latencies' : least1 <= x /\ x <= most1
  BY DEF ExtremesNoted
<1>1. NoneMerged /\ cfg.perf_counters_enabled
  BY DEF NoneMerged, CompletionStep
<1>2. /\ c \in Cmd /\ lat \in Nat /\ least \in Nat /\ most \in Nat
      /\ tele.latency_samples \in Nat
      /\ least1 = IF tele.latency_samples = 0 \/ lat < least THEN lat ELSE least
      /\ most1 = IF tele.latency_samples = 0 \/ lat > most THEN lat ELSE most
  BY <1>1, AnswerAlone
<1>3. Latencies' = Latencies \cup {lat} BY <1>1, <1>2, LatenciesGrow
<1>4. \A x \in Latencies : x \in Int BY LatencyTypes
<1>5. /\ tele.latency_samples = Cardinality(Completed)
      /\ IsFiniteSet(Completed)
  BY <1>1, CountsInParts, CompletedTypes
    DEF PartsAgree, SamplesAgree, Reported, CounterTypes
<1>6. CASE done = <<>>
  <2>1. Latencies = {} BY <1>6, LatencyTypes
  <2>2. Completed = {} BY <1>6 DEF Completed
  <2>3. tele.latency_samples = 0 BY <1>5, <2>2, FS_EmptySet
  <2> HIDE DEF lat, least, most, least1, most1
  <2> QED BY <1>2, <1>3, <2>1, <2>3
<1>7. CASE done # <<>>
  <2>1. /\ least \in Latencies /\ most \in Latencies
        /\ \A x \in Latencies : least <= x /\ x <= most
    BY <1>1, <1>7 DEF ExtremesNoted
  <2>2. 1 \in DOMAIN done BY <1>7 DEF CounterTypes
  <2>3. done[1].cmd \in Completed BY <2>2 DEF Completed, EpochInv
  <2>4. tele.latency_samples # 0 BY <1>5, <2>3, FS_EmptySet
  <2> HIDE DEF lat, least, most, least1, most1
  <2>5. /\ least1 = IF lat < least THEN lat ELSE least
        /\ most1 = IF lat > most THEN lat ELSE most
    BY <1>2, <2>4
  <2> QED BY <1>2, <1>3, <1>4, <2>1, <2>5
<1> QED BY <1>6, <1>7

LEMMA CompletionInv ==
  ASSUME TeleInv, NEW c, NEW last, NEW resp, CompletionStep(c, last, resp)
  PROVE  /\ EpochInv' /\ CountsAgree'
         /\ AdmittedAsAccepted' /\ NewestNoted' /\ ReorderExact'
         /\ ExtremesNoted'
<1>1. EpochInv' BY EpochStep DEF TeleInv, CounterTypes
<1>2. CountsAgree' BY CountsStep DEF TeleInv
<1>3. AdmittedAsAccepted' BY AdmittedStep DEF TeleInv
<1>4. NewestNoted' BY NewestStep DEF TeleInv
<1>5. ReorderExact' BY ReorderStep DEF TeleInv
<1>6. ExtremesNoted' BY ExtremesStep DEF TeleInv
<1> QED BY <1>1, <1>2, <1>3, <1>4, <1>5, <1>6

(***************************************************************************)
(* The other steps                                                         *)
(***************************************************************************)
QuietStep ==
  /\ UNCHANGED <<cfg, done>>
  /\ SameAnswers(tele', tele)
  /\ \A c \in Completed : arrival'[c] = arrival[c] /\ accepted'[c] = accepted[c]
  /\ NoneMerged' => NoneMerged

LEMMA QuietInv ==
  ASSUME TeleInv, QuietStep
  PROVE  CountsAgree' /\ NewestNoted' /\ ReorderExact' /\ ExtremesNoted'
<1>1. UNCHANGED <<cfg, done>> /\ (NoneMerged' => NoneMerged)
  BY DEF QuietStep
<1>2. SameAnswers(tele', tele) BY DEF QuietStep
<1>3. CountsAgree'
  <2>1. Completed' = Completed BY <1>1 DEF Completed
  <2>2. Answers' = Answers BY <1>1 DEF Answers
  <2>3. PartsAgree BY CountsInParts DEF TeleInv
  <2>4. Reported(Cardinality(Completed))' = Reported(Cardinality(Completed))
    BY <1>1, <2>1 DEF Reported
  <2>5. TotalAgrees' /\ SamplesAgree'
    BY <1>2, <2>1, <2>3, <2>4
      DEF SameAnswers, PartsAgree, TotalAgrees, SamplesAgree
  <2>6. HistogramAgrees'
    <3>1. Sum(tele.latency_hist, DOMAIN tele.latency_hist)
            = Reported(Cardinality(Completed))
      BY <2>3, Zenon DEF PartsAgree, HistogramAgrees, Sum
    <3>2. tele'.latency_hist = tele.latency_hist BY <1>2 DEF SameAnswers
    <3>3. (Sum(tele.latency_hist, DOMAIN tele.latency_hist)
             = Reported(Cardinality(Completed)))'
      BY <2>4, <3>1, <3>2, Zenon
    <3> QED BY <3>3, HistogramAgreesNext, Zenon
  <2>7. PortsAgree'
    <3>1. tele'.port_completed_count = tele.port_completed_count
      BY <1>2 DEF SameAnswers
    <3>2. \A p \in Port : Reported(Cardinality({d \in Completed : d.port = p}))'
            = Reported(Cardinality({d \in Completed : d.port = p}))
      BY <1>1, <2>1 DEF Reported
    <3> QED BY <2>3, <3>1, <3>2 DEF PartsAgree, PortsAgree
  <2>8. DataAgrees'
    <3>1. Reported(Cardinality(Answers))' = Reported(Cardinality(Answers))
      BY <1>1, <2>2 DEF Reported
    <3> QED BY <1>2, <2>3, <3>1 DEF SameAnswers, PartsAgree, DataAgrees
  <2>9. ErrorsAgree'
    <3>1. Errors' = Errors BY <1>1, <2>2 DEF Errors
    <3>2. Reported(Cardinality(Errors))' = Reported(Cardinality(Errors))
      BY <1>1, <3>1 DEF Reported
    <3> QED BY <1>2, <2>3, <3>2, Zenon
          DEF SameAnswers, PartsAgree, ErrorsAgree, Errors
  <2> QED BY <2>5, <2>6, <2>7, <2>8, <2>9, CountsInParts, Zenon DEF PartsAgree
<1>4. /\ \A i \in DOMAIN done : done[i].cmd \in Completed
      /\ \A i \in DOMAIN done : \A d \in done[i].group : d \in Completed
  BY DEF TeleInv, EpochInv, Completed
<1>5. \A i \in DOMAIN done : arrival'[done[i].cmd] = arrival[done[i].cmd]
  BY <1>4 DEF QuietStep
<1>6. NewestNoted' BY <1>1, <1>2, <1>5 DEF TeleInv, NewestNoted, SameAnswers
<1>7. ReorderExact'
  <2>1. \A i \in DOMAIN done : Late(i)' <=> Late(i)
    <3>1. DOMAIN done = 1 .. Len(done) /\ Len(done) \in Nat
      BY CompletedTypes DEF TeleInv, CounterTypes
    <3>2. \A i \in DOMAIN done : \A j \in 1 .. i - 1 : j \in DOMAIN done
      BY <3>1
    <3> QED BY <1>1, <1>5, <3>2 DEF Late
  <2>2. LateOnes' = LateOnes BY <1>1, <2>1 DEF LateOnes
  <2>3. Reported(Cardinality(LateOnes))' = Reported(Cardinality(LateOnes))
    BY <1>1, <2>2 DEF Reported
  <2>4. get_observed_reorder_count' = get_observed_reorder_count
    BY <1>1, <1>2 DEF SameAnswers, get_observed_reorder_count, Reported
  <2> QED BY <1>1, <2>3, <2>4, Zenon DEF TeleInv, ReorderExact, LateOnes
<1>8. ExtremesNoted'
  <2>1. \A i \in DOMAIN done : LatenciesOf(i)' = LatenciesOf(i)
    <3> SUFFICES ASSUME NEW i \in DOMAIN done
                 PROVE  {done[i].last - accepted'[d] : d \in done[i].group}
                          = {done[i].last - accepted[d] : d \in done[i].group}
      BY <1>1 DEF LatenciesOf
    <3>1. \A d \in done[i].group : accepted'[d] = accepted[d]
      BY <1>4 DEF QuietStep
    <3> QED BY <3>1
  <2>2. Latencies' = Latencies BY <1>1, <2>1 DEF Latencies
  <2> QED BY <1>1, <1>2, <2>2 DEF TeleInv, ExtremesNoted, SameAnswers
<1> QED BY <1>3, <1>6, <1>7, <1>8

(* One more queue depth noted, which may be the deepest so far.            *)
LEMMA PeakNoted ==
  ASSUME PeakInv, tele \in Tele, tele' \in Tele, cfg' = cfg,
         NEW d \in Depth, d <= tele'.peak_depth,
         tele'.peak_depth = tele.peak_depth
           \/ (tele.peak_depth <= d /\ tele'.peak_depth = d),
         tele'.occupancy_hist =
           IF cfg.perf_counters_enabled
           THEN [tele.occupancy_hist EXCEPT ![d] = @ + 1]
           ELSE tele.occupancy_hist,
         Cardinality(queued') <= tele'.peak_depth
  PROVE  PeakInv'
<1> DEFINE peak == tele.peak_depth
           peak1 == tele'.peak_depth
           hist == tele.occupancy_hist
           hist1 == tele'.occupancy_hist
<1>1. Cardinality(Cmd) \in Nat BY FS_CardinalityType, TelemetryAssumption
<1>2. /\ peak \in Depth /\ peak1 \in Depth /\ hist \in [Depth -> Nat]
      /\ Depth \subseteq Nat
  <2>1. Depth \subseteq Nat BY <1>1 DEF Depth
  <2> QED BY <2>1 DEF Tele
<1>3. SUFFICES ASSUME cfg.perf_counters_enabled
               PROVE  /\ \A e \in Depth : hist1[e] > 0 => e <= peak1
                      /\ peak1 > 0 => hist1[peak1] > 0
  BY DEF PeakInv
<1>4. hist1 = [hist EXCEPT ![d] = @ + 1] BY <1>3
<1>5. /\ \A e \in Depth : hist[e] > 0 => e <= peak
      /\ peak > 0 => hist[peak] > 0
  BY <1>3 DEF PeakInv
<1>6. peak1 = peak \/ (peak <= d /\ peak1 = d) OBVIOUS
<1>7. d <= peak1 OBVIOUS
<1> HIDE DEF peak, peak1, hist, hist1
<1> QED BY <1>2, <1>4, <1>5, <1>6, <1>7

-----------------------------------------------------------------------------
(* Every step of the counters drives the queue as its invariant allows.    *)
LEMMA QueueStep == IInv /\ [TeleNext]_teleVars => IInv'
<1> SUFFICES ASSUME IInv, [TeleNext]_teleVars PROVE IInv' OBVIOUS
<1>1. ASSUME NEW c \in Cmd, TeleAccept(c) PROVE IInv'
  BY <1>1, AcceptInv DEF TeleAccept
<1>2. ASSUME NEW c \in Cmd, NEW forced \in BOOLEAN, NEW grouped \in BOOLEAN,
             TeleIssue(c, forced, grouped)
      PROVE  IInv'
  BY <1>2, IssueInv DEF TeleIssue
<1>3. ASSUME NEW c \in inflight, NEW span \in {0, 2}, NEW fault \in Fault,
             TeleRespond(c, span, fault)
      PROVE  IInv'
  BY <1>3, CompleteInv DEF TeleRespond
<1>4. CASE handle_reset BY <1>4, FlushInv DEF handle_reset
<1>5. CASE Time BY <1>5, StutterInv DEF Time
<1>6. CASE UNCHANGED teleVars BY <1>6, StutterInv DEF teleVars
<1> QED BY <1>1, <1>2, <1>3, <1>4, <1>5, <1>6 DEF TeleNext

(***************************************************************************)
(* Predictions                                                             *)
(***************************************************************************)
(* The tags of the commands at the device were handed out, each once.      *)
TagsFresh ==
  /\ \A c \in inflight : tag[c] < next_tag
  /\ \A c, d \in inflight : tag[c] = tag[d] => c = d

TagsPredicted == {p[1] : p \in predicted_last}
TagsInflight == {tag[c] : c \in inflight}

(* Only these steps change the tags at the device or the predictions.      *)
TagsKept == UNCHANGED <<cfg, inflight, tag, next_tag, predicted_last>>

LEMMA TagsStay ==
  ASSUME TagsFresh, PredictionsTracked, TagsKept
  PROVE  TagsFresh' /\ PredictionsTracked'
BY DEF TagsFresh, PredictionsTracked, TagsKept

LEMMA TagsInit == TeleInit => TagsFresh /\ PredictionsTracked
BY DEF TeleInit, QueueInit, TagsFresh, PredictionsTracked

LEMMA TagsIssued ==
  ASSUME IInv, TagsFresh, PredictionsTracked, NEW c \in Cmd, NEW forced,
         NEW grouped, TeleIssue(c, forced, grouped), UNCHANGED cfg
  PROVE  TagsFresh' /\ PredictionsTracked'
<1>1. CASE c.pre
  BY <1>1, TagsStay DEF TeleIssue, Issue, inflightVars, TagsKept
<1>2. CASE ~c.pre
  <2>1. /\ tag' = [tag EXCEPT ![c] = next_tag] /\ next_tag' = next_tag + 1
        /\ inflight' = inflight \cup {c}
        /\ predicted_last' = IF cfg.perf_counters_enabled
                              THEN predicted_last \cup {<<next_tag, now + 1>>}
                              ELSE predicted_last
    BY <1>2 DEF TeleIssue, Issue, enqueue
  <2>2. /\ tag \in [Cmd -> Nat] /\ next_tag \in Nat /\ inflight \subseteq Cmd
    BY DEF IInv, TypeOK
  <2>3. c \notin inflight
    BY DEF TeleIssue, Issue, take_entry, IInv, OrdersFresh
  <2>4. /\ \A d \in inflight : tag'[d] = tag[d] /\ tag[d] \in Nat
        /\ tag'[c] = next_tag
    BY <2>1, <2>2, <2>3
  <2>5. TagsFresh' BY <2>1, <2>2, <2>4 DEF TagsFresh
  <2>6. TagsInflight' = TagsInflight \cup {next_tag}
    BY <2>1, <2>4 DEF TagsInflight
  <2>7. cfg.perf_counters_enabled =>
          TagsPredicted' = TagsPredicted \cup {next_tag}
    <3> DEFINE q == <<next_tag, now + 1>>
    <3>1. q[1] = next_tag OBVIOUS
    <3> HIDE DEF q
    <3>2. cfg.perf_counters_enabled => predicted_last' = predicted_last \cup {q}
      BY <2>1 DEF q
    <3> QED BY <3>1, <3>2 DEF TagsPredicted
  <2>8. ~cfg.perf_counters_enabled => TagsPredicted' = TagsPredicted
    BY <2>1 DEF TagsPredicted
  <2>9. PredictionsTracked'
    <3>1. cfg.perf_counters_enabled => TagsPredicted = TagsInflight
      BY DEF PredictionsTracked, TagsPredicted, TagsInflight
    <3>2. ~cfg.perf_counters_enabled => TagsPredicted = {}
      BY DEF PredictionsTracked, TagsPredicted
    <3>3. TagsPredicted' =
            IF cfg'.perf_counters_enabled THEN TagsInflight' ELSE {}
      BY <2>6, <2>7, <2>8, <3>1, <3>2
    <3> QED BY <3>3 DEF PredictionsTracked, TagsPredicted, TagsInflight
  <2> QED BY <2>5, <2>9
<1> QED BY <1>1, <1>2

LEMMA TagsAnswered ==
  ASSUME IInv, TagsFresh, PredictionsTracked, NEW c \in inflight, NEW span,
         NEW fault, TeleRespond(c, span, fault), UNCHANGED cfg
  PROVE  TagsFresh' /\ PredictionsTracked'
<1>1. PICK d \in inflight :
        /\ tag[d] = tag[c] /\ inflight' = inflight \ {d}
        /\ UNCHANGED <<tag, next_tag>>
  BY DEF TeleRespond, complete_by_rsp
<1>2. d = c BY <1>1 DEF TagsFresh
<1>3. predicted_last' = IF cfg.perf_counters_enabled
                         THEN predicted_last \ Predicted(tag[c])
                         ELSE predicted_last
  BY DEF TeleRespond
<1>4. TagsFresh' BY <1>1 DEF TagsFresh
<1>5. TagsInflight' = TagsInflight \ {tag[c]}
  BY <1>1, <1>2 DEF TagsInflight, TagsFresh
<1>6. cfg.perf_counters_enabled => TagsPredicted' = TagsPredicted \ {tag[c]}
  BY <1>3 DEF TagsPredicted, Predicted
<1>7. ~cfg.perf_counters_enabled => TagsPredicted' = TagsPredicted
  BY <1>3 DEF TagsPredicted
<1>8. PredictionsTracked'
  <2>1. cfg.perf_counters_enabled => TagsPredicted = TagsInflight
    BY DEF PredictionsTracked, TagsPredicted, TagsInflight
  <2>2. ~cfg.perf_counters_enabled => TagsPredicted = {}
    BY DEF PredictionsTracked, TagsPredicted
  <2>3. TagsPredicted' =
          IF cfg'.perf_counters_enabled THEN TagsInflight' ELSE {}
    BY <1>5, <1>6, <1>7, <2>1, <2>2
  <2> QED BY <2>3 DEF PredictionsTracked, TagsPredicted, TagsInflight
<1> QED BY <1>4, <1>8

LEMMA TagsStep ==
  IInv /\ TagsFresh /\ PredictionsTracked /\ [TeleNext]_teleVars =>
    TagsFresh' /\ PredictionsTracked'
<1> SUFFICES ASSUME IInv, TagsFresh, PredictionsTracked, [TeleNext]_teleVars
             PROVE  TagsFresh' /\ PredictionsTracked'
  OBVIOUS
<1>1. ASSUME NEW c \in Cmd, TeleAccept(c), UNCHANGED cfg
      PROVE  TagsFresh' /\ PredictionsTracked'
  <2>1. UNCHANGED <<inflight, tag, next_tag, predicted_last>>
    BY <1>1 DEF TeleAccept, Accept, try_coalesce_write, admit, inflightVars
  <2> QED BY <1>1, <2>1, TagsStay DEF TagsKept
<1>2. ASSUME NEW c \in Cmd, NEW forced \in BOOLEAN, NEW grouped \in BOOLEAN,
             TeleIssue(c, forced, grouped), UNCHANGED cfg
      PROVE  TagsFresh' /\ PredictionsTracked'
  BY <1>2, TagsIssued
<1>3. ASSUME NEW c \in inflight, NEW span \in {0, 2}, NEW fault \in Fault,
             TeleRespond(c, span, fault), UNCHANGED cfg
      PROVE  TagsFresh' /\ PredictionsTracked'
  BY <1>3, TagsAnswered
<1>4. CASE handle_reset /\ UNCHANGED cfg
  BY <1>4 DEF handle_reset, flush_queue, TagsFresh, PredictionsTracked
<1>5. CASE Time /\ UNCHANGED cfg
  BY <1>5, TagsStay DEF Time, queueState, TagsKept
<1>6. CASE UNCHANGED teleVars
  BY <1>6, TagsStay DEF teleVars, queueState, TagsKept
<1> QED BY <1>1, <1>2, <1>3, <1>4, <1>5, <1>6 DEF TeleNext

LEMMA TeleQueueInv == TeleSpec => []IInv
<1>1. TeleInit => IInv BY InitInv DEF TeleInit
<1> QED BY <1>1, QueueStep, PTL DEF TeleSpec

LEMMA TagInvariance == TeleSpec => [](TagsFresh /\ PredictionsTracked)
BY TagsInit, TagsStep, TeleQueueInv, PTL DEF TeleSpec

(* Whatever is issued, answered out of order or flushed, _note_prediction  *)
(* finds for every answer the prediction made when its command was issued, *)
(* and predicted_last_by_tag holds none for a command that has left the    *)
(* device, or none at all with the counters disabled.                      *)
THEOREM PredictionsAreTracked == TeleSpec => []PredictionsTracked
BY TagInvariance, PTL

(***************************************************************************)
(* Each step of the counters                                               *)
(***************************************************************************)
LEMMA DepthTypes ==
  ASSUME IInv
  PROVE  /\ IsFiniteSet(queued) /\ Cardinality(queued) \in Nat
         /\ Cardinality(queued) \in Depth
<1>1. queued \subseteq Cmd BY DEF IInv, TypeOK
<1>2. /\ IsFiniteSet(queued) /\ Cardinality(queued) <= Cardinality(Cmd)
      /\ Cardinality(Cmd) \in Nat
  BY <1>1, FS_Subset, FS_CardinalityType, TelemetryAssumption
<1>3. Cardinality(queued) \in Nat BY <1>2, FS_CardinalityType
<1> QED BY <1>2, <1>3 DEF Depth

LEMMA DepthTypesNext ==
  ASSUME IInv'
  PROVE  /\ IsFiniteSet(queued') /\ Cardinality(queued') \in Nat
         /\ Cardinality(queued') \in Depth
<1>1. queued' \subseteq Cmd BY DEF IInv, TypeOK
<1>2. /\ IsFiniteSet(queued') /\ Cardinality(queued') <= Cardinality(Cmd)
      /\ Cardinality(Cmd) \in Nat
  BY <1>1, FS_Subset, FS_CardinalityType, TelemetryAssumption
<1>3. Cardinality(queued') \in Nat BY <1>2, FS_CardinalityType
<1> QED BY <1>2, <1>3 DEF Depth

LEMMA CfgTypes ==
  ASSUME CounterTypes
  PROVE  cfg.perf_counters_enabled \in BOOLEAN
BY TelemetryAssumption DEF CounterTypes, Readable

(* A write merged into a pending one ends the claims about single          *)
(* commands, and joins the group of a command not answered yet.            *)
LEMMA MergeTele ==
  ASSUME TeleInv, NEW c \in Cmd, TeleAccept(c), UNCHANGED cfg,
         coalesce_target(c) # {}, IInv'
  PROVE  TeleInv'
<1> USE DEF TeleInv
<1>1. /\ arrival[c] = 0 /\ arrival' = [arrival EXCEPT ![c] = arrivals + 1]
      /\ try_coalesce_write(c)
  BY DEF TeleAccept, Accept
<1>2. /\ tele' = [tele EXCEPT !.coalesced_write_count = @ + 1]
      /\ accepted' = [accepted EXCEPT ![c] = now]
      /\ UNCHANGED <<admit_time, now, predicted_last, done, cfg>>
  BY DEF TeleAccept
<1>3. PICK p \in coalesce_target(c) :
        merged_writes' = [merged_writes EXCEPT ![p] = @ \cup {c}]
  BY <1>1 DEF try_coalesce_write
<1>4. p \in queued /\ p \in Cmd /\ ~p.pre
  BY DEF coalesce_target, IInv, TypeOK
<1>5. queued' = queued /\ inflight' = inflight /\ admit_order' = admit_order
  BY <1>1 DEF try_coalesce_write, queueVars, inflightVars, orderVars
<1>6. tele' \in Tele /\ SameAnswers(tele', tele)
      /\ tele'.peak_depth = tele.peak_depth
      /\ tele'.occupancy_hist = tele.occupancy_hist
  <2> DEFINE count == tele.coalesced_write_count + 1
  <2>1. tele' = [tele EXCEPT !.coalesced_write_count = count]
    BY <1>2, Zenon
  <2>2. tele \in Tele BY DEF CounterTypes
  <2>3. tele.coalesced_write_count \in Nat BY <2>2 DEF Tele
  <2>4. count \in Nat BY <2>3
  <2> HIDE DEF count
  <2> QED BY <2>1, <2>2, <2>4 DEF Tele, SameAnswers
<1>7. CounterTypes'
  <2>1. accepted' \in [Cmd -> Nat] /\ \A d \in Cmd : accepted'[d] <= now'
    BY <1>2 DEF CounterTypes, Readable
  <2> QED BY <1>2, <1>5, <1>6, <2>1 DEF CounterTypes, Readable
<1>8. merged_writes \in [Cmd -> SUBSET Cmd] /\ arrival \in [Cmd -> Nat]
  BY DEF IInv, TypeOK
<1>9. c \in merged_writes'[p] BY <1>3, <1>4, <1>8
<1>10. ~NoneMerged' BY <1>4, <1>9 DEF NoneMerged
<1>11. QuietStep
  <2>1. \A d \in Completed : d # c /\ d \in Cmd
    BY <1>1, CompletedTypes DEF EpochInv, CounterTypes
  <2> QED BY <1>1, <1>2, <1>6, <1>8, <1>10, <2>1
        DEF QuietStep, CounterTypes, Readable
<1>12. c \notin Pending /\ Pending' = Pending
  BY <1>1, <1>5 DEF IInv, ArrivalsFresh, Pending
<1>13. EpochInv'
  <2>1. \A d \in Cmd : merged_writes'[d] =
          IF d = p THEN merged_writes[d] \cup {c} ELSE merged_writes[d]
    BY <1>3, <1>4, <1>8
  <2>2. p # c BY <1>4, <1>12 DEF Pending
  <2>3. \A d \in Cmd : d \notin merged_writes'[d] /\ (d.pre => merged_writes'[d] = {})
    BY <1>4, <2>1, <2>2 DEF EpochInv
  <2>4. Completed' = Completed BY <1>2 DEF Completed
  <2>5. \A d \in Completed : d # c /\ d \in Cmd /\ arrival'[d] = arrival[d]
    BY <1>1, <1>8, CompletedTypes DEF EpochInv, CounterTypes
  <2>6. \A q \in Pending : q \in Cmd BY DEF Pending, IInv, TypeOK
  <2>7. \A d \in Completed : \A q \in Pending : d \notin Group(q)'
    BY <2>1, <2>5, <2>6 DEF EpochInv, Group
  <2> QED BY <1>2, <1>12, <2>3, <2>4, <2>5, <2>7 DEF EpochInv
<1>14. PeakInv' BY <1>2, <1>5, <1>6 DEF PeakInv
<1>15. AdmittedAsAccepted' BY <1>10 DEF AdmittedAsAccepted
<1>16. CountsAgree' /\ NewestNoted' /\ ReorderExact' /\ ExtremesNoted'
  BY <1>11, QuietInv
<1> QED BY <1>7, <1>13, <1>14, <1>15, <1>16, Zenon DEF TeleInv

LEMMA AdmitTele ==
  ASSUME TeleInv, NEW c \in Cmd, TeleAccept(c), UNCHANGED cfg,
         coalesce_target(c) = {}, IInv'
  PROVE  TeleInv'
<1> USE DEF TeleInv
<1>1. /\ arrival[c] = 0 /\ arrival' = [arrival EXCEPT ![c] = arrivals + 1]
      /\ arrivals' = arrivals + 1 /\ admit(c)
  BY DEF TeleAccept, Accept, try_coalesce_write
<1>2. /\ tele' = note_admit(tele)
      /\ accepted' = [accepted EXCEPT ![c] = now]
      /\ admit_time' = [admit_time EXCEPT ![c] = now]
      /\ UNCHANGED <<now, predicted_last, done, cfg>>
  BY DEF TeleAccept
<1>3. /\ queued' = queued \cup {c} /\ UNCHANGED <<inflight, merged_writes>>
      /\ admit_order' = [admit_order EXCEPT ![c] = next_admit_order]
      /\ next_admit_order' = next_admit_order + 1
  BY <1>1 DEF admit, inflightVars, mergeVars
<1>4. c \notin Pending /\ merged_writes[c] = {}
  BY <1>1 DEF IInv, ArrivalsFresh
<1>5. /\ merged_writes \in [Cmd -> SUBSET Cmd] /\ arrival \in [Cmd -> Nat]
      /\ admit_order \in [Cmd -> Nat] /\ arrivals \in Nat
      /\ next_admit_order \in Nat
  BY DEF IInv, TypeOK
<1> DEFINE depth == Cardinality(queued) + 1
<1>6. Cardinality(queued') = depth /\ depth \in Depth /\ depth \in Nat
  <2>1. c \notin queued BY <1>4 DEF Pending
  <2>2. IsFiniteSet(queued) /\ Cardinality(queued) \in Nat BY DepthTypes
  <2>3. Cardinality(queued \cup {c}) = Cardinality(queued) + 1
    BY <2>1, <2>2, FS_AddElement
  <2>4. Cardinality(queued') = depth /\ depth \in Nat BY <1>3, <2>2, <2>3
  <2> QED BY <2>4, DepthTypesNext
<1>7. /\ tele' \in Tele /\ SameAnswers(tele', tele)
      /\ tele'.peak_depth =
           IF depth > tele.peak_depth THEN depth ELSE tele.peak_depth
      /\ tele'.occupancy_hist =
           IF cfg.perf_counters_enabled
           THEN [tele.occupancy_hist EXCEPT ![depth] = @ + 1]
           ELSE tele.occupancy_hist
  BY <1>2, <1>6, AdmissionNoted, CfgTypes DEF CounterTypes
<1>8. CounterTypes'
  <2>1. accepted' \in [Cmd -> Nat] /\ \A d \in Cmd : accepted'[d] <= now'
    BY <1>2 DEF CounterTypes, Readable
  <2>2. admit_time' \in [Cmd -> Nat] /\ admit_order' \in [Cmd -> Nat]
    BY <1>2, <1>3, <1>5 DEF CounterTypes, Readable
  <2> QED BY <1>2, <1>7, <2>1, <2>2 DEF CounterTypes, Readable
<1>9. QuietStep
  <2>1. \A d \in Completed : d # c /\ d \in Cmd
    BY <1>1, CompletedTypes DEF EpochInv, CounterTypes
  <2>2. NoneMerged' => NoneMerged BY <1>3 DEF NoneMerged
  <2> QED BY <1>1, <1>2, <1>5, <1>7, <2>1, <2>2
        DEF QuietStep, CounterTypes, Readable
<1>10. EpochInv'
  <2>1. Pending' = Pending \cup {c} BY <1>3 DEF Pending
  <2>2. Completed' = Completed BY <1>2 DEF Completed
  <2>3. \A d \in Completed : d # c /\ d \in Cmd /\ arrival'[d] = arrival[d]
    BY <1>1, <1>5, CompletedTypes DEF EpochInv, CounterTypes
  <2>4. \A q : Group(q)' = Group(q) BY <1>3 DEF Group
  <2>5. Group(c) = {c} BY <1>4 DEF Group
  <2>6. \A d \in Completed : \A q \in Pending' : d \notin Group(q)'
    BY <2>1, <2>3, <2>4, <2>5 DEF EpochInv
  <2> QED BY <1>2, <1>3, <2>2, <2>3, <2>6 DEF EpochInv
<1>11. PeakInv'
  <2>1. tele.peak_depth \in Nat
    <3>1. tele.peak_depth \in Depth BY DEF CounterTypes, Tele
    <3>2. Cardinality(Cmd) \in Nat
      BY FS_CardinalityType, TelemetryAssumption
    <3> QED BY <3>1, <3>2 DEF Depth
  <2> HIDE DEF depth
  <2>2. /\ depth <= tele'.peak_depth
        /\ \/ tele'.peak_depth = tele.peak_depth
           \/ tele.peak_depth <= depth /\ tele'.peak_depth = depth
        /\ Cardinality(queued') <= tele'.peak_depth
    BY <1>6, <1>7, <2>1
  <2>3. tele \in Tele BY DEF CounterTypes
  <2> QED BY <1>2, <1>6, <1>7, <2>2, <2>3, PeakNoted
<1>12. AdmittedAsAccepted'
  BY <1>1, <1>2, <1>3, <1>5
    DEF AdmittedAsAccepted, NoneMerged, CounterTypes, Readable
<1>13. CountsAgree' /\ NewestNoted' /\ ReorderExact' /\ ExtremesNoted'
  BY <1>9, QuietInv
<1> QED BY <1>8, <1>10, <1>11, <1>12, <1>13, Zenon DEF TeleInv

(* A step that leaves the queue's groups, the history and what answers     *)
(* note alone.                                                             *)
LEMMA StillTele ==
  ASSUME TeleInv, IInv', CounterTypes', PeakInv',
         SameAnswers(tele', tele),
         UNCHANGED <<cfg, done, accepted, admit_time, admit_order,
                     next_admit_order, merged_writes, arrival, arrivals>>,
         Pending' = Pending
  PROVE  TeleInv'
<1> USE DEF TeleInv
<1>1. QuietStep BY DEF QuietStep, NoneMerged
<1>2. CountsAgree' /\ NewestNoted' /\ ReorderExact' /\ ExtremesNoted'
  BY <1>1, QuietInv
<1>3. EpochInv'
  <2>1. Completed' = Completed BY DEF Completed
  <2>2. \A q : Group(q)' = Group(q) BY DEF Group
  <2> QED BY <2>1, <2>2 DEF EpochInv
<1>4. AdmittedAsAccepted' BY DEF AdmittedAsAccepted, NoneMerged
<1> QED BY <1>2, <1>3, <1>4, Zenon DEF TeleInv

(* A pick leaves what answers note alone.                                  *)
LEMMA PickNoted ==
  ASSUME NEW t \in Tele, NEW forced \in BOOLEAN, NEW grouped \in BOOLEAN
  PROVE  LET u == note_pick(t, forced, grouped)
         IN /\ u \in Tele /\ SameAnswers(u, t) /\ u.peak_depth = t.peak_depth
            /\ u.occupancy_hist = t.occupancy_hist
<1> DEFINE f == IF forced THEN t.fr_fcfs_forced_count + 1
                ELSE t.fr_fcfs_forced_count
           g == IF grouped THEN t.rd_wr_grouped_count + 1
                ELSE t.rd_wr_grouped_count
<1>1. note_pick(t, forced, grouped) =
        [t EXCEPT !.fr_fcfs_forced_count = f, !.rd_wr_grouped_count = g]
  BY Zenon DEF note_pick
<1>2. t.fr_fcfs_forced_count \in Nat /\ t.rd_wr_grouped_count \in Nat
  BY DEF Tele
<1>3. f \in Nat /\ g \in Nat BY <1>2
<1> DEFINE u == [t EXCEPT !.fr_fcfs_forced_count = f, !.rd_wr_grouped_count = g]
<1> HIDE DEF f, g
<1>4. /\ u \in Tele /\ SameAnswers(u, t) /\ u.peak_depth = t.peak_depth
      /\ u.occupancy_hist = t.occupancy_hist
  BY <1>3 DEF Tele, SameAnswers
<1> QED BY <1>1, <1>4

(* So does a request.                                                      *)
LEMMA RequestNoted ==
  ASSUME NEW t \in Tele, NEW c
  PROVE  LET u == note_issue(t, c)
         IN /\ u \in Tele /\ SameAnswers(u, t) /\ u.peak_depth = t.peak_depth
            /\ u.occupancy_hist = t.occupancy_hist
<1> DEFINE n == t.issued_req_count + 1
           k == IF Turns(c) THEN t.bus_turnaround_count + 1
                ELSE t.bus_turnaround_count
<1>1. note_issue(t, c) =
        [t EXCEPT !.issued_req_count = n, !.bus_turnaround_count = k]
  BY Zenon DEF note_issue
<1>2. t.issued_req_count \in Nat /\ t.bus_turnaround_count \in Nat
  BY DEF Tele
<1>3. n \in Nat /\ k \in Nat BY <1>2
<1> DEFINE u == [t EXCEPT !.issued_req_count = n, !.bus_turnaround_count = k]
<1> HIDE DEF n, k
<1>4. /\ u \in Tele /\ SameAnswers(u, t) /\ u.peak_depth = t.peak_depth
      /\ u.occupancy_hist = t.occupancy_hist
  BY <1>3 DEF Tele, SameAnswers
<1> QED BY <1>1, <1>4

(* A command taken from the queue notes the depth it leaves behind.        *)
Taken(forced, grouped) ==
  record_occupancy(note_pick(tele, forced, grouped), Cardinality(queued) - 1)

LEMMA TakenNoted ==
  ASSUME TeleInv, IInv', NEW c \in Cmd, Issue(c),
         NEW forced \in BOOLEAN, NEW grouped \in BOOLEAN,
         NEW taken, taken = Taken(forced, grouped)
  PROVE  /\ c \in queued /\ queued' = queued \ {c}
         /\ Cardinality(queued') <= tele.peak_depth
         /\ Cardinality(queued) - 1 = Cardinality(queued')
         /\ Cardinality(queued') \in Depth
         /\ taken \in Tele /\ SameAnswers(taken, tele)
         /\ taken.peak_depth = tele.peak_depth
         /\ taken.occupancy_hist =
              IF cfg.perf_counters_enabled
              THEN [tele.occupancy_hist EXCEPT ![Cardinality(queued')] = @ + 1]
              ELSE tele.occupancy_hist
<1>1. c \in queued /\ queued' = queued \ {c} BY DEF Issue, take_entry
<1>2. IsFiniteSet(queued) /\ Cardinality(queued) \in Nat
  BY DepthTypes DEF TeleInv
<1>3. Cardinality(queued \ {c}) = Cardinality(queued) - 1
  BY <1>1, <1>2, FS_RemoveElement
<1>4. Cardinality(queued') = Cardinality(queued) - 1 BY <1>1, <1>3
<1>5. Cardinality(queued') \in Depth BY DepthTypesNext
<1>6. Cardinality(queued') <= tele.peak_depth
  <2>1. Cardinality(queued) <= tele.peak_depth BY DEF TeleInv, PeakInv
  <2>2. tele.peak_depth \in Nat
    <3>1. tele.peak_depth \in Depth BY DEF TeleInv, CounterTypes, Tele
    <3>2. Cardinality(Cmd) \in Nat
      BY FS_CardinalityType, TelemetryAssumption
    <3> QED BY <3>1, <3>2 DEF Depth
  <2> QED BY <1>2, <1>4, <2>1, <2>2
<1>7. tele \in Tele /\ cfg.perf_counters_enabled \in BOOLEAN
  BY CfgTypes DEF TeleInv, CounterTypes
<1> DEFINE picked == note_pick(tele, forced, grouped)
<1>8. taken = record_occupancy(picked, Cardinality(queued'))
  BY <1>4 DEF Taken
<1>9. /\ picked \in Tele /\ SameAnswers(picked, tele)
      /\ picked.peak_depth = tele.peak_depth
      /\ picked.occupancy_hist = tele.occupancy_hist
  BY <1>7, PickNoted
<1> HIDE DEF picked
<1>10. /\ taken \in Tele /\ SameAnswers(taken, picked)
       /\ taken.peak_depth = picked.peak_depth
       /\ taken.occupancy_hist =
            IF cfg.perf_counters_enabled
            THEN [picked.occupancy_hist EXCEPT ![Cardinality(queued')] = @ + 1]
            ELSE picked.occupancy_hist
  BY <1>5, <1>7, <1>8, <1>9, OccupancyNoted
<1>11. SameAnswers(taken, tele) BY <1>9, <1>10 DEF SameAnswers
<1> QED BY <1>1, <1>4, <1>5, <1>6, <1>9, <1>10, <1>11

(* The queue's depth and its histogram after a command was taken.          *)
LEMMA TakenPeak ==
  ASSUME TeleInv, IInv', NEW c \in Cmd, Issue(c), UNCHANGED cfg,
         NEW forced \in BOOLEAN, NEW grouped \in BOOLEAN,
         NEW taken, taken = Taken(forced, grouped),
         tele' \in Tele, tele'.peak_depth = taken.peak_depth,
         tele'.occupancy_hist = taken.occupancy_hist
  PROVE  PeakInv'
<1>1. /\ Cardinality(queued') <= tele.peak_depth
      /\ Cardinality(queued') \in Depth
      /\ taken.peak_depth = tele.peak_depth
      /\ taken.occupancy_hist =
           IF cfg.perf_counters_enabled
           THEN [tele.occupancy_hist EXCEPT ![Cardinality(queued')] = @ + 1]
           ELSE tele.occupancy_hist
  BY TakenNoted
<1>2. PeakInv /\ tele \in Tele BY DEF TeleInv, CounterTypes
<1>3. /\ tele'.peak_depth = tele.peak_depth
      /\ tele'.occupancy_hist =
           IF cfg.perf_counters_enabled
           THEN [tele.occupancy_hist EXCEPT ![Cardinality(queued')] = @ + 1]
           ELSE tele.occupancy_hist
  BY <1>1
<1>4. Cardinality(queued') <= tele'.peak_depth BY <1>1, <1>3
<1> QED BY <1>1, <1>2, <1>3, <1>4, PeakNoted

LEMMA AnsweredSame ==
  ASSUME NEW u, NEW t, NEW v, SameAnswers(v, t), NEW c, NEW last, NEW resp,
         Answered(u, v, c, last, resp)
  PROVE  Answered(u, t, c, last, resp)
BY Zenon DEF SameAnswers, Answered, Noted

LEMMA IssueTele ==
  ASSUME TeleInv, NEW c \in Cmd, NEW forced \in BOOLEAN,
         NEW grouped \in BOOLEAN, TeleIssue(c, forced, grouped),
         UNCHANGED cfg, ~c.pre, IInv'
  PROVE  TeleInv'
<1> USE DEF TeleInv
<1> DEFINE taken == Taken(forced, grouped)
<1>1. /\ tele' = note_issue(taken, c)
      /\ predicted_last' = IF cfg.perf_counters_enabled
                            THEN predicted_last \cup {<<next_tag, now + 1>>}
                            ELSE predicted_last
      /\ Issue(c)
      /\ UNCHANGED <<now, admit_time, accepted, done>>
  BY DEF TeleIssue, Taken
<1>2. UNCHANGED <<admit_order, next_admit_order, merged_writes, arrival, arrivals>>
  BY <1>1 DEF Issue, orderVars, mergeVars, historyVars
<1>3. Pending' = Pending
  BY <1>1 DEF Issue, take_entry, enqueue, Pending
<1>4. taken \in Tele /\ SameAnswers(taken, tele) BY <1>1, TakenNoted
<1> HIDE DEF taken
<1>5. /\ tele' \in Tele /\ SameAnswers(tele', tele)
      /\ tele'.peak_depth = taken.peak_depth
      /\ tele'.occupancy_hist = taken.occupancy_hist
  <2>1. /\ tele' \in Tele /\ SameAnswers(tele', taken)
        /\ tele'.peak_depth = taken.peak_depth
        /\ tele'.occupancy_hist = taken.occupancy_hist
    BY <1>1, <1>4, RequestNoted
  <2> QED BY <1>4, <2>1 DEF SameAnswers
<1>6. CounterTypes'
  <2>1. next_tag \in Nat /\ now \in Nat
    BY DEF IInv, TypeOK, CounterTypes, Readable
  <2>2. predicted_last' \subseteq Nat \X Nat
    BY <1>1, <2>1 DEF CounterTypes, Readable
  <2> QED BY <1>1, <1>2, <1>5, <2>2 DEF CounterTypes, Readable
<1>7. PeakInv' BY <1>1, <1>5, TakenPeak DEF taken
<1> QED BY <1>1, <1>2, <1>3, <1>5, <1>6, <1>7, StillTele

LEMMA LocalTele ==
  ASSUME TeleInv, NEW c \in Cmd, NEW forced \in BOOLEAN,
         NEW grouped \in BOOLEAN, TeleIssue(c, forced, grouped),
         UNCHANGED cfg, c.pre, IInv'
  PROVE  TeleInv'
<1> USE DEF TeleInv
<1> DEFINE taken == Taken(forced, grouped)
<1>1. /\ tele' = note_completion_observability(
                   [taken EXCEPT !.completed_cmd_count = @ + 1],
                   c, accepted[c])
      /\ done' = Append(done, Completion(c, accepted[c], "local"))
      /\ Issue(c)
      /\ UNCHANGED <<now, admit_time, accepted, predicted_last>>
  BY DEF TeleIssue, Taken
<1>2. UNCHANGED <<admit_order, next_admit_order, merged_writes, arrival, arrivals>>
  BY <1>1 DEF Issue, orderVars, mergeVars, historyVars
<1>3. c \in Pending /\ Pending' = Pending \ {c}
  <2>1. /\ c \in queued /\ queued' = queued \ {c} /\ inflight' = inflight
        /\ queued \cap inflight = {}
    BY <1>1 DEF Issue, take_entry, inflightVars, IInv, OrdersFresh
  <2> QED BY <2>1 DEF Pending
<1>4. taken \in Tele /\ SameAnswers(taken, tele) BY <1>1, TakenNoted
<1> HIDE DEF taken
<1>5. accepted[c] \in Nat /\ accepted[c] <= accepted[c] /\ accepted[c] <= now
  BY DEF CounterTypes, Readable
<1>6. merged_writes[c] = {} BY DEF EpochInv
<1>7. /\ tele' \in Tele /\ Answered(tele', taken, c, accepted[c], "local")
      /\ tele'.peak_depth = taken.peak_depth
      /\ tele'.occupancy_hist = taken.occupancy_hist
  <2>1. Readable BY DEF CounterTypes
  <2> QED BY <1>1, <1>4, <1>5, <1>6, <2>1, LocalNoted, Zenon
<1>8. Answered(tele', tele, c, accepted[c], "local")
  BY <1>4, <1>7, AnsweredSame
<1>9. CompletionStep(c, accepted[c], "local")
  BY <1>1, <1>2, <1>3, <1>5, <1>7, <1>8 DEF CompletionStep, Resp
<1>10. CounterTypes'
  <2>1. done' \in Seq(Done) BY <1>9, DoneGrows DEF CounterTypes
  <2> QED BY <1>1, <1>2, <1>7, <2>1 DEF CounterTypes, Readable
<1>11. PeakInv' BY <1>1, <1>7, TakenPeak DEF taken
<1>12. /\ EpochInv' /\ CountsAgree'
       /\ AdmittedAsAccepted' /\ NewestNoted' /\ ReorderExact'
       /\ ExtremesNoted'
  BY <1>9, CompletionInv
<1> QED BY <1>10, <1>11, <1>12, Zenon DEF TeleInv

LEMMA RespondTele ==
  ASSUME TeleInv, TagsFresh, NEW c \in inflight, NEW span \in {0, 2},
         NEW fault, TeleRespond(c, span, fault), UNCHANGED cfg, IInv'
  PROVE  TeleInv'
<1> USE DEF TeleInv
<1> DEFINE last == now + span
           resp == Response(c, fault)
<1>1. /\ tele' = note_rsp(tele, c, tag[c], now, last, fault)
      /\ predicted_last' = IF cfg.perf_counters_enabled
                            THEN predicted_last \ Predicted(tag[c])
                            ELSE predicted_last
      /\ done' = Append(done, Completion(c, last, resp))
      /\ complete_by_rsp(tag[c])
      /\ UNCHANGED <<now, admit_time, accepted>>
  BY DEF TeleRespond
<1>2. /\ UNCHANGED <<admit_order, next_admit_order, merged_writes, arrival,
                     arrivals>>
      /\ queued' = queued /\ inflight' = inflight \ {c}
  <2>1. PICK d \in inflight :
          /\ tag[d] = tag[c] /\ inflight' = inflight \ {d}
          /\ UNCHANGED <<queueVars, orderVars, mergeVars, historyVars>>
    BY <1>1 DEF complete_by_rsp
  <2>2. d = c BY <2>1 DEF TagsFresh
  <2> QED BY <2>1, <2>2 DEF queueVars, orderVars, mergeVars, historyVars
<1>3. c \in Cmd /\ c \in Pending /\ Pending' = Pending \ {c}
  <2>1. queued \cap inflight = {} /\ inflight \subseteq Cmd
    BY DEF IInv, OrdersFresh, TypeOK
  <2> QED BY <1>2, <2>1 DEF Pending
<1>4. now \in Nat /\ last \in Nat /\ accepted[c] <= last
  <2>1. now \in Nat /\ accepted[c] \in Nat /\ accepted[c] <= now
    BY <1>3 DEF CounterTypes, Readable
  <2> QED BY <2>1
<1>5. resp \in Resp BY DEF Response, Resp
<1>6. /\ merged_writes[c] \in SUBSET Cmd /\ IsFiniteSet(merged_writes[c])
      /\ c \notin merged_writes[c]
  BY <1>3, GroupTypes DEF EpochInv
<1> HIDE DEF last
<1>7. /\ tele' \in Tele /\ Answered(tele', tele, c, last, resp)
      /\ tele'.peak_depth = tele.peak_depth
      /\ tele'.occupancy_hist = tele.occupancy_hist
  <2>1. Readable /\ tele \in Tele BY DEF CounterTypes
  <2>2. /\ note_rsp(tele, c, tag[c], now, last, fault) \in Tele
        /\ Answered(note_rsp(tele, c, tag[c], now, last, fault), tele, c, last,
                    Response(c, fault))
        /\ note_rsp(tele, c, tag[c], now, last, fault).peak_depth = tele.peak_depth
        /\ note_rsp(tele, c, tag[c], now, last, fault).occupancy_hist =
             tele.occupancy_hist
    BY <1>3, <1>4, <1>6, <2>1, AnswerNoted
  <2> QED BY <1>1, <2>2
<1> HIDE DEF resp
<1>8. CompletionStep(c, last, resp)
  BY <1>1, <1>2, <1>3, <1>4, <1>5, <1>7 DEF CompletionStep
<1>9. CounterTypes'
  <2>1. done' \in Seq(Done) BY <1>8, DoneGrows DEF CounterTypes
  <2>2. predicted_last' \subseteq Nat \X Nat
    BY <1>1 DEF CounterTypes, Readable
  <2> QED BY <1>1, <1>2, <1>7, <2>1, <2>2 DEF CounterTypes, Readable
<1>10. PeakInv' BY <1>2, <1>7 DEF PeakInv
<1>11. /\ EpochInv' /\ CountsAgree'
       /\ AdmittedAsAccepted' /\ NewestNoted' /\ ReorderExact'
       /\ ExtremesNoted'
  BY <1>8, CompletionInv
<1> QED BY <1>9, <1>10, <1>11, Zenon DEF TeleInv

(* Nothing answered and every counter cleared, at the start and by a reset. *)
LEMMA ClearedTypes ==
  /\ clear_perf_counters \in Tele
  /\ \A d \in Depth : clear_perf_counters.occupancy_hist[d] = 0
<1>1. Cardinality(Cmd) \in Nat BY FS_CardinalityType, TelemetryAssumption
<1>2. 0 \in Depth BY <1>1 DEF Depth
<1> QED BY <1>2 DEF clear_perf_counters, Tele, Buckets

Cleared == tele = clear_perf_counters /\ done = <<>>

LEMMA ClearedCounts ==
  Cleared => CountsAgree /\ NewestNoted /\ ReorderExact /\ ExtremesNoted
<1> SUFFICES ASSUME Cleared
             PROVE  CountsAgree /\ NewestNoted /\ ReorderExact /\ ExtremesNoted
  OBVIOUS
<1>1. tele = clear_perf_counters /\ done = <<>> /\ DOMAIN done = {}
  BY DEF Cleared
<1>2. Completed = {} /\ Answers = {} /\ Errors = {} /\ LateOnes = {}
  BY <1>1 DEF Completed, Answers, Errors, LateOnes
<1>3. Cardinality({}) = 0 /\ Reported(0) = 0
  BY FS_EmptySet DEF Reported
<1>4. CountsAgree
  <2>1. TotalAgrees /\ SamplesAgree /\ DataAgrees
    BY <1>1, <1>2, <1>3
      DEF clear_perf_counters, TotalAgrees, SamplesAgree, DataAgrees
  <2>2. ErrorsAgree
    <3>1. tele.ecc_uncorrectable_count = 0 BY <1>1 DEF clear_perf_counters
    <3> QED BY <3>1, <1>2, <1>3, Zenon DEF ErrorsAgree, Errors
  <2>3. PortsAgree
    <3>1. \A p \in Port : tele.port_completed_count[p] = 0
      BY <1>1 DEF clear_perf_counters
    <3>2. \A p : {d \in Completed : d.port = p} = {} BY <1>2
    <3> QED BY <3>1, <3>2, <1>3 DEF PortsAgree
  <2>4. HistogramAgrees
    <3>1. tele.latency_hist = [b \in Buckets |-> 0]
          /\ DOMAIN tele.latency_hist = Buckets
      BY <1>1 DEF clear_perf_counters, Buckets
    <3>2. Sum([b \in Buckets |-> 0], Buckets) = 0 BY BucketsFinite, SumOfZeros
    <3>3. Sum(tele.latency_hist, DOMAIN tele.latency_hist)
            = Reported(Cardinality(Completed))
      BY <1>2, <1>3, <3>1, <3>2, Zenon
    <3> QED BY <3>3, Zenon DEF HistogramAgrees, Sum
  <2> QED BY <2>1, <2>2, <2>3, <2>4, CountsInParts, Zenon DEF PartsAgree
<1>5. NewestNoted BY <1>1 DEF NewestNoted, clear_perf_counters
<1>6. ReorderExact
  <2>1. get_observed_reorder_count = 0
    BY <1>1 DEF get_observed_reorder_count, Reported, clear_perf_counters
  <2> QED BY <2>1, <1>2, <1>3, Zenon DEF ReorderExact, LateOnes
<1>7. ExtremesNoted BY <1>1 DEF ExtremesNoted
<1> QED BY <1>4, <1>5, <1>6, <1>7

LEMMA ResetTele ==
  ASSUME TeleInv, handle_reset, UNCHANGED cfg, IInv'
  PROVE  TeleInv'
<1> USE DEF TeleInv
<1>1. /\ tele' = clear_perf_counters /\ predicted_last' = {} /\ done' = <<>>
      /\ queued' = {} /\ inflight' = {}
      /\ UNCHANGED <<now, admit_time, accepted, admit_order, next_admit_order,
                     merged_writes, arrival, arrivals>>
  BY DEF handle_reset, flush_queue, orderVars, mergeVars, historyVars
<1>2. Cleared' BY <1>1 DEF Cleared
<1>3. CountsAgree' /\ NewestNoted' /\ ReorderExact' /\ ExtremesNoted'
  BY <1>2, ClearedCounts, PTL
<1>4. CounterTypes'
  <2>1. done' \in Seq(Done) BY <1>1
  <2>2. tele' \in Tele BY <1>1, ClearedTypes
  <2> QED BY <1>1, <2>1, <2>2 DEF CounterTypes, Readable
<1>5. EpochInv' BY <1>1 DEF EpochInv, Completed
<1>6. PeakInv'
  <2>1. tele'.peak_depth = 0 BY <1>1 DEF clear_perf_counters
  <2>2. \A d \in Depth : tele'.occupancy_hist[d] = 0 BY <1>1, ClearedTypes
  <2>3. Cardinality(queued') = 0 BY <1>1, FS_EmptySet
  <2> QED BY <2>1, <2>2, <2>3 DEF PeakInv
<1>7. AdmittedAsAccepted' BY <1>1 DEF AdmittedAsAccepted, NoneMerged
<1> QED BY <1>3, <1>4, <1>5, <1>6, <1>7, Zenon DEF TeleInv

LEMMA InitTele == TeleInit => TeleInv
<1> SUFFICES ASSUME TeleInit PROVE TeleInv OBVIOUS
<1>1. IInv BY InitInv DEF TeleInit
<1>2. /\ tele = clear_perf_counters /\ predicted_last = {} /\ done = <<>>
      /\ cfg \in Cfg /\ now = 1
      /\ admit_time = [c \in Cmd |-> 0] /\ accepted = [c \in Cmd |-> 0]
      /\ queued = {} /\ inflight = {}
      /\ admit_order = [c \in Cmd |-> 0] /\ next_admit_order = 1
      /\ merged_writes = [c \in Cmd |-> {}]
      /\ arrival = [c \in Cmd |-> 0] /\ arrivals = 0
  BY DEF TeleInit, QueueInit
<1>3. Cleared BY <1>2 DEF Cleared
<1>4. CountsAgree /\ NewestNoted /\ ReorderExact /\ ExtremesNoted
  BY <1>3, ClearedCounts
<1>5. CounterTypes
  <2>1. done \in Seq(Done) BY <1>2
  <2>2. tele \in Tele BY <1>2, ClearedTypes
  <2> QED BY <1>2, <2>1, <2>2 DEF CounterTypes, Readable
<1>6. EpochInv BY <1>2 DEF EpochInv, Completed
<1>7. PeakInv
  <2>1. tele.peak_depth = 0 BY <1>2 DEF clear_perf_counters
  <2>2. \A d \in Depth : tele.occupancy_hist[d] = 0 BY <1>2, ClearedTypes
  <2>3. Cardinality(queued) = 0 BY <1>2, FS_EmptySet
  <2> QED BY <2>1, <2>2, <2>3 DEF PeakInv
<1>8. AdmittedAsAccepted BY <1>2 DEF AdmittedAsAccepted, NoneMerged
<1> QED BY <1>1, <1>4, <1>5, <1>6, <1>7, <1>8, Zenon DEF TeleInv

LEMMA PassTele ==
  ASSUME TeleInv, IInv',
         UNCHANGED <<queueState, cfg, admit_time, tele, predicted_last, done,
                     accepted>>,
         now' \in Nat, now <= now'
  PROVE  TeleInv'
<1> USE DEF TeleInv
<1>1. /\ UNCHANGED <<queued, inflight, admit_order, next_admit_order,
                     merged_writes, arrival, arrivals>>
      /\ Pending' = Pending
  BY DEF queueState, Pending
<1>2. CounterTypes'
  <2>1. \A c \in Cmd : accepted'[c] <= now' BY DEF CounterTypes, Readable
  <2> QED BY <1>1, <2>1 DEF CounterTypes, Readable
<1>3. PeakInv' BY <1>1 DEF PeakInv
<1>4. SameAnswers(tele', tele) BY DEF SameAnswers
<1> QED BY <1>1, <1>2, <1>3, <1>4, StillTele

LEMMA TeleStep == TeleInv /\ TagsFresh /\ [TeleNext]_teleVars => TeleInv'
<1> SUFFICES ASSUME TeleInv, TagsFresh, [TeleNext]_teleVars PROVE TeleInv'
  OBVIOUS
<1>1. IInv' BY QueueStep DEF TeleInv
<1>2. ASSUME NEW c \in Cmd, TeleAccept(c), UNCHANGED cfg PROVE TeleInv'
  <2>1. CASE coalesce_target(c) # {} BY <1>1, <1>2, <2>1, MergeTele
  <2>2. CASE coalesce_target(c) = {} BY <1>1, <1>2, <2>2, AdmitTele
  <2> QED BY <2>1, <2>2
<1>3. ASSUME NEW c \in Cmd, NEW forced \in BOOLEAN, NEW grouped \in BOOLEAN,
             TeleIssue(c, forced, grouped), UNCHANGED cfg
      PROVE  TeleInv'
  <2>1. CASE c.pre BY <1>1, <1>3, <2>1, LocalTele
  <2>2. CASE ~c.pre BY <1>1, <1>3, <2>2, IssueTele
  <2> QED BY <2>1, <2>2
<1>4. ASSUME NEW c \in inflight, NEW span \in {0, 2}, NEW fault \in Fault,
             TeleRespond(c, span, fault), UNCHANGED cfg
      PROVE  TeleInv'
  BY <1>1, <1>4, RespondTele
<1>5. CASE handle_reset /\ UNCHANGED cfg BY <1>1, <1>5, ResetTele
<1>6. now \in Nat BY DEF TeleInv, CounterTypes, Readable
<1>7. CASE Time /\ UNCHANGED cfg
  <2>1. now' \in Nat /\ now <= now' BY <1>6, <1>7 DEF Time
  <2> QED BY <1>1, <1>7, <2>1, PassTele DEF Time
<1>8. CASE UNCHANGED teleVars
  <2>1. now' \in Nat /\ now <= now' BY <1>6, <1>8 DEF teleVars
  <2> QED BY <1>1, <1>8, <2>1, PassTele DEF teleVars
<1> QED BY <1>2, <1>3, <1>4, <1>5, <1>7, <1>8 DEF TeleNext

LEMMA TeleInvariance == TeleSpec => []TeleInv
BY InitTele, TeleStep, TagInvariance, PTL DEF TeleSpec

LEMMA TeleInvExact == TeleInv => CountersExact
<1> SUFFICES ASSUME TeleInv PROVE CountersExact OBVIOUS
<1>1. CountsAgree /\ ReorderExact BY DEF TeleInv
<1>2. PeakInHistogram
  BY DEF TeleInv, PeakInv, PeakInHistogram, get_cmd_queue_peak_depth, Reported
<1>3. LatencyExact
  <2> SUFFICES ASSUME NoneMerged, Latencies # {}, cfg.perf_counters_enabled
               PROVE  /\ tele.latency_min = Min(Latencies)
                      /\ tele.latency_max = Max(Latencies)
    BY DEF LatencyExact, get_min_latency_ns, get_max_latency_ns, Reported
  <2>1. \A x \in Latencies : x \in Int BY LatencyTypes DEF TeleInv
  <2>2. done # <<>> BY LatencyTypes DEF TeleInv
  <2>3. /\ tele.latency_min \in Latencies /\ tele.latency_max \in Latencies
        /\ \A x \in Latencies : tele.latency_min <= x /\ x <= tele.latency_max
    BY <2>2 DEF TeleInv, ExtremesNoted
  <2>4. /\ Min(Latencies) \in Latencies
        /\ \A x \in Latencies : Min(Latencies) <= x
    BY <2>3, Zenon DEF Min
  <2>5. /\ Max(Latencies) \in Latencies
        /\ \A x \in Latencies : Max(Latencies) >= x
    <3>1. \E m \in Latencies : \A x \in Latencies : m >= x BY <2>1, <2>3
    <3> QED BY <3>1, Zenon DEF Max
  <2> QED BY <2>1, <2>3, <2>4, <2>5
<1> QED BY <1>1, <1>2, <1>3 DEF CountersExact

(* Out of order, merged, pre-resolved and across resets, the performance   *)
(* counters that the controller reports are what the history of the epoch  *)
(* gives: the totals, samples, histogram and port counts agree on the      *)
(* commands answered, the peak is the deepest queue noted, and with no     *)
(* write merged the reorder count and the extreme latencies are exact.     *)
THEOREM CountersAreExact == TeleSpec => []CountersExact
BY TeleInvariance, TeleInvExact, PTL
=============================================================================
