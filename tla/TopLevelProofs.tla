--------------------------- MODULE TopLevelProofs ---------------------------
(***************************************************************************)
(* The two jobs of the top level's run phase.  Refreshes are issued at     *)
(* their rate: whatever tREFI, the policy and the deferral limit are, and  *)
(* wherever the resets fall, no interval is lost or counted twice, none is *)
(* put off past the limit, and one loop keeps the time.  The status probe  *)
(* shows, at each look, what happened since the look before.               *)
(***************************************************************************)
EXTENDS MCTopLevel, WellFoundedInduction, TLAPS


(* The bag that holds one loop, with t to sleep.                           *)
Sleeping(t) == SetToBag({t})

(* The engine's fields, and that the engine is armed, the loop is held and *)
(* reset is seen released all at once.                                     *)
EngineTypeOK ==
  /\ cfg \in Cfg
  /\ eng \in [armed : BOOLEAN, ref_ctr : Nat, refresh_count : Nat,
              deferred_debt : Nat, peak_deferred_debt : Nat,
              deferred_catchup_count : Nat]
  /\ task \in {"none", "set"} /\ elapsed \in Nat
  /\ top \in [last_rst : {0, 1}, waiting : BOOLEAN]
  /\ eng.armed <=> task = "set"
  /\ eng.armed <=> top.last_rst = 1

(* The loop has slept k times and is t short of the next tick; k bursts    *)
(* are sent or owed.                                                       *)
OnTime(k, t) ==
  /\ loops = Sleeping(t)
  /\ elapsed = Interval * k + (Interval - t)
  /\ eng.refresh_count + eng.deferred_debt * NRanks = k * NRanks

Timed ==
  IF eng.armed THEN \E k \in Nat, t \in 0 .. Interval : OnTime(k, t)
               ELSE loops = EmptyBag /\ eng = Cleared

(* Only the deferred policy owes anything, and all it sent were catch-ups  *)
(* of the whole limit.                                                     *)
Deferred ==
  /\ cfg.refresh_policy = "PERIODIC" =>
       /\ eng.deferred_debt = 0 /\ eng.deferred_catchup_count = 0
       /\ eng.peak_deferred_debt = 0
  /\ cfg.refresh_policy = "DEFERRED" =>
       eng.refresh_count = eng.deferred_catchup_count * (limit * NRanks)
  /\ eng.deferred_debt < limit
  /\ eng.peak_deferred_debt <= limit
  /\ eng.deferred_catchup_count > 0 => eng.peak_deferred_debt = limit

RefreshInv == EngineTypeOK /\ Timed /\ Deferred

(***************************************************************************)
(* Bags of at most one loop                                                *)
(***************************************************************************)

LEMMA SleepingFacts ==
  ASSUME NEW t
  PROVE  DOMAIN Sleeping(t) = {t} /\ Sleeping(t) # EmptyBag
  BY DEF Sleeping, SetToBag, EmptyBag

LEMMA SleepsAgain ==
  ASSUME NEW n
  PROVE  Sleeping(0) (-) SetToBag({0}) (+) SetToBag({n}) = Sleeping(n)
  BY DEF Sleeping, SetToBag, (+), (-)

LEMMA Killed ==
  ASSUME NEW t, NEW u \in DOMAIN Sleeping(t)
  PROVE  Sleeping(t) (-) SetToBag({u}) = EmptyBag
  BY DEF Sleeping, SetToBag, EmptyBag, (-)

LEMMA Started ==
  ASSUME NEW n
  PROVE  EmptyBag (+) SetToBag({n}) = Sleeping(n)
  BY DEF Sleeping, SetToBag, EmptyBag, (+)

LEMMA TimeLeft ==
  ASSUME NEW t \in Int
  PROVE  [x \in {u - 1 : u \in DOMAIN Sleeping(t)} |-> Sleeping(t)[x + 1]]
           = Sleeping(t - 1)
  BY DEF Sleeping, SetToBag

(***************************************************************************)
(* Arithmetic                                                              *)
(***************************************************************************)

LEMMA IntervalType == ASSUME cfg \in Cfg PROVE Interval \in Nat \ {0}
  BY RefreshAssumption DEF Interval

LEMMA LimitType == ASSUME cfg \in Cfg PROVE limit \in Nat \ {0}
  BY RefreshAssumption DEF limit

(* The quotient of a number written with a remainder.                      *)
LEMMA Quotient ==
  ASSUME NEW n \in Nat \ {0}, NEW k \in Nat, NEW r \in 0 .. n - 1
  PROVE  (n * k + r) \div n = k
<1> DEFINE x == n * k + r
           d == x \div n
<1>1. n * k \in Nat BY SMT
<1>2. x \in Nat /\ n * k <= x /\ x < n * k + n BY <1>1
<1> HIDE DEF x
<1>3. d \in Int /\ n * d <= x /\ x < n * d + n BY <1>2
<1> HIDE DEF d
<1>4. ASSUME NEW a \in Int, NEW b \in Int, b < a PROVE n * b + n <= n * a
  <2>1. b + 1 <= a BY <1>4
  <2>2. n * (b + 1) <= n * a BY <2>1
  <2>3. n * (b + 1) = n * b + n OBVIOUS
  <2> QED BY <2>2, <2>3
<1>5. n * d \in Int BY <1>3
<1>6. ~(d < k) BY <1>1, <1>2, <1>3, <1>4, <1>5
<1>7. ~(k < d) BY <1>1, <1>2, <1>3, <1>4, <1>5
<1>8. d = k BY <1>3, <1>6, <1>7
<1> QED BY <1>8 DEF d, x

LEMMA Distributes ==
  ASSUME NEW a \in Nat, NEW b \in Nat, NEW c \in Nat
  PROVE  /\ (a + b) * c = a * c + b * c
         /\ a * c \in Nat /\ b * c \in Nat
  BY SMT

(***************************************************************************)
(* The steps                                                               *)
(***************************************************************************)

(* A started loop sleeps a whole interval and an armed engine owes none.   *)
LEMMA EpochBegins ==
  ASSUME cfg \in Cfg, cfg' = cfg, task' = "set", elapsed' = 0,
         eng' = [Cleared EXCEPT !.armed = TRUE],
         loops' = Sleeping(Interval),
         top' \in [last_rst : {1}, waiting : BOOLEAN]
  PROVE  RefreshInv'
<1>1. Interval \in Nat \ {0} /\ limit \in Nat \ {0} /\ NRanks \in Nat
  BY IntervalType, LimitType, RefreshAssumption
<1>2. Interval' = Interval /\ limit' = limit BY DEF Interval, limit
<1>3. /\ eng'.armed = TRUE /\ eng'.refresh_count = 0 /\ eng'.deferred_debt = 0
      /\ eng'.peak_deferred_debt = 0 /\ eng'.deferred_catchup_count = 0
  BY DEF Cleared
<1>4. EngineTypeOK' BY DEF EngineTypeOK, Cleared
<1>5. Interval * 0 + (Interval - Interval) = 0 /\ 0 * NRanks = 0
      /\ Interval \in 0 .. Interval
  BY <1>1
<1>6. OnTime(0, Interval)' BY <1>2, <1>3, <1>5 DEF OnTime, Sleeping
<1>7. Timed' BY <1>2, <1>3, <1>5, <1>6 DEF Timed
<1>8. 0 * (limit * NRanks) = 0 BY <1>1
<1>9. Deferred' BY <1>1, <1>2, <1>3, <1>8 DEF Deferred
<1> QED BY <1>4, <1>7, <1>9 DEF RefreshInv

LEMMA StartBegins ==
  ASSUME cfg \in Cfg, cfg' = cfg, elapsed' = 0,
         eng' = Start(Cleared, EmptyBag, "none").eng,
         loops' = Start(Cleared, EmptyBag, "none").loops,
         task' = Start(Cleared, EmptyBag, "none").task,
         top' \in [last_rst : {1}, waiting : BOOLEAN]
  PROVE  RefreshInv'
<1>1. loops' = Sleeping(Interval) /\ task' = "set"
      /\ eng' = [Cleared EXCEPT !.armed = TRUE]
  BY Started DEF Start
<1> QED BY <1>1, EpochBegins

(* One tick: a burst is sent or owed, and a debt at its limit is paid.     *)
LEMMA TickExact ==
  ASSUME EngineTypeOK, Deferred
  PROVE  LET e == tick(eng)
         IN /\ e \in [armed : BOOLEAN, ref_ctr : Nat, refresh_count : Nat,
                      deferred_debt : Nat, peak_deferred_debt : Nat,
                      deferred_catchup_count : Nat]
            /\ e.armed = eng.armed
            /\ e.refresh_count + e.deferred_debt * NRanks
                 = (eng.refresh_count + eng.deferred_debt * NRanks) + NRanks
            /\ cfg.refresh_policy = "PERIODIC" =>
                 /\ e.deferred_debt = 0 /\ e.deferred_catchup_count = 0
                 /\ e.peak_deferred_debt = 0
            /\ cfg.refresh_policy = "DEFERRED" =>
                 e.refresh_count = e.deferred_catchup_count * (limit * NRanks)
            /\ e.deferred_debt < limit
            /\ e.peak_deferred_debt <= limit
            /\ e.deferred_catchup_count > 0 => e.peak_deferred_debt = limit
<1> DEFINE debt == eng.deferred_debt
           paid == eng.refresh_count
           ups == eng.deferred_catchup_count
           peak == eng.peak_deferred_debt
<1>1. /\ eng \in [armed : BOOLEAN, ref_ctr : Nat, refresh_count : Nat,
                  deferred_debt : Nat, peak_deferred_debt : Nat,
                  deferred_catchup_count : Nat]
      /\ debt \in Nat /\ paid \in Nat /\ ups \in Nat /\ peak \in Nat
      /\ cfg.refresh_policy \in {"PERIODIC", "DEFERRED"}
      /\ limit \in Nat \ {0} /\ NRanks \in Nat
  BY RefreshAssumption, LimitType DEF EngineTypeOK
<1>2. /\ (debt + 1) * NRanks = debt * NRanks + NRanks
      /\ debt * NRanks \in Nat /\ (debt + 1) * NRanks \in Nat
      /\ 1 * NRanks = NRanks /\ 0 * NRanks = 0
  BY <1>1, Distributes
<1>3. (ups + 1) * (limit * NRanks) = ups * (limit * NRanks) + limit * NRanks
  <2>1. limit * NRanks \in Nat BY <1>1
  <2> QED BY <1>1, <2>1, Distributes
<1>4. CASE cfg.refresh_policy = "PERIODIC"
  <2>1. tick(eng) = [eng EXCEPT !.ref_ctr = @ + NRanks,
                                !.refresh_count = @ + NRanks]
    BY <1>1, <1>2, <1>4 DEF tick, emit_refresh_burst
  <2>2. /\ tick(eng).refresh_count = paid + NRanks
        /\ tick(eng).deferred_debt = debt /\ tick(eng).armed = eng.armed
        /\ tick(eng).deferred_catchup_count = ups
        /\ tick(eng).peak_deferred_debt = peak
        /\ tick(eng) \in [armed : BOOLEAN, ref_ctr : Nat, refresh_count : Nat,
                          deferred_debt : Nat, peak_deferred_debt : Nat,
                          deferred_catchup_count : Nat]
    <3>1. eng.ref_ctr + NRanks \in Nat /\ eng.refresh_count + NRanks \in Nat
      BY <1>1
    <3> QED BY <1>1, <2>1, <3>1
  <2>3. debt = 0 /\ ups = 0 /\ peak = 0 BY <1>4 DEF Deferred
  <2> HIDE DEF debt, paid, ups, peak
  <2> QED BY <1>1, <1>2, <1>4, <2>2, <2>3 DEF debt, paid, ups, peak
<1>5. CASE cfg.refresh_policy = "DEFERRED" /\ debt + 1 < limit
  <2>1. tick(eng) = [eng EXCEPT !.deferred_debt = debt + 1,
          !.peak_deferred_debt = IF debt + 1 > @ THEN debt + 1 ELSE @]
    BY <1>1, <1>5 DEF tick, tick_deferred
  <2>2. /\ tick(eng).refresh_count = paid
        /\ tick(eng).deferred_debt = debt + 1 /\ tick(eng).armed = eng.armed
        /\ tick(eng).deferred_catchup_count = ups
        /\ tick(eng).peak_deferred_debt \in {peak, debt + 1}
        /\ tick(eng).peak_deferred_debt >= peak
        /\ tick(eng) \in [armed : BOOLEAN, ref_ctr : Nat, refresh_count : Nat,
                          deferred_debt : Nat, peak_deferred_debt : Nat,
                          deferred_catchup_count : Nat]
    <3> DEFINE top_debt == IF debt + 1 > peak THEN debt + 1 ELSE peak
    <3>1. top_debt \in Nat /\ top_debt \in {peak, debt + 1} /\ top_debt >= peak
          /\ debt + 1 \in Nat
      BY <1>1
    <3>2. tick(eng) = [eng EXCEPT !.deferred_debt = debt + 1,
                                  !.peak_deferred_debt = top_debt]
      BY <2>1
    <3> HIDE DEF top_debt
    <3> QED BY <1>1, <3>1, <3>2
  <2>3. /\ paid = ups * (limit * NRanks) /\ peak <= limit
        /\ ups > 0 => peak = limit
    BY <1>5 DEF Deferred
  <2> QED BY <1>1, <1>2, <1>5, <2>2, <2>3
<1>6. CASE cfg.refresh_policy = "DEFERRED" /\ ~(debt + 1 < limit)
  <2>1. debt + 1 = limit BY <1>1, <1>6 DEF Deferred
  <2>2. tick(eng) = [eng EXCEPT
          !.deferred_debt = 0, !.deferred_catchup_count = ups + 1,
          !.ref_ctr = @ + limit * NRanks, !.refresh_count = @ + limit * NRanks,
          !.peak_deferred_debt = IF limit > @ THEN limit ELSE @]
    BY <1>1, <1>6, <2>1 DEF tick, tick_deferred, emit_refresh_burst
  <2>3. limit * NRanks \in Nat /\ limit * NRanks = debt * NRanks + NRanks
    BY <1>2, <2>1
  <2>4. tick(eng).refresh_count = paid + limit * NRanks
        /\ tick(eng).deferred_debt = 0
        /\ tick(eng).deferred_catchup_count = ups + 1
        /\ tick(eng).peak_deferred_debt = limit
        /\ tick(eng).armed = eng.armed
    BY <1>1, <2>2 DEF Deferred
  <2>5. tick(eng) \in [armed : BOOLEAN, ref_ctr : Nat, refresh_count : Nat,
                       deferred_debt : Nat, peak_deferred_debt : Nat,
                       deferred_catchup_count : Nat]
    <3> DEFINE rows == eng.ref_ctr + limit * NRanks
               sent == eng.refresh_count + limit * NRanks
               top_debt == IF limit > peak THEN limit ELSE peak
               caught == ups + 1
    <3>1. rows \in Nat /\ sent \in Nat /\ caught \in Nat /\ top_debt \in Nat
      BY <1>1, <2>3
    <3>2. tick(eng) = [eng EXCEPT
            !.deferred_debt = 0, !.deferred_catchup_count = caught,
            !.ref_ctr = rows, !.refresh_count = sent,
            !.peak_deferred_debt = top_debt]
      BY <2>2
    <3>3. eng \in [armed : BOOLEAN, ref_ctr : Nat, refresh_count : Nat,
                   deferred_debt : Nat, peak_deferred_debt : Nat,
                   deferred_catchup_count : Nat]
      BY <1>1
    <3> HIDE DEF rows, sent, caught, top_debt
    <3>4. tick(eng) = [armed |-> eng.armed, ref_ctr |-> rows,
            refresh_count |-> sent, deferred_debt |-> 0,
            peak_deferred_debt |-> top_debt, deferred_catchup_count |-> caught]
      BY <3>2, <3>3
    <3> QED BY <3>1, <3>3, <3>4
  <2> QED BY <1>1, <1>2, <1>3, <1>6, <2>3, <2>4, <2>5 DEF Deferred
<1> QED BY <1>1, <1>4, <1>5, <1>6

LEMMA LoopTimed ==
  ASSUME RefreshInv, refresh_loop, cfg' = cfg
  PROVE  RefreshInv'
<1>1. /\ BagIn(0, loops)
      /\ eng' = IF eng.armed THEN tick(eng) ELSE eng
      /\ loops' = loops (-) SetToBag({0}) (+) SetToBag({Interval})
      /\ UNCHANGED <<task, top, elapsed, resets>>
  BY DEF refresh_loop
<1>2. eng.armed
  BY <1>1 DEF RefreshInv, Timed, EmptyBag, SetToBag, BagIn, BagToSet
<1>3. PICK k \in Nat, t \in 0 .. Interval : OnTime(k, t)
  BY <1>2 DEF RefreshInv, Timed
<1>4. t = 0
  <2>1. 0 \in DOMAIN Sleeping(t) BY <1>1, <1>3 DEF OnTime, BagIn, BagToSet
  <2>2. DOMAIN Sleeping(t) = {t} BY SleepingFacts
  <2> QED BY <2>1, <2>2
<1>5. loops' = Sleeping(Interval)
  BY <1>1, <1>3, <1>4, SleepsAgain DEF OnTime
<1>6. /\ Interval \in Nat \ {0} /\ limit \in Nat \ {0} /\ NRanks \in Nat
      /\ Interval' = Interval /\ limit' = limit
  BY IntervalType, LimitType, RefreshAssumption
     DEF RefreshInv, EngineTypeOK, Interval, limit
<1>7. eng' = tick(eng) /\ eng'.armed /\ EngineTypeOK' /\ Deferred'
  BY <1>1, <1>2, <1>6, TickExact DEF RefreshInv, EngineTypeOK, Deferred
<1>8. OnTime(k + 1, Interval)'
  <2>1. eng'.refresh_count + eng'.deferred_debt * NRanks = (k + 1) * NRanks
    <3>1. eng'.refresh_count + eng'.deferred_debt * NRanks = k * NRanks + NRanks
      BY <1>3, <1>7, TickExact DEF OnTime, RefreshInv
    <3> QED BY <1>6, <3>1, Distributes
  <2>2. Interval * (k + 1) + (Interval - Interval) = Interval * k + (Interval - 0)
    <3>1. Interval * (k + 1) = Interval * k + Interval /\ Interval * k \in Nat
      BY <1>6
    <3> QED BY <1>6, <3>1
  <2>3. elapsed' = Interval * (k + 1) + (Interval - Interval)
    BY <1>1, <1>3, <1>4, <2>2 DEF OnTime
  <2> QED BY <1>5, <1>6, <2>1, <2>3 DEF OnTime, Sleeping
<1>9. Timed' BY <1>6, <1>7, <1>8 DEF Timed
<1> QED BY <1>7, <1>9 DEF RefreshInv

LEMMA ArmTimed ==
  ASSUME RefreshInv, arm_after_reset, cfg' = cfg
  PROVE  RefreshInv'
<1>1. /\ top.last_rst = 0 /\ elapsed' = 0
      /\ eng' = Start(eng, loops, task).eng
      /\ loops' = Start(eng, loops, task).loops
      /\ task' = Start(eng, loops, task).task
      /\ top' = [top EXCEPT !.last_rst = 1]
  BY DEF arm_after_reset
<1>2. task = "none" /\ eng = Cleared /\ loops = EmptyBag
  BY <1>1 DEF RefreshInv, EngineTypeOK, Timed
<1>3. top' \in [last_rst : {1}, waiting : BOOLEAN]
  BY <1>1 DEF RefreshInv, EngineTypeOK
<1> QED BY <1>1, <1>2, <1>3, StartBegins DEF RefreshInv, EngineTypeOK

LEMMA ResetTimed ==
  ASSUME RefreshInv, handle_reset, cfg' = cfg
  PROVE  RefreshInv'
<1>1. /\ eng.armed /\ task = "set" /\ eng' = Cleared
      /\ \E t \in DOMAIN loops : loops' = loops (-) SetToBag({t})
      /\ task' = "none" /\ elapsed' = elapsed
      /\ top' = [last_rst |-> 0, waiting |-> TRUE]
  BY DEF handle_reset, flush, RefreshInv, EngineTypeOK
<1>2. PICK k \in Nat, t \in 0 .. Interval : OnTime(k, t)
  BY <1>1 DEF RefreshInv, Timed
<1>3. loops' = EmptyBag
  BY <1>1, <1>2, Killed DEF OnTime
<1>4. ~eng'.armed /\ Timed' BY <1>1, <1>3 DEF Timed, Cleared
<1>5. limit' \in Nat \ {0} /\ NRanks \in Nat /\ 0 * (limit' * NRanks) = 0
  <2>1. limit' = limit BY DEF limit
  <2>2. limit \in Nat \ {0} /\ NRanks \in Nat
    BY LimitType, RefreshAssumption DEF RefreshInv, EngineTypeOK
  <2> QED BY <2>1, <2>2
<1>6. Deferred'
  <2>1. /\ eng'.refresh_count = 0 /\ eng'.deferred_debt = 0
        /\ eng'.peak_deferred_debt = 0 /\ eng'.deferred_catchup_count = 0
    BY <1>1 DEF Cleared
  <2>2. 0 < limit' /\ 0 <= limit' BY <1>5
  <2>3. eng'.refresh_count = eng'.deferred_catchup_count * (limit' * NRanks)
    BY <1>5, <2>1
  <2> QED BY <2>1, <2>2, <2>3 DEF Deferred
<1>7. EngineTypeOK' BY <1>1, <1>4 DEF EngineTypeOK, RefreshInv, Cleared
<1> QED BY <1>4, <1>6, <1>7 DEF RefreshInv

LEMMA TimeTimed ==
  ASSUME RefreshInv, Time, cfg' = cfg
  PROVE  RefreshInv'
<1>1. /\ ~BagIn(0, loops) /\ elapsed' = elapsed + 1
      /\ loops' = [t \in {u - 1 : u \in DOMAIN loops} |-> loops[t + 1]]
      /\ UNCHANGED <<eng, task, top>>
  BY DEF Time
<1>2. Interval' = Interval /\ limit' = limit BY DEF Interval, limit
<1>3. EngineTypeOK' BY <1>1 DEF RefreshInv, EngineTypeOK
<1>4. Deferred' BY <1>1, <1>2 DEF RefreshInv, Deferred
<1>5. CASE eng.armed
  <2>1. PICK k \in Nat, t \in 0 .. Interval : OnTime(k, t)
    BY <1>5 DEF RefreshInv, Timed
  <2>2. Interval \in Nat \ {0} BY IntervalType DEF RefreshInv, EngineTypeOK
  <2>3. t # 0 BY <1>1, <2>1, SleepingFacts DEF OnTime, BagIn, BagToSet
  <2>4. t - 1 \in 0 .. Interval BY <2>2, <2>3
  <2>5. loops' = Sleeping(t - 1) BY <1>1, <2>1, <2>2, TimeLeft DEF OnTime
  <2>6. elapsed' = Interval * k + (Interval - (t - 1))
    <3>1. Interval * k \in Nat BY <2>2
    <3> QED BY <1>1, <2>1, <2>2, <3>1 DEF OnTime
  <2>7. OnTime(k, t - 1)' BY <1>1, <1>2, <2>1, <2>5, <2>6 DEF OnTime, Sleeping
  <2>8. Timed' BY <1>1, <1>2, <1>5, <2>4, <2>7 DEF Timed
  <2> QED BY <1>3, <1>4, <2>8 DEF RefreshInv
<1>6. CASE ~eng.armed
  <2>1. loops' = EmptyBag
    BY <1>1, <1>6 DEF RefreshInv, Timed, EmptyBag, SetToBag
  <2> QED BY <1>1, <1>3, <1>4, <1>6, <2>1 DEF RefreshInv, Timed
<1> QED BY <1>5, <1>6

LEMMA RefreshStep ==
  ASSUME RefreshInv, [Next]_vars
  PROVE  RefreshInv'
<1>1. CASE refresh_loop /\ cfg' = cfg BY <1>1, LoopTimed
<1>2. CASE arm_after_reset /\ cfg' = cfg BY <1>2, ArmTimed
<1>3. CASE handle_reset /\ cfg' = cfg BY <1>3, ResetTimed
<1>4. CASE ResetDone /\ cfg' = cfg
  <2>1. /\ UNCHANGED <<cfg, eng, loops, task, elapsed>>
        /\ top' = [top EXCEPT !.waiting = FALSE]
    BY <1>4 DEF ResetDone
  <2> QED BY <2>1 DEF RefreshInv, EngineTypeOK, Timed, OnTime, Sleeping,
                      Deferred, Interval, limit
<1>5. CASE Time /\ cfg' = cfg BY <1>5, TimeTimed
<1>6. CASE UNCHANGED vars
  BY <1>6 DEF vars, RefreshInv, EngineTypeOK, Timed, OnTime, Sleeping,
              Deferred, Interval, limit
<1> QED BY <1>1, <1>2, <1>3, <1>4, <1>5, <1>6 DEF Next

LEMMA RefreshInit == ASSUME Init PROVE RefreshInv
<1>1. cfg \in Cfg /\ elapsed = 0 BY DEF Init
<1>2. /\ Interval \in Nat \ {0} /\ limit \in Nat \ {0} /\ NRanks \in Nat
      /\ Interval \in 0 .. Interval /\ 0 = Interval * 0 + (Interval - Interval)
      /\ 0 * NRanks = 0 /\ 0 = 0 * (limit * NRanks)
  <2>1. Interval \in Nat \ {0} /\ limit \in Nat \ {0} /\ NRanks \in Nat
    BY <1>1, IntervalType, LimitType, RefreshAssumption
  <2> QED BY <2>1
<1>3. PICK rst \in {0, 1} :
        LET s == IF rst = 1 THEN Start(Cleared, EmptyBag, "none")
                 ELSE [eng |-> Cleared, loops |-> EmptyBag, task |-> "none"]
        IN /\ eng = s.eng /\ loops = s.loops /\ task = s.task
           /\ top = [last_rst |-> rst, waiting |-> FALSE]
  BY DEF Init
<1>4. /\ eng.armed <=> rst = 1
      /\ eng \in {Cleared, [Cleared EXCEPT !.armed = TRUE]}
      /\ rst # 1 => eng = Cleared
      /\ loops = IF rst = 1 THEN Sleeping(Interval) ELSE EmptyBag
      /\ task = IF rst = 1 THEN "set" ELSE "none"
      /\ top.last_rst = rst /\ top \in [last_rst : {0, 1}, waiting : BOOLEAN]
  <2>1. CASE rst = 1
    <3>1. /\ eng = [Cleared EXCEPT !.armed = TRUE] /\ loops = Sleeping(Interval)
          /\ task = "set" /\ top = [last_rst |-> 1, waiting |-> FALSE]
      BY <1>3, <2>1, Started DEF Start
    <3> QED BY <2>1, <3>1 DEF Cleared
  <2>2. CASE rst = 0
    <3>1. /\ eng = Cleared /\ loops = EmptyBag
          /\ task = "none" /\ top = [last_rst |-> 0, waiting |-> FALSE]
      BY <1>3, <2>2
    <3> QED BY <2>2, <3>1 DEF Cleared
  <2> QED BY <2>1, <2>2
<1>5. /\ eng.refresh_count = 0 /\ eng.deferred_debt = 0
      /\ eng.peak_deferred_debt = 0 /\ eng.deferred_catchup_count = 0
  BY <1>4 DEF Cleared
<1>6. EngineTypeOK
  <2>1. eng \in [armed : BOOLEAN, ref_ctr : Nat, refresh_count : Nat,
                 deferred_debt : Nat, peak_deferred_debt : Nat,
                 deferred_catchup_count : Nat]
    <3> DEFINE E == [armed : BOOLEAN, ref_ctr : Nat, refresh_count : Nat,
                     deferred_debt : Nat, peak_deferred_debt : Nat,
                     deferred_catchup_count : Nat]
    <3>1. Cleared \in E BY DEF Cleared
    <3>2. [Cleared EXCEPT !.armed = TRUE] \in E BY <3>1
    <3> QED BY <1>4, <3>1, <3>2
  <2>2. task \in {"none", "set"} /\ (eng.armed <=> task = "set")
        /\ (eng.armed <=> top.last_rst = 1)
    BY <1>4
  <2> QED BY <1>1, <1>4, <2>1, <2>2 DEF EngineTypeOK
<1>7. Timed
  <2>1. CASE rst = 1
    <3>1. OnTime(0, Interval) BY <1>1, <1>2, <1>4, <1>5, <2>1 DEF OnTime
    <3> QED BY <1>2, <1>4, <2>1, <3>1 DEF Timed
  <2>2. CASE rst # 1 BY <1>4, <2>2 DEF Timed, Cleared
  <2> QED BY <2>1, <2>2
<1>8. Deferred
  <2>1. 0 < limit /\ 0 <= limit BY <1>2
  <2>2. eng.refresh_count = eng.deferred_catchup_count * (limit * NRanks)
    BY <1>2, <1>5
  <2> QED BY <1>5, <2>1, <2>2 DEF Deferred
<1> QED BY <1>6, <1>7, <1>8 DEF RefreshInv

(***************************************************************************)
(* What the invariant says                                                 *)
(***************************************************************************)

LEMMA TimedRate == ASSUME RefreshInv PROVE RateExact
<1>1. CASE ~eng.armed BY <1>1 DEF RefreshInv, Timed, RateExact
<1>2. CASE eng.armed
  <2>1. PICK k \in Nat, t \in 0 .. Interval : OnTime(k, t)
    BY <1>2 DEF RefreshInv, Timed
  <2>2. Interval \in Nat \ {0} BY IntervalType DEF RefreshInv, EngineTypeOK
  <2>3. BagIn(0, loops) <=> t = 0
    <3>1. DOMAIN loops = {t} BY <2>1, SleepingFacts DEF OnTime
    <3> QED BY <3>1 DEF BagIn, BagToSet
  <2>4. Ticks = k
    <3>1. CASE t = 0
      <4>1. elapsed = Interval * (k + 1) + 0
        <5>1. Interval * (k + 1) = Interval * k + Interval
              /\ Interval * k \in Nat
          BY <2>2
        <5> QED BY <2>1, <2>2, <3>1, <5>1 DEF OnTime
      <4>2. elapsed \div Interval = k + 1
        BY <2>2, <4>1, Quotient
      <4> QED BY <2>3, <3>1, <4>2 DEF Ticks
    <3>2. CASE t # 0
      <4>1. Interval - t \in 0 .. Interval - 1 BY <2>2, <3>2
      <4>2. elapsed \div Interval = k
        BY <2>1, <2>2, <4>1, Quotient DEF OnTime
      <4> QED BY <2>3, <3>2, <4>2 DEF Ticks
    <3> QED BY <3>1, <3>2
  <2> QED BY <1>2, <2>1, <2>4 DEF OnTime, RateExact
<1> QED BY <1>1, <1>2

LEMMA DeferralBounded == ASSUME RefreshInv PROVE PostponedBounded
<1>1. /\ cfg.refresh_policy \in {"PERIODIC", "DEFERRED"}
      /\ eng.deferred_catchup_count \in Nat /\ limit \in Nat /\ NRanks \in Nat
  BY RefreshAssumption, LimitType DEF RefreshInv, EngineTypeOK
<1>2. /\ eng.deferred_debt < limit /\ eng.peak_deferred_debt <= limit
      /\ eng.deferred_catchup_count > 0 => eng.peak_deferred_debt = limit
  BY DEF RefreshInv, Deferred
<1>3. ASSUME eng.deferred_catchup_count > 0
      PROVE  eng.refresh_count = eng.deferred_catchup_count * limit * NRanks
  <2>1. cfg.refresh_policy = "DEFERRED"
    BY <1>1, <1>3 DEF RefreshInv, Deferred
  <2>2. eng.refresh_count = eng.deferred_catchup_count * (limit * NRanks)
    BY <2>1 DEF RefreshInv, Deferred
  <2>3. ASSUME NEW a \in Nat, NEW b \in Nat, NEW c \in Nat
        PROVE  a * (b * c) = a * b * c
    BY SMT
  <2> QED BY <1>1, <2>2, <2>3
<1> QED BY <1>2, <1>3 DEF PostponedBounded

LEMMA LoopAlone == ASSUME RefreshInv PROVE OneLoop
<1>1. CASE ~eng.armed BY <1>1 DEF RefreshInv, Timed, OneLoop
<1>2. CASE eng.armed
  <2>1. PICK k \in Nat, t \in 0 .. Interval : OnTime(k, t)
    BY <1>2 DEF RefreshInv, Timed
  <2>2. t \in DOMAIN loops /\ loops = SetToBag({t})
    BY <2>1, SleepingFacts DEF OnTime, Sleeping
  <2> QED BY <1>2, <2>2 DEF OneLoop
<1> QED BY <1>1, <1>2

(***************************************************************************)
(* The refreshes sent and owed are one burst over all ranks per tREFI      *)
(* since the engine was armed, none is put off past the limit, and one     *)
(* loop keeps the time (vip_mc_refresh.tick, _refresh_loop, handle_reset), *)
(* for every number of ranks, policy, limit and interval.                  *)
(***************************************************************************)
THEOREM RefreshesOnTime == Spec => []RefreshExact
<1>1. Init => RefreshInv BY RefreshInit
<1>2. RefreshInv /\ [Next]_vars => RefreshInv' BY RefreshStep
<1>3. RefreshInv => RefreshExact
  BY TimedRate, DeferralBounded, LoopAlone DEF RefreshExact
<1> QED BY <1>1, <1>2, <1>3, PTL DEF Spec

(***************************************************************************)
(* The status probe                                                        *)
(***************************************************************************)

(* A nonempty set of natural numbers has a least element.                  *)
LEMMA LeastNat ==
  ASSUME NEW T \in SUBSET Nat, T # {}
  PROVE  \E k \in T : \A j \in T : k <= j
<1>1. \E k \in T : \A j \in T : <<j, k>> \notin OpToRel(<, Nat)
  <2>1. IsWellFoundedOn(OpToRel(<, Nat), Nat)
    BY NatLessThanWellFounded
  <2> QED BY <2>1, WFMin, Zenon
<1>2. PICK k \in T : \A j \in T : <<j, k>> \notin OpToRel(<, Nat)
  BY <1>1
<1>3. ASSUME NEW j \in T PROVE k <= j
  <2>1. j \in Nat /\ k \in Nat OBVIOUS
  <2>2. ~ (j < k) BY <1>2, <2>1 DEF OpToRel
  <2> QED BY <2>1, <2>2
<1> QED BY <1>3

Ports == 0 .. NPorts - 1

Page == {"UNKNOWN", "HIT", "MISS"}
Command == [tag : Nat, port : Int, op : {"NONE", "RD", "REF"}]
Reject == [port : Int, n : Nat]

Backend == [issued_req_count : Nat, completed_cmd_count : Nat,
            last_issued_cmd : Command, last_completed_cmd : Command,
            last_rsp : Page]
Driver == [local_reject_count : Nat, slots : Nat]

Looked ==
  [issued : Nat, completed : Nat, refresh : Nat, reject : [Ports -> Nat]]

Interface ==
  [rst_active : BOOLEAN, rsp_buf_full : BOOLEAN,
   issue_pulse : BOOLEAN, issue : Command,
   complete_pulse : BOOLEAN, complete : Command, page : Page,
   refresh_pulse : BOOLEAN, refresh_rank : Int,
   reject_pulse : BOOLEAN, reject : Reject]

Happened ==
  [issue : Command, complete : Command, refresh : Int, reject : Reject,
   owed : SUBSET Ports]

ProbeTypeOK ==
  /\ be \in Backend
  /\ inflight \subseteq {c \in Command : c.tag > 0}
  /\ fe \in [Ports -> Driver]
  /\ refresh_count \in Nat
  /\ last \in Looked
  /\ vif \in Interface
  /\ run \in [last_rst : {0, 1}, waiting : BOOLEAN]
  /\ since \in Happened
  /\ bound \in [events : Nat, resets : Nat, next_tag : Nat \ {0},
                endless : BOOLEAN]

(* What the next look compares with: nothing, if a reset comes first.      *)
Base == IF run.waiting THEN Probe!NothingSeen ELSE last

(* A count differs from its value at the last look if and only if such an  *)
(* event came since, which is then the one remembered.                     *)
IssueCounted(l) ==
  /\ be.issued_req_count >= l.issued
  /\ be.issued_req_count # l.issued <=> since.issue # Probe!NoCmd
  /\ since.issue # Probe!NoCmd => be.last_issued_cmd = since.issue

CompleteCounted(l) ==
  /\ be.completed_cmd_count >= l.completed
  /\ be.completed_cmd_count # l.completed <=> since.complete # Probe!NoCmd
  /\ since.complete # Probe!NoCmd => be.last_completed_cmd = since.complete

(* A burst refreshes every rank, so its last one is the highest.           *)
RefreshCounted(l) ==
  /\ refresh_count >= l.refresh
  /\ refresh_count # l.refresh <=> since.refresh # -1
  /\ since.refresh # -1 => since.refresh = NRanks - 1
  /\ \E k \in Nat : refresh_count = NRanks * k

Owed(l) ==
  /\ Probe!Unseen(l) = since.owed
  /\ since.reject # Probe!NoReject => since.owed # {}

(* What the last look drove is what had happened.                          *)
Matches ==
  ~run.waiting =>
    /\ Probe!PulsesMatchEvents
    /\ shown.reject # Probe!NoReject => vif.reject_pulse

ProbeInv ==
  /\ ProbeTypeOK
  /\ IssueCounted(Base) /\ CompleteCounted(Base) /\ RefreshCounted(Base)
  /\ Owed(Base)
  /\ Matches

LEMMA Remainder ==
  ASSUME NEW n \in Nat \ {0}, NEW k \in Nat, NEW r \in 0 .. n - 1
  PROVE  (n * k + r) % n = r
<1>1. n * k \in Nat /\ n * k + r \in Int BY SMT
<1>2. (n * k + r) % n = (n * k + r) - n * ((n * k + r) \div n) BY <1>1, SMT
<1>3. (n * k + r) \div n = k BY Quotient
<1> QED BY <1>1, <1>2, <1>3

(* The highest rank is the one a look shows.                               *)
LEMMA LastRank ==
  ASSUME NEW n \in Nat \ {0}, NEW k \in Nat \ {0}
  PROVE  (n * k - 1) % n = n - 1
<1>1. n * k - 1 = n * (k - 1) + (n - 1) BY SMT
<1>2. k - 1 \in Nat /\ n - 1 \in 0 .. n - 1 BY SMT
<1> QED BY <1>1, <1>2, Remainder

LEMMA NothingHappened == Probe!NoEvents \in Happened
<1>1. Probe!NoCmd \in Command BY DEF Probe!NoCmd, Command
<1>2. Probe!NoReject \in Reject BY DEF Probe!NoReject, Reject
<1>3. -1 \in Int /\ {} \in SUBSET Ports OBVIOUS
<1> QED BY <1>1, <1>2, <1>3 DEF Probe!NoEvents, Happened

LEMMA NothingLooked == Probe!NothingSeen \in Looked
  BY DEF Probe!NothingSeen, Probe!Port, Ports, Looked

LEMMA ClearedInterface == Probe!Cleared \in Interface
<1>1. Probe!NoCmd \in Command BY DEF Probe!NoCmd, Command
<1>2. Probe!NoReject \in Reject BY DEF Probe!NoReject, Reject
<1> QED BY <1>1, <1>2 DEF Probe!Cleared, Interface, Page

LEMMA IssueShown ==
  ASSUME NEW v \in Interface, NEW l, ProbeTypeOK, IssueCounted(l)
  PROVE  LET w == Probe!update_status_issue_pulse(v, l)
         IN /\ w \in Interface
            /\ w.issue_pulse = (since.issue # Probe!NoCmd)
            /\ w.issue_pulse => w.issue = since.issue
<1> DEFINE w == Probe!update_status_issue_pulse(v, l)
<1>1. be.last_issued_cmd \in Command BY DEF ProbeTypeOK, Backend
<1>2. CASE since.issue # Probe!NoCmd
  <2>1. w = [v EXCEPT !.issue_pulse = TRUE, !.issue = be.last_issued_cmd]
    BY <1>2 DEF IssueCounted, Probe!update_status_issue_pulse
  <2> HIDE DEF w
  <2>2. w \in Interface BY <1>1, <2>1 DEF Interface
  <2>3. w.issue_pulse = TRUE /\ w.issue = be.last_issued_cmd
    BY <2>1 DEF Interface
  <2> QED BY <1>2, <2>2, <2>3 DEF w, IssueCounted
<1>3. CASE since.issue = Probe!NoCmd
  <2>1. w = [v EXCEPT !.issue_pulse = FALSE]
    BY <1>3 DEF IssueCounted, Probe!update_status_issue_pulse
  <2> HIDE DEF w
  <2>2. w \in Interface /\ w.issue_pulse = FALSE BY <2>1 DEF Interface
  <2> QED BY <1>3, <2>2 DEF w
<1> QED BY <1>2, <1>3

LEMMA CompleteShown ==
  ASSUME NEW v \in Interface, NEW l, ProbeTypeOK, CompleteCounted(l)
  PROVE  LET w == Probe!update_status_complete_pulse(v, l)
         IN /\ w \in Interface
            /\ w.issue_pulse = v.issue_pulse /\ w.issue = v.issue
            /\ w.complete_pulse = (since.complete # Probe!NoCmd)
            /\ w.complete_pulse => w.complete = since.complete
<1> DEFINE w == Probe!update_status_complete_pulse(v, l)
<1>1. be.last_completed_cmd \in Command /\ be.last_rsp \in Page
  BY DEF ProbeTypeOK, Backend
<1>2. CASE since.complete # Probe!NoCmd
  <2>1. w = [v EXCEPT !.complete_pulse = TRUE,
                      !.complete = be.last_completed_cmd, !.page = be.last_rsp]
    BY <1>2 DEF CompleteCounted, Probe!update_status_complete_pulse
  <2> HIDE DEF w
  <2>2. w \in Interface BY <1>1, <2>1 DEF Interface
  <2>3. w.complete_pulse = TRUE /\ w.complete = be.last_completed_cmd
        /\ w.issue_pulse = v.issue_pulse /\ w.issue = v.issue
    BY <2>1 DEF Interface
  <2> QED BY <1>2, <2>2, <2>3 DEF w, CompleteCounted
<1>3. CASE since.complete = Probe!NoCmd
  <2>1. w = [v EXCEPT !.complete_pulse = FALSE]
    BY <1>3 DEF CompleteCounted, Probe!update_status_complete_pulse
  <2> HIDE DEF w
  <2>2. w \in Interface /\ w.complete_pulse = FALSE
        /\ w.issue_pulse = v.issue_pulse /\ w.issue = v.issue
    BY <2>1 DEF Interface
  <2> QED BY <1>3, <2>2 DEF w
<1> QED BY <1>2, <1>3

LEMMA RejectDriven ==
  ASSUME NEW v \in Interface, NEW l, ProbeTypeOK, Owed(l)
  PROVE  LET w == Probe!update_status_reject_pulse(v, l)
         IN /\ w \in Interface
            /\ w.issue_pulse = v.issue_pulse /\ w.issue = v.issue
            /\ w.complete_pulse = v.complete_pulse
            /\ w.complete = v.complete
            /\ w.reject_pulse = (since.owed # {})
            /\ w.reject_pulse => w.reject.port = Probe!FirstUnseen(l)
<1> DEFINE w == Probe!update_status_reject_pulse(v, l)
           p == Probe!FirstUnseen(l)
<1>1. Probe!Unseen(l) = since.owed BY DEF Owed
<1>2. CASE since.owed # {}
  <2> DEFINE r == [port |-> p, n |-> fe[p].local_reject_count]
  <2>1. w = [v EXCEPT !.reject_pulse = TRUE, !.reject = r]
    BY <1>1, <1>2 DEF Probe!update_status_reject_pulse
  <2>2. p \in Ports
    <3>1. since.owed \subseteq Ports /\ since.owed \in SUBSET Nat
      BY DEF ProbeTypeOK, Happened, Ports
    <3>2. \E q \in since.owed : \A o \in since.owed : q <= o
      BY <1>2, <3>1, LeastNat
    <3>3. p \in since.owed BY <1>1, <3>2 DEF Probe!FirstUnseen
    <3> QED BY <3>1, <3>3
  <2>3. r \in Reject /\ r.port = p
    <3>1. fe[p].local_reject_count \in Nat BY <2>2 DEF ProbeTypeOK, Driver
    <3>2. p \in Int BY <2>2 DEF Ports
    <3> QED BY <3>1, <3>2 DEF Reject
  <2> HIDE DEF w, r, p
  <2>4. w \in Interface BY <2>1, <2>3 DEF Interface
  <2>5. w.reject_pulse = TRUE /\ w.reject = r
        /\ w.issue_pulse = v.issue_pulse /\ w.issue = v.issue
        /\ w.complete_pulse = v.complete_pulse /\ w.complete = v.complete
    BY <2>1 DEF Interface
  <2> QED BY <1>2, <2>3, <2>4, <2>5 DEF w, p
<1>3. CASE since.owed = {}
  <2>1. w = [v EXCEPT !.reject_pulse = FALSE, !.reject = Probe!NoReject]
    BY <1>1, <1>3 DEF Probe!update_status_reject_pulse
  <2>2. Probe!NoReject \in Reject BY DEF Probe!NoReject, Reject
  <2> HIDE DEF w
  <2>3. w \in Interface BY <2>1, <2>2 DEF Interface
  <2>4. w.reject_pulse = FALSE
        /\ w.issue_pulse = v.issue_pulse /\ w.issue = v.issue
        /\ w.complete_pulse = v.complete_pulse /\ w.complete = v.complete
    BY <2>1 DEF Interface
  <2> QED BY <1>3, <2>3, <2>4 DEF w
<1> QED BY <1>2, <1>3

LEMMA RefreshDriven ==
  ASSUME NEW v \in Interface, NEW l \in Looked, ProbeTypeOK, RefreshCounted(l)
  PROVE  LET w == Probe!update_status_refresh(v, l)
         IN /\ w \in Interface
            /\ w.issue_pulse = v.issue_pulse /\ w.issue = v.issue
            /\ w.complete_pulse = v.complete_pulse
            /\ w.complete = v.complete
            /\ w.reject_pulse = v.reject_pulse /\ w.reject = v.reject
            /\ w.refresh_pulse = (since.refresh # -1)
            /\ w.refresh_pulse => w.refresh_rank = since.refresh
<1> DEFINE w == Probe!update_status_refresh(v, l)
           rank == (refresh_count - 1) % NRanks
<1>0. NRanks \in Nat \ {0} BY RefreshAssumption
<1>1. CASE since.refresh # -1
  <2>1. refresh_count # l.refresh /\ refresh_count >= l.refresh
        /\ since.refresh = NRanks - 1
    BY <1>1 DEF RefreshCounted
  <2>2. l.refresh \in Nat BY DEF Looked
  <2>3. PICK k \in Nat : refresh_count = NRanks * k BY DEF RefreshCounted
  <2>4. k # 0
    <3>1. refresh_count # 0 BY <2>1, <2>2 DEF ProbeTypeOK
    <3> QED BY <1>0, <2>3, <3>1
  <2>5. rank = NRanks - 1
    BY <1>0, <2>3, <2>4, LastRank
  <2>6. rank \in Int BY <1>0, <2>5
  <2>7. w = [v EXCEPT !.refresh_pulse = TRUE, !.refresh_rank = rank]
    BY <2>1 DEF Probe!update_status_refresh
  <2> HIDE DEF w, rank
  <2>8. w \in Interface BY <2>6, <2>7 DEF Interface
  <2>9. w.refresh_pulse = TRUE /\ w.refresh_rank = rank
        /\ w.issue_pulse = v.issue_pulse /\ w.issue = v.issue
        /\ w.complete_pulse = v.complete_pulse /\ w.complete = v.complete
        /\ w.reject_pulse = v.reject_pulse /\ w.reject = v.reject
    BY <2>7 DEF Interface
  <2> QED BY <1>1, <2>1, <2>5, <2>8, <2>9 DEF w
<1>2. CASE since.refresh = -1
  <2>1. w = [v EXCEPT !.refresh_pulse = FALSE]
    BY <1>2 DEF RefreshCounted, Probe!update_status_refresh
  <2> HIDE DEF w
  <2>2. w \in Interface /\ w.refresh_pulse = FALSE
        /\ w.issue_pulse = v.issue_pulse /\ w.issue = v.issue
        /\ w.complete_pulse = v.complete_pulse /\ w.complete = v.complete
        /\ w.reject_pulse = v.reject_pulse /\ w.reject = v.reject
    BY <2>1 DEF Interface
  <2> QED BY <1>2, <2>2 DEF w
<1> QED BY <1>1, <1>2

(* The whole snapshot of a look.                                           *)
LEMMA SnapshotExact ==
  ASSUME NEW v \in Interface, NEW l \in Looked, ProbeTypeOK,
         IssueCounted(l), CompleteCounted(l), RefreshCounted(l), Owed(l)
  PROVE  LET w == Probe!update_status_snapshot(v, l)
         IN /\ w \in Interface
            /\ w.issue_pulse = (since.issue # Probe!NoCmd)
            /\ w.issue_pulse => w.issue = since.issue
            /\ w.complete_pulse = (since.complete # Probe!NoCmd)
            /\ w.complete_pulse => w.complete = since.complete
            /\ w.refresh_pulse = (since.refresh # -1)
            /\ w.refresh_pulse => w.refresh_rank = since.refresh
            /\ w.reject_pulse = (since.owed # {})
            /\ w.reject_pulse => w.reject.port = Probe!FirstUnseen(l)
<1> DEFINE v1 == Probe!update_status_issue_pulse(v, l)
           v2 == Probe!update_status_complete_pulse(v1, l)
           v3 == Probe!update_status_reject_pulse(v2, l)
           v4 == Probe!update_status_refresh(v3, l)
           w == Probe!update_status_snapshot(v, l)
           full == RspBufDepth > 0 /\ Probe!UsedSlots >= RspBufDepth
<1>1. /\ v1 \in Interface
      /\ v1.issue_pulse = (since.issue # Probe!NoCmd)
      /\ v1.issue_pulse => v1.issue = since.issue
  BY IssueShown
<1>2. /\ v2 \in Interface
      /\ v2.issue_pulse = v1.issue_pulse /\ v2.issue = v1.issue
      /\ v2.complete_pulse = (since.complete # Probe!NoCmd)
      /\ v2.complete_pulse => v2.complete = since.complete
  <2> HIDE DEF v1
  <2> QED BY <1>1, CompleteShown
<1>3. /\ v3 \in Interface
      /\ v3.issue_pulse = v2.issue_pulse /\ v3.issue = v2.issue
      /\ v3.complete_pulse = v2.complete_pulse /\ v3.complete = v2.complete
      /\ v3.reject_pulse = (since.owed # {})
      /\ v3.reject_pulse => v3.reject.port = Probe!FirstUnseen(l)
  <2> HIDE DEF v2
  <2> QED BY <1>2, RejectDriven
<1>4. /\ v4 \in Interface
      /\ v4.issue_pulse = v3.issue_pulse /\ v4.issue = v3.issue
      /\ v4.complete_pulse = v3.complete_pulse /\ v4.complete = v3.complete
      /\ v4.reject_pulse = v3.reject_pulse /\ v4.reject = v3.reject
      /\ v4.refresh_pulse = (since.refresh # -1)
      /\ v4.refresh_pulse => v4.refresh_rank = since.refresh
  <2> HIDE DEF v3
  <2> QED BY <1>3, RefreshDriven
<1>5. w = [v4 EXCEPT !.rsp_buf_full = full]
  BY DEF Probe!update_status_snapshot, Probe!update_status_rsp_buf_summary
<1>6. full \in BOOLEAN OBVIOUS
<1> HIDE DEF w, v1, v2, v3, v4, full
<1>7. /\ w \in Interface
      /\ w.issue_pulse = v4.issue_pulse /\ w.issue = v4.issue
      /\ w.complete_pulse = v4.complete_pulse /\ w.complete = v4.complete
      /\ w.reject_pulse = v4.reject_pulse /\ w.reject = v4.reject
      /\ w.refresh_pulse = v4.refresh_pulse
      /\ w.refresh_rank = v4.refresh_rank
  BY <1>4, <1>5, <1>6 DEF Interface
<1>8. /\ w \in Interface
      /\ w.issue_pulse = (since.issue # Probe!NoCmd)
      /\ w.issue_pulse => w.issue = since.issue
      /\ w.complete_pulse = (since.complete # Probe!NoCmd)
      /\ w.complete_pulse => w.complete = since.complete
      /\ w.refresh_pulse = (since.refresh # -1)
      /\ w.refresh_pulse => w.refresh_rank = since.refresh
      /\ w.reject_pulse = (since.owed # {})
      /\ w.reject_pulse => w.reject.port = Probe!FirstUnseen(l)
  BY <1>1, <1>2, <1>3, <1>4, <1>7
<1> QED BY <1>8 DEF w

(* A look shows what happened, and remembers all of it but the rejects it  *)
(* could not show.                                                         *)
LEMMA LookExact ==
  ASSUME NEW v \in Interface, NEW l \in Looked, ProbeTypeOK,
         IssueCounted(l), CompleteCounted(l), RefreshCounted(l), Owed(l),
         Probe!Look(v, l),
         UNCHANGED <<be, inflight, fe, refresh_count, bound>>,
         run' \in [last_rst : {0, 1}, waiting : BOOLEAN], ~run'.waiting
  PROVE  ProbeInv'
<1> DEFINE first == Probe!FirstUnseen(l)
<1>1. /\ vif' = Probe!update_status_snapshot(v, l)
      /\ last' = Probe!Seen(l)
      /\ shown' = since
      /\ since' = [Probe!NoEvents EXCEPT !.owed =
                     IF vif'.reject_pulse
                     THEN since.owed \ {vif'.reject.port} ELSE since.owed]
  BY DEF Probe!Look
<1>2. /\ vif' \in Interface
      /\ vif'.issue_pulse = (since.issue # Probe!NoCmd)
      /\ vif'.issue_pulse => vif'.issue = since.issue
      /\ vif'.complete_pulse = (since.complete # Probe!NoCmd)
      /\ vif'.complete_pulse => vif'.complete = since.complete
      /\ vif'.refresh_pulse = (since.refresh # -1)
      /\ vif'.refresh_pulse => vif'.refresh_rank = since.refresh
      /\ vif'.reject_pulse = (since.owed # {})
      /\ vif'.reject_pulse => vif'.reject.port = first
  BY <1>1, SnapshotExact
<1>3. /\ since'.issue = Probe!NoCmd /\ since'.complete = Probe!NoCmd
      /\ since'.refresh = -1 /\ since'.reject = Probe!NoReject
      /\ since'.owed = IF since.owed = {} THEN {} ELSE since.owed \ {first}
      /\ since' \in Happened
  <2> DEFINE left == IF since.owed = {} THEN {} ELSE since.owed \ {first}
  <2>1. since' = [Probe!NoEvents EXCEPT !.owed = left] BY <1>1, <1>2
  <2>2. left \in SUBSET Ports BY DEF ProbeTypeOK, Happened
  <2>3. Probe!NoEvents \in Happened BY NothingHappened
  <2> HIDE DEF left
  <2>4. since' \in Happened BY <2>1, <2>2, <2>3 DEF Happened
  <2>5. since'.owed = left /\ since'.issue = Probe!NoEvents.issue
        /\ since'.complete = Probe!NoEvents.complete
        /\ since'.refresh = Probe!NoEvents.refresh
        /\ since'.reject = Probe!NoEvents.reject
    BY <2>1, <2>3 DEF Happened
  <2> QED BY <2>4, <2>5 DEF left, Probe!NoEvents
<1>4. /\ last'.issued = be.issued_req_count
      /\ last'.completed = be.completed_cmd_count
      /\ last'.refresh = refresh_count
      /\ \A p \in Ports :
           last'.reject[p] = IF since.owed # {} /\ p = first
                             THEN fe[p].local_reject_count ELSE l.reject[p]
      /\ last' \in Looked
  <2> DEFINE seen == [p \in Ports |-> IF since.owed # {} /\ p = first
                                      THEN fe[p].local_reject_count
                                      ELSE l.reject[p]]
  <2>1. last' = [issued |-> be.issued_req_count,
                 completed |-> be.completed_cmd_count,
                 refresh |-> refresh_count, reject |-> seen]
    BY <1>1 DEF Probe!Seen, Probe!Port, Ports, Owed
  <2>2. seen \in [Ports -> Nat] BY DEF ProbeTypeOK, Looked, Driver
  <2>3. be.issued_req_count \in Nat /\ be.completed_cmd_count \in Nat
        /\ refresh_count \in Nat
    BY DEF ProbeTypeOK, Backend
  <2>4. last' \in Looked
    <3> HIDE DEF seen
    <3> QED BY <2>1, <2>2, <2>3 DEF Looked
  <2> QED BY <2>1, <2>4
<1>5. Base' = last' BY DEF Base
<1>6. ProbeTypeOK' BY <1>2, <1>3, <1>4 DEF ProbeTypeOK
<1>7. IssueCounted(last)' /\ CompleteCounted(last)'
  <2>1. be.issued_req_count \in Nat /\ be.completed_cmd_count \in Nat
    BY DEF ProbeTypeOK, Backend
  <2> QED BY <1>3, <1>4, <2>1
          DEF IssueCounted, CompleteCounted, Probe!NoCmd
<1>8. RefreshCounted(last)'
  <2>1. refresh_count \in Nat BY DEF ProbeTypeOK
  <2> QED BY <1>3, <1>4, <2>1 DEF RefreshCounted
<1>9. Owed(last)'
  <2>1. since.owed
          = {p \in Ports : fe[p].local_reject_count # l.reject[p]}
    BY DEF Owed, Probe!Unseen, Probe!Port, Ports
  <2>2. Probe!Unseen(last)'
          = {p \in Ports : fe[p].local_reject_count # last'.reject[p]}
    BY DEF Probe!Unseen, Probe!Port, Ports
  <2>3. Probe!Unseen(last)'
          = IF since.owed = {} THEN {} ELSE since.owed \ {first}
    BY <1>4, <2>1, <2>2
  <2> QED BY <1>3, <2>3 DEF Owed, Probe!NoReject
<1>10. Matches'
  <2>1. since.reject # Probe!NoReject => vif'.reject_pulse
    BY <1>2 DEF Owed
  <2> QED BY <1>1, <1>2, <2>1
          DEF Matches, Probe!PulsesMatchEvents, Probe!NoCmd, Probe!NoReject
<1> QED BY <1>5, <1>6, <1>7, <1>8, <1>9, <1>10 DEF ProbeInv, IssueCounted,
           CompleteCounted, RefreshCounted, Owed, Probe!Unseen

(* Between two looks what they showed and what they compare with stays.    *)
LEMMA BetweenLooks ==
  ASSUME ProbeInv, UNCHANGED <<last, vif, run, shown>>
  PROVE  Base' = Base /\ Matches' /\ Base \in Looked
<1>1. Base' = Base BY DEF Base, Probe!NothingSeen, Probe!Port
<1>2. Matches'
  BY DEF ProbeInv, Matches, Probe!PulsesMatchEvents, Probe!NoCmd,
         Probe!NoReject
<1> QED BY <1>1, <1>2, NothingLooked DEF ProbeInv, ProbeTypeOK, Base

LEMMA IssueKeeps ==
  ASSUME ProbeInv, NEW p \in Ports \cup {-1}, NEW op \in {"RD", "REF"},
         Probe!issue_one(p, op)
  PROVE  ProbeInv'
<1> DEFINE c == [tag |-> bound.next_tag, port |-> p, op |-> op]
<1>1. /\ be' = [be EXCEPT !.last_issued_cmd = c, !.issued_req_count = @ + 1]
      /\ inflight' = inflight \cup {c}
      /\ since' = [since EXCEPT !.issue = c]
      /\ bound' = [bound EXCEPT !.events = @ + 1, !.next_tag = @ + 1]
      /\ UNCHANGED <<stale, fe, refresh_count, last, vif, run, shown>>
  BY DEF Probe!issue_one, Probe!Event, Probe!Producing
<1>2. c \in Command /\ c.tag > 0 /\ c # Probe!NoCmd
  BY DEF ProbeInv, ProbeTypeOK, Command, Ports, Probe!NoCmd
<1> HIDE DEF c
<1>3. /\ be' \in Backend /\ be'.issued_req_count = be.issued_req_count + 1
      /\ be'.last_issued_cmd = c
      /\ be'.completed_cmd_count = be.completed_cmd_count
      /\ be'.last_completed_cmd = be.last_completed_cmd
  <2>1. be \in Backend /\ be.issued_req_count + 1 \in Nat
    BY DEF ProbeInv, ProbeTypeOK, Backend
  <2> QED BY <1>1, <1>2, <2>1 DEF Backend
<1>4. /\ since' \in Happened /\ since'.issue = c
      /\ since'.complete = since.complete /\ since'.refresh = since.refresh
      /\ since'.reject = since.reject /\ since'.owed = since.owed
  <2>1. since \in Happened BY DEF ProbeInv, ProbeTypeOK
  <2> QED BY <1>1, <1>2, <2>1 DEF Happened
<1>5. bound' \in [events : Nat, resets : Nat, next_tag : Nat \ {0},
                  endless : BOOLEAN]
  <2>1. /\ bound \in [events : Nat, resets : Nat, next_tag : Nat \ {0},
                      endless : BOOLEAN]
        /\ bound.events + 1 \in Nat /\ bound.next_tag + 1 \in Nat \ {0}
    BY DEF ProbeInv, ProbeTypeOK
  <2> QED BY <1>1, <2>1
<1>6. ProbeTypeOK'
  BY <1>1, <1>2, <1>3, <1>4, <1>5 DEF ProbeInv, ProbeTypeOK
<1>7. Base' = Base /\ Matches' /\ Base \in Looked BY <1>1, BetweenLooks
<1>8. IssueCounted(Base)'
  <2>1. be.issued_req_count \in Nat /\ Base.issued \in Nat
        /\ be.issued_req_count >= Base.issued
    BY <1>7 DEF ProbeInv, ProbeTypeOK, Backend, Looked, IssueCounted
  <2> QED BY <1>2, <1>3, <1>4, <1>7, <2>1 DEF IssueCounted, Probe!NoCmd
<1>9. CompleteCounted(Base)' /\ RefreshCounted(Base)' /\ Owed(Base)'
  BY <1>1, <1>3, <1>4, <1>7
     DEF ProbeInv, CompleteCounted, RefreshCounted, Owed, Probe!Unseen,
         Probe!Port, Probe!NoCmd, Probe!NoReject
<1> QED BY <1>6, <1>7, <1>8, <1>9 DEF ProbeInv

LEMMA CompleteKeeps ==
  ASSUME ProbeInv, NEW c \in inflight, NEW page \in Page,
         Probe!complete_rsp(c, page)
  PROVE  ProbeInv'
<1>1. /\ inflight' = inflight \ {c}
      /\ bound' = [bound EXCEPT !.events = @ + 1]
      /\ UNCHANGED <<stale, refresh_count, last, vif, run, shown>>
  BY DEF Probe!complete_rsp, Probe!Event, Probe!Producing, Probe!Count
<1>2. c \in Command /\ c.tag > 0 /\ c # Probe!NoCmd
  BY DEF ProbeInv, ProbeTypeOK, Probe!NoCmd
<1>3. bound' \in [events : Nat, resets : Nat, next_tag : Nat \ {0},
                  endless : BOOLEAN]
  <2>1. /\ bound \in [events : Nat, resets : Nat, next_tag : Nat \ {0},
                      endless : BOOLEAN]
        /\ bound.events + 1 \in Nat
    BY DEF ProbeInv, ProbeTypeOK
  <2> QED BY <1>1, <2>1
<1>4. Base' = Base /\ Matches' /\ Base \in Looked BY <1>1, BetweenLooks
<1>5. be \in Backend /\ since \in Happened /\ fe \in [Ports -> Driver]
  BY DEF ProbeInv, ProbeTypeOK
<1>6. CASE c.op = "REF"
  <2>1. be' = [be EXCEPT !.last_rsp = page] /\ UNCHANGED <<fe, since>>
    BY <1>6 DEF Probe!complete_rsp
  <2>2. /\ be' \in Backend /\ be'.issued_req_count = be.issued_req_count
        /\ be'.last_issued_cmd = be.last_issued_cmd
        /\ be'.completed_cmd_count = be.completed_cmd_count
        /\ be'.last_completed_cmd = be.last_completed_cmd
    BY <1>5, <2>1 DEF Backend
  <2>3. ProbeTypeOK'
    BY <1>1, <1>3, <2>1, <2>2 DEF ProbeInv, ProbeTypeOK
  <2>4. IssueCounted(Base)' /\ CompleteCounted(Base)'
        /\ RefreshCounted(Base)' /\ Owed(Base)'
    BY <1>1, <1>4, <2>1, <2>2
       DEF ProbeInv, IssueCounted, CompleteCounted, RefreshCounted, Owed,
           Probe!Unseen, Probe!Port, Probe!NoCmd, Probe!NoReject
  <2> QED BY <1>4, <2>3, <2>4 DEF ProbeInv
<1>7. CASE c.op # "REF"
  <2>1. /\ be' = [be EXCEPT !.last_rsp = page, !.last_completed_cmd = c,
                            !.completed_cmd_count = @ + 1]
        /\ fe' = [fe EXCEPT ![c.port].slots = @ + 1]
        /\ since' = [since EXCEPT !.complete = c]
    BY <1>7 DEF Probe!complete_rsp
  <2>2. /\ be' \in Backend /\ be'.issued_req_count = be.issued_req_count
        /\ be'.last_issued_cmd = be.last_issued_cmd
        /\ be'.completed_cmd_count = be.completed_cmd_count + 1
        /\ be'.last_completed_cmd = c
    <3>1. be.completed_cmd_count + 1 \in Nat BY <1>5 DEF Backend
    <3> QED BY <1>2, <1>5, <2>1, <3>1 DEF Backend
  <2>3. /\ since' \in Happened /\ since'.complete = c
        /\ since'.issue = since.issue /\ since'.refresh = since.refresh
        /\ since'.reject = since.reject /\ since'.owed = since.owed
    BY <1>2, <1>5, <2>1 DEF Happened
  <2>4. /\ fe' \in [Ports -> Driver]
        /\ \A p \in Ports :
             fe'[p].local_reject_count = fe[p].local_reject_count
    <3>1. ASSUME NEW p \in Ports
          PROVE  /\ fe'[p] \in Driver
                 /\ fe'[p].local_reject_count = fe[p].local_reject_count
      <4>1. fe[p] \in Driver /\ fe[p].slots + 1 \in Nat BY <1>5 DEF Driver
      <4>2. fe'[p] = fe[p] \/ fe'[p] = [fe[p] EXCEPT !.slots = @ + 1]
        BY <1>5, <2>1
      <4> QED BY <4>1, <4>2 DEF Driver
    <3>2. fe' = [p \in Ports |-> fe'[p]] BY <1>5, <2>1
    <3> QED BY <3>1, <3>2
  <2>5. ProbeTypeOK'
    BY <1>1, <1>3, <2>2, <2>3, <2>4 DEF ProbeInv, ProbeTypeOK
  <2>6. CompleteCounted(Base)'
    <3>1. be.completed_cmd_count \in Nat /\ Base.completed \in Nat
          /\ be.completed_cmd_count >= Base.completed
      BY <1>4, <1>5 DEF ProbeInv, Backend, Looked, CompleteCounted
    <3> QED BY <1>2, <1>4, <2>2, <2>3, <3>1 DEF CompleteCounted, Probe!NoCmd
  <2>7. IssueCounted(Base)' /\ RefreshCounted(Base)'
    BY <1>1, <1>4, <2>2, <2>3
       DEF ProbeInv, IssueCounted, RefreshCounted, Probe!NoCmd
  <2>8. Owed(Base)'
    BY <1>4, <2>3, <2>4
       DEF ProbeInv, Owed, Probe!Unseen, Probe!Port, Ports, Probe!NoReject
  <2> QED BY <1>4, <2>5, <2>6, <2>7, <2>8 DEF ProbeInv
<1> QED BY <1>6, <1>7

LEMMA StaleKeeps ==
  ASSUME ProbeInv, NEW c \in stale, NEW page \in Page,
         Probe!complete_rsp_stale(c, page)
  PROVE  ProbeInv'
<1>1. /\ be' = [be EXCEPT !.last_rsp = page]
      /\ UNCHANGED <<inflight, fe, refresh_count, last, vif, run, since,
                     shown, bound>>
  BY DEF Probe!complete_rsp_stale
<1>2. Base' = Base /\ Matches' BY <1>1, BetweenLooks
<1>3. /\ be' \in Backend /\ be'.issued_req_count = be.issued_req_count
      /\ be'.last_issued_cmd = be.last_issued_cmd
      /\ be'.completed_cmd_count = be.completed_cmd_count
      /\ be'.last_completed_cmd = be.last_completed_cmd
  <2>1. be \in Backend BY DEF ProbeInv, ProbeTypeOK
  <2> QED BY <1>1, <2>1 DEF Backend
<1>4. ProbeTypeOK' BY <1>1, <1>3 DEF ProbeInv, ProbeTypeOK
<1>5. IssueCounted(Base)' /\ CompleteCounted(Base)'
      /\ RefreshCounted(Base)' /\ Owed(Base)'
  BY <1>1, <1>2, <1>3
     DEF ProbeInv, IssueCounted, CompleteCounted, RefreshCounted, Owed,
         Probe!Unseen, Probe!Port, Probe!NoCmd, Probe!NoReject
<1> QED BY <1>2, <1>4, <1>5 DEF ProbeInv

LEMMA RejectKeeps ==
  ASSUME ProbeInv, NEW p \in Ports, Probe!record_local_reject(p)
  PROVE  ProbeInv'
<1> DEFINE n == Probe!OneMore(fe[p].local_reject_count)
<1>1. /\ n # Probe!SeenRejects(p)
      /\ fe' = [fe EXCEPT ![p] = [local_reject_count |-> n,
                                 slots |-> @.slots + 1]]
      /\ since' = [since EXCEPT !.owed = @ \cup {p},
                                !.reject = [port |-> p, n |-> n]]
      /\ bound' = bound \/ bound' = [bound EXCEPT !.events = @ + 1]
      /\ UNCHANGED <<be, inflight, refresh_count, last, vif, run, shown>>
  BY DEF Probe!record_local_reject, Probe!Producing, Probe!Count
<1>2. fe \in [Ports -> Driver] /\ since \in Happened
      /\ fe[p].local_reject_count \in Nat /\ fe[p].slots \in Nat
      /\ n \in Nat
  <2>1. fe \in [Ports -> Driver] /\ since \in Happened
        /\ fe[p].local_reject_count \in Nat /\ fe[p].slots \in Nat
    BY DEF ProbeInv, ProbeTypeOK, Driver
  <2>2. MaxCount \in Nat BY ProbeAssumption DEF Probe!StatusAssumption
  <2>3. ASSUME NEW k \in Nat PROVE Probe!OneMore(k) \in Nat
    <3>1. CASE MaxCount = 0 BY <3>1 DEF Probe!OneMore
    <3>2. CASE MaxCount # 0
      <4>1. k % MaxCount \in Nat BY <2>2, <3>2
      <4> QED BY <3>2, <4>1 DEF Probe!OneMore
    <3> QED BY <3>1, <3>2
  <2> QED BY <2>1, <2>3
<1> HIDE DEF n
<1>3. /\ fe' \in [Ports -> Driver]
      /\ fe'[p].local_reject_count = n
      /\ \A q \in Ports \ {p} : fe'[q] = fe[q]
  <2> DEFINE d == [local_reject_count |-> n, slots |-> fe[p].slots + 1]
  <2>1. d \in Driver BY <1>2 DEF Driver
  <2>2. fe' = [fe EXCEPT ![p] = d] BY <1>1
  <2>3. d.local_reject_count = n OBVIOUS
  <2> HIDE DEF d
  <2> QED BY <1>2, <2>1, <2>2, <2>3
<1>4. /\ since' \in Happened /\ since'.owed = since.owed \cup {p}
      /\ since'.issue = since.issue /\ since'.complete = since.complete
      /\ since'.refresh = since.refresh
  <2> DEFINE r == [port |-> p, n |-> n]
             owed == since.owed \cup {p}
  <2>1. r \in Reject BY <1>2 DEF Reject, Ports
  <2>2. owed \in SUBSET Ports BY <1>2 DEF Happened
  <2>3. since' = [since EXCEPT !.owed = owed, !.reject = r] BY <1>1
  <2> HIDE DEF r, owed
  <2>4. /\ since' \in Happened /\ since'.owed = owed
        /\ since'.issue = since.issue /\ since'.complete = since.complete
        /\ since'.refresh = since.refresh
    BY <1>2, <2>1, <2>2, <2>3 DEF Happened
  <2> QED BY <2>4 DEF owed
<1>5. bound' \in [events : Nat, resets : Nat, next_tag : Nat \ {0},
                  endless : BOOLEAN]
  <2>1. /\ bound \in [events : Nat, resets : Nat, next_tag : Nat \ {0},
                      endless : BOOLEAN]
        /\ bound.events + 1 \in Nat
    BY DEF ProbeInv, ProbeTypeOK
  <2> QED BY <1>1, <2>1
<1>6. ProbeTypeOK' BY <1>1, <1>3, <1>4, <1>5 DEF ProbeInv, ProbeTypeOK
<1>7. Base' = Base /\ Matches' /\ Base \in Looked BY <1>1, BetweenLooks
<1>8. IssueCounted(Base)' /\ CompleteCounted(Base)' /\ RefreshCounted(Base)'
  BY <1>1, <1>4, <1>7
     DEF ProbeInv, IssueCounted, CompleteCounted, RefreshCounted,
         Probe!NoCmd
<1>9. Owed(Base)'
  <2>1. since.owed
          = {q \in Ports : fe[q].local_reject_count # Base.reject[q]}
    BY DEF ProbeInv, Owed, Probe!Unseen, Probe!Port, Ports
  <2>2. n # Base.reject[p]
    BY <1>1 DEF Base, Probe!SeenRejects, Probe!NothingSeen, Probe!Port, Ports
  <2>3. {q \in Ports : fe'[q].local_reject_count # Base.reject[q]}
          = since.owed \cup {p}
    BY <1>3, <2>1, <2>2
  <2>4. Probe!Unseen(Base)'
          = {q \in Ports : fe'[q].local_reject_count # Base.reject[q]}
    BY <1>7 DEF Probe!Unseen, Probe!Port, Ports
  <2> QED BY <1>4, <1>7, <2>3, <2>4 DEF Owed
<1> QED BY <1>6, <1>7, <1>8, <1>9 DEF ProbeInv

LEMMA SendKeeps ==
  ASSUME ProbeInv, NEW p \in Ports, Probe!SendResponse(p)
  PROVE  ProbeInv'
<1>1. /\ fe[p].slots > 0 /\ fe' = [fe EXCEPT ![p].slots = @ - 1]
      /\ UNCHANGED <<be, inflight, refresh_count, last, vif, run, since,
                     shown, bound>>
  BY DEF Probe!SendResponse
<1>2. /\ fe' \in [Ports -> Driver]
      /\ \A q \in Ports : fe'[q].local_reject_count = fe[q].local_reject_count
  <2>1. fe \in [Ports -> Driver] BY DEF ProbeInv, ProbeTypeOK
  <2>2. ASSUME NEW q \in Ports
        PROVE  /\ fe'[q] \in Driver
               /\ fe'[q].local_reject_count = fe[q].local_reject_count
    <3>1. fe[q] \in Driver BY <2>1
    <3>2. CASE q = p
      <4>1. fe[q].slots - 1 \in Nat BY <1>1, <3>1, <3>2 DEF Driver
      <4>2. fe'[q] = [fe[q] EXCEPT !.slots = @ - 1] BY <1>1, <2>1, <3>2
      <4> QED BY <3>1, <4>1, <4>2 DEF Driver
    <3>3. CASE q # p
      <4>1. fe'[q] = fe[q] BY <1>1, <2>1, <3>3
      <4> QED BY <3>1, <4>1
    <3> QED BY <3>2, <3>3
  <2>3. fe' = [q \in Ports |-> fe'[q]] BY <1>1, <2>1
  <2> QED BY <2>2, <2>3
<1>3. ProbeTypeOK' BY <1>1, <1>2 DEF ProbeInv, ProbeTypeOK
<1>4. Base' = Base /\ Matches' BY <1>1, BetweenLooks
<1>5. IssueCounted(Base)' /\ CompleteCounted(Base)' /\ RefreshCounted(Base)'
  BY <1>1, <1>4 DEF ProbeInv, IssueCounted, CompleteCounted, RefreshCounted,
                    Probe!NoCmd
<1>6. Owed(Base)'
  BY <1>1, <1>2, <1>4
     DEF ProbeInv, Owed, Probe!Unseen, Probe!Port, Ports, Probe!NoReject
<1> QED BY <1>3, <1>4, <1>5, <1>6 DEF ProbeInv

LEMMA BurstKeeps ==
  ASSUME ProbeInv, Probe!emit_refresh_burst
  PROVE  ProbeInv'
<1>0. NRanks \in Nat \ {0} BY RefreshAssumption
<1>1. /\ refresh_count' = refresh_count + NRanks
      /\ since' = [since EXCEPT !.refresh = NRanks - 1]
      /\ bound' = [bound EXCEPT !.events = @ + 1]
      /\ UNCHANGED <<be, inflight, fe, last, vif, run, shown>>
  BY DEF Probe!emit_refresh_burst, Probe!Event, Probe!Producing, Probe!Count
<1>2. /\ since' \in Happened /\ since'.refresh = NRanks - 1
      /\ since'.issue = since.issue /\ since'.complete = since.complete
      /\ since'.reject = since.reject /\ since'.owed = since.owed
  <2> DEFINE rank == NRanks - 1
  <2>1. rank \in Int /\ since \in Happened
    BY <1>0 DEF ProbeInv, ProbeTypeOK
  <2>2. since' = [since EXCEPT !.refresh = rank] BY <1>1
  <2> HIDE DEF rank
  <2>3. /\ since' \in Happened /\ since'.refresh = rank
        /\ since'.issue = since.issue /\ since'.complete = since.complete
        /\ since'.reject = since.reject /\ since'.owed = since.owed
    BY <2>1, <2>2 DEF Happened
  <2> QED BY <2>3 DEF rank
<1>3. bound' \in [events : Nat, resets : Nat, next_tag : Nat \ {0},
                  endless : BOOLEAN]
  <2>1. /\ bound \in [events : Nat, resets : Nat, next_tag : Nat \ {0},
                      endless : BOOLEAN]
        /\ bound.events + 1 \in Nat
    BY DEF ProbeInv, ProbeTypeOK
  <2> QED BY <1>1, <2>1
<1>4. refresh_count \in Nat BY DEF ProbeInv, ProbeTypeOK
<1>5. ProbeTypeOK'
  BY <1>0, <1>1, <1>2, <1>3, <1>4 DEF ProbeInv, ProbeTypeOK
<1>6. Base' = Base /\ Matches' /\ Base \in Looked BY <1>1, BetweenLooks
<1>7. IssueCounted(Base)' /\ CompleteCounted(Base)' /\ Owed(Base)'
  BY <1>1, <1>2, <1>6
     DEF ProbeInv, IssueCounted, CompleteCounted, Owed, Probe!Unseen,
         Probe!Port, Probe!NoCmd, Probe!NoReject
<1>8. RefreshCounted(Base)'
  <2>1. Base.refresh \in Nat /\ refresh_count >= Base.refresh
    BY <1>6 DEF ProbeInv, RefreshCounted, Looked
  <2>2. PICK k \in Nat : refresh_count = NRanks * k
    BY DEF ProbeInv, RefreshCounted
  <2>3. k + 1 \in Nat /\ refresh_count' = NRanks * (k + 1)
    <3>1. NRanks * (k + 1) = NRanks * k + NRanks BY <1>0
    <3> QED BY <1>1, <2>2, <3>1
  <2>4. refresh_count' >= Base.refresh /\ refresh_count' # Base.refresh
        /\ NRanks - 1 # -1
    BY <1>0, <1>1, <1>4, <2>1
  <2> QED BY <1>2, <1>6, <2>3, <2>4 DEF RefreshCounted
<1> QED BY <1>5, <1>6, <1>7, <1>8 DEF ProbeInv

(* A reset clears every count; the last events are still remembered, but   *)
(* no look shows them, for the next one compares with nothing.             *)
LEMMA ResetKeeps ==
  ASSUME ProbeInv, Probe!handle_reset
  PROVE  ProbeInv'
<1>1. /\ be' = [be EXCEPT !.issued_req_count = 0, !.completed_cmd_count = 0]
      /\ inflight' = {}
      /\ fe' = [p \in Ports |-> [local_reject_count |-> 0, slots |-> 0]]
      /\ refresh_count' = 0
      /\ run' = [last_rst |-> 0, waiting |-> TRUE]
      /\ since' = Probe!NoEvents
      /\ bound' = [bound EXCEPT !.events = 0, !.resets = @ + 1]
      /\ UNCHANGED <<last, vif, shown>>
  BY DEF Probe!handle_reset, Probe!clear_perf_counters, Probe!Port, Ports
<1>2. /\ be' \in Backend /\ be'.issued_req_count = 0
      /\ be'.completed_cmd_count = 0
  <2>1. be \in Backend BY DEF ProbeInv, ProbeTypeOK
  <2> QED BY <1>1, <2>1 DEF Backend
<1>3. /\ fe' \in [Ports -> Driver]
      /\ \A p \in Ports : fe'[p].local_reject_count = 0
  BY <1>1 DEF Driver
<1>4. bound' \in [events : Nat, resets : Nat, next_tag : Nat \ {0},
                  endless : BOOLEAN]
  <2>1. /\ bound \in [events : Nat, resets : Nat, next_tag : Nat \ {0},
                      endless : BOOLEAN]
        /\ bound.resets + 1 \in Nat
    BY DEF ProbeInv, ProbeTypeOK
  <2> QED BY <1>1, <2>1
<1>5. ProbeTypeOK'
  <2>1. Probe!NoEvents \in Happened BY NothingHappened
  <2> QED BY <1>1, <1>2, <1>3, <1>4, <2>1 DEF ProbeInv, ProbeTypeOK
<1>6. Base' = Probe!NothingSeen
  BY <1>1 DEF Base, Probe!NothingSeen, Probe!Port
<1>7. /\ since'.issue = Probe!NoCmd /\ since'.complete = Probe!NoCmd
      /\ since'.refresh = -1 /\ since'.reject = Probe!NoReject
      /\ since'.owed = {}
  BY <1>1 DEF Probe!NoEvents
<1>8. /\ Base'.issued = 0 /\ Base'.completed = 0 /\ Base'.refresh = 0
      /\ \A p \in Ports : Base'.reject[p] = 0
  BY <1>6 DEF Probe!NothingSeen, Probe!Port, Ports
<1>9. IssueCounted(Base)' /\ CompleteCounted(Base)'
  BY <1>2, <1>7, <1>8 DEF IssueCounted, CompleteCounted, Probe!NoCmd
<1>10. RefreshCounted(Base)'
  <2>1. 0 = NRanks * 0 BY RefreshAssumption
  <2> QED BY <1>1, <1>7, <1>8, <2>1 DEF RefreshCounted
<1>11. Owed(Base)'
  BY <1>3, <1>7, <1>8
     DEF Owed, Probe!Unseen, Probe!Port, Ports, Probe!NoReject
<1>12. Matches' BY <1>1 DEF Matches
<1> QED BY <1>5, <1>9, <1>10, <1>11, <1>12 DEF ProbeInv

LEMMA ResetDoneKeeps ==
  ASSUME ProbeInv, Probe!handle_reset_done
  PROVE  ProbeInv'
<1>1. /\ run.waiting /\ run' = [run EXCEPT !.waiting = FALSE]
      /\ UNCHANGED <<be, inflight, fe, refresh_count, bound>>
  BY DEF Probe!handle_reset_done
<1>2. PICK rst \in {0, 1} :
        Probe!Look([Probe!Cleared EXCEPT !.rst_active = rst = 0],
                   Probe!NothingSeen)
  BY DEF Probe!handle_reset_done
<1> DEFINE v == [Probe!Cleared EXCEPT !.rst_active = rst = 0]
<1>3. Base = Probe!NothingSeen /\ Base \in Looked
  BY <1>1, NothingLooked DEF Base
<1>4. v \in Interface
  <2> DEFINE active == rst = 0
  <2>1. active \in BOOLEAN OBVIOUS
  <2>2. Probe!Cleared \in Interface BY ClearedInterface
  <2>3. v = [Probe!Cleared EXCEPT !.rst_active = active] OBVIOUS
  <2> HIDE DEF active, v
  <2> QED BY <2>1, <2>2, <2>3 DEF Interface
<1>5. run' \in [last_rst : {0, 1}, waiting : BOOLEAN] /\ ~run'.waiting
  <2>1. run \in [last_rst : {0, 1}, waiting : BOOLEAN]
    BY DEF ProbeInv, ProbeTypeOK
  <2> QED BY <1>1, <2>1
<1>6. Probe!Look(v, Base) BY <1>2, <1>3
<1> HIDE DEF v
<1> QED BY <1>1, <1>3, <1>4, <1>5, <1>6, LookExact DEF ProbeInv

LEMMA ClockKeeps ==
  ASSUME ProbeInv, Probe!Clock \/ Probe!arm_after_reset
  PROVE  ProbeInv'
<1>1. vif \in Interface /\ run \in [last_rst : {0, 1}, waiting : BOOLEAN]
  BY DEF ProbeInv, ProbeTypeOK
<1>2. \E active \in BOOLEAN :
        Probe!Look([vif EXCEPT !.rst_active = active], last)
  <2>1. CASE Probe!Clock
    <3>1. Probe!Look([vif EXCEPT !.rst_active = run.last_rst = 0], last)
      BY <2>1 DEF Probe!Clock
    <3>2. (run.last_rst = 0) \in BOOLEAN OBVIOUS
    <3> QED BY <3>1, <3>2
  <2>2. CASE Probe!arm_after_reset BY <2>2 DEF Probe!arm_after_reset
  <2> QED BY <2>1, <2>2
<1>3. /\ ~run.waiting
      /\ run' = run \/ run' = [run EXCEPT !.last_rst = 1]
      /\ UNCHANGED <<be, inflight, fe, refresh_count, bound>>
  BY DEF Probe!Clock, Probe!arm_after_reset, Probe!env
<1>4. PICK active \in BOOLEAN :
        Probe!Look([vif EXCEPT !.rst_active = active], last)
  BY <1>2
<1>5. [vif EXCEPT !.rst_active = active] \in Interface
  BY <1>1 DEF Interface
<1>6. run' \in [last_rst : {0, 1}, waiting : BOOLEAN] /\ ~run'.waiting
  BY <1>1, <1>3
<1>7. Base = last /\ last \in Looked
  BY <1>3 DEF Base, ProbeInv, ProbeTypeOK
<1> QED BY <1>3, <1>4, <1>5, <1>6, <1>7, LookExact DEF ProbeInv

LEMMA ProbeInit == ASSUME Probe!Init PROVE ProbeInv
<1>1. /\ be = [issued_req_count |-> 0, completed_cmd_count |-> 0,
               last_issued_cmd |-> Probe!NoCmd,
               last_completed_cmd |-> Probe!NoCmd, last_rsp |-> "UNKNOWN"]
      /\ inflight = {} /\ refresh_count = 0
      /\ fe = [p \in Ports |-> [local_reject_count |-> 0, slots |-> 0]]
      /\ last = Probe!NothingSeen
      /\ vif = [Probe!Cleared EXCEPT !.rst_active = TRUE]
      /\ run = [last_rst |-> 0, waiting |-> FALSE]
      /\ since = Probe!NoEvents /\ shown = Probe!NoEvents
      /\ bound \in [events : Nat, resets : Nat, next_tag : Nat \ {0},
                   endless : BOOLEAN]
  <2>1. \E e \in BOOLEAN :
          bound = [events |-> 0, resets |-> 0, next_tag |-> 1, endless |-> e]
    BY DEF Probe!Init
  <2> QED BY <2>1 DEF Probe!Init, Probe!Port, Ports
<1>2. Probe!NoEvents \in Happened /\ Probe!NothingSeen \in Looked
      /\ Probe!Cleared \in Interface
  BY NothingHappened, NothingLooked, ClearedInterface
<1>3. Probe!NoCmd \in Command BY DEF Probe!NoCmd, Command
<1>4. be \in Backend BY <1>1, <1>3 DEF Backend, Page
<1>5. vif \in Interface BY <1>1, <1>2 DEF Interface
<1>6. ProbeTypeOK BY <1>1, <1>2, <1>4, <1>5 DEF ProbeTypeOK, Driver
<1>7. Base = Probe!NothingSeen BY <1>1 DEF Base
<1>8. IssueCounted(Base) /\ CompleteCounted(Base)
  BY <1>1, <1>7 DEF IssueCounted, CompleteCounted, Probe!NothingSeen,
                    Probe!NoEvents
<1>9. RefreshCounted(Base)
  <2>1. 0 = NRanks * 0 BY RefreshAssumption
  <2> QED BY <1>1, <1>7, <2>1
          DEF RefreshCounted, Probe!NothingSeen, Probe!NoEvents
<1>10. Owed(Base)
  BY <1>1, <1>7 DEF Owed, Probe!Unseen, Probe!Port, Ports,
                    Probe!NothingSeen, Probe!NoEvents
<1>11. Matches
  <2>1. /\ vif.issue_pulse = FALSE /\ vif.complete_pulse = FALSE
        /\ vif.refresh_pulse = FALSE
    BY <1>1 DEF Probe!Cleared
  <2> QED BY <1>1, <2>1
          DEF Matches, Probe!PulsesMatchEvents, Probe!NoEvents
<1> QED BY <1>6, <1>8, <1>9, <1>10, <1>11 DEF ProbeInv

LEMMA ProbeStep ==
  ASSUME ProbeInv, [TopNext]_allVars
  PROVE  ProbeInv'
<1>1. CASE UNCHANGED probeVars
  <2>1. Base' = Base /\ Matches' BY <1>1, BetweenLooks DEF probeVars
  <2> QED BY <1>1, <2>1
          DEF probeVars, ProbeInv, ProbeTypeOK, IssueCounted,
              CompleteCounted, RefreshCounted, Owed, Probe!Unseen,
              Probe!Port, Probe!NoCmd, Probe!NoReject
<1>2. CASE Probe!Clock \/ Probe!arm_after_reset BY <1>2, ClockKeeps
<1>3. CASE Probe!handle_reset BY <1>3, ResetKeeps
<1>4. CASE Probe!handle_reset_done BY <1>4, ResetDoneKeeps
<1>5. CASE Probe!Produce
  <2>1. Probe!Port = Ports BY DEF Probe!Port, Ports
  <2>2. CASE \E p \in Ports : Probe!issue_one(p, "RD")
    BY <2>2, IssueKeeps
  <2>3. CASE Probe!issue_one(-1, "REF") BY <2>3, IssueKeeps
  <2>4. CASE \E c \in inflight : \E page \in Page : Probe!complete_rsp(c, page)
    BY <2>4, CompleteKeeps
  <2>5. CASE \E c \in stale : Probe!complete_rsp_stale(c, "MISS")
    BY <2>5, StaleKeeps DEF Page
  <2>6. CASE \E p \in Ports : Probe!record_local_reject(p)
    BY <2>6, RejectKeeps
  <2>7. CASE \E p \in Ports : Probe!SendResponse(p)
    BY <2>7, SendKeeps
  <2>8. CASE Probe!emit_refresh_burst BY <2>8, BurstKeeps
  <2> QED BY <1>5, <2>1, <2>2, <2>3, <2>4, <2>5, <2>6, <2>7, <2>8
          DEF Probe!Produce, Page
<1>6. CASE ~IsRefresh /\ Probe!Next
  BY <1>2, <1>3, <1>4, <1>5, <1>6 DEF Probe!Next
<1> QED BY <1>1, <1>6 DEF TopNext, allVars, probeVars

LEMMA ProbeShows == ASSUME ProbeInv PROVE ProbeExact
<1>1. Probe!PulsesMatchEvents
  BY DEF ProbeInv, Matches, Probe!PulsesMatchEvents
<1>2. Probe!RejectKept
  <2>1. SUFFICES ASSUME ~run.waiting
                 PROVE  /\ shown.reject # Probe!NoReject => vif.reject_pulse
                        /\ Probe!Unseen(last) = since.owed
    BY DEF Probe!RejectKept
  <2>2. shown.reject # Probe!NoReject => vif.reject_pulse
    BY <2>1 DEF ProbeInv, Matches
  <2>3. Probe!Unseen(Base) = since.owed BY DEF ProbeInv, Owed
  <2>4. Base = last BY <2>1 DEF Base
  <2> QED BY <2>2, <2>3, <2>4
<1> QED BY <1>1, <1>2 DEF ProbeExact, Probe!ProbeExact

(***************************************************************************)
(* Every look shows what happened since the one before and nothing else,   *)
(* and a reject it cannot show yet is kept (vip_mc.update_status_*,        *)
(* handle_reset), for every number of ports and ranks: a count that        *)
(* differs from the one last looked at always has an event behind it, also *)
(* when a reset, an answer of an earlier epoch or commands that come and   *)
(* go during the device's reset fall between two looks.                    *)
(***************************************************************************)
THEOREM StatusIsExact == TopSpec => []ProbeExact
<1>1. TopInit => ProbeInv BY ProbeInit DEF TopInit
<1>2. ProbeInv /\ [TopNext]_allVars => ProbeInv' BY ProbeStep
<1>3. ProbeInv => ProbeExact BY ProbeShows
<1> QED BY <1>1, <1>2, <1>3, PTL DEF TopSpec
=============================================================================
