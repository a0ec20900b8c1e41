-------------------------- MODULE TransfersProofs ---------------------------
(***************************************************************************)
(* The bytes of a burst and of a transfer, for every width of row and bus, *)
(* every map of regions and error windows and every request.               *)
(***************************************************************************)
EXTENDS MCTransfers, TLAPS

(***************************************************************************)
(* Quotients and remainders                                                *)
(***************************************************************************)

(* A number is its quotient and its remainder.                             *)
LEMMA Division ==
  ASSUME NEW n \in Nat \ {0}, NEW a \in Int
  PROVE  /\ a \div n \in Int /\ a % n \in 0 .. n - 1
         /\ n * (a \div n) \in Int /\ a = n * (a \div n) + (a % n)
         /\ a >= 0 => a \div n >= 0
<1>1. /\ a \div n \in Int /\ n * (a \div n) \in Int
      /\ a % n \in 0 .. n - 1
  OBVIOUS
<1>2. a = n * (a \div n) + (a % n)
  <2>1. a % n = a - n * (a \div n) OBVIOUS
  <2> QED BY <1>1, <2>1
<1>3. ASSUME a >= 0, a \div n < 0 PROVE FALSE
  <2>1. n * (a \div n + 1) = n * (a \div n) + n OBVIOUS
  <2>2. a \div n + 1 <= 0 BY <1>1, <1>3
  <2>3. n * (a \div n + 1) <= 0 BY <1>1, <2>2
  <2> QED BY <1>1, <1>2, <1>3, <2>1, <2>3
<1> QED BY <1>1, <1>2, <1>3

(* A larger factor makes a larger product, by at least the other factor.   *)
LEMMA ProductGrows ==
  ASSUME NEW n \in Nat, NEW a \in Int, NEW b \in Int, a < b
  PROVE  n * a \in Int /\ n * b \in Int /\ n * a + n <= n * b
<1>1. n * (a + 1) = n * a + n OBVIOUS
<1>2. n * (a + 1) <= n * b
  <2>1. a + 1 <= b OBVIOUS
  <2> QED BY <2>1
<1> QED BY <1>1, <1>2

(* ... and there is only one way to be it.                                 *)
LEMMA DivisionUnique ==
  ASSUME NEW n \in Nat \ {0}, NEW a \in Int, NEW k \in Int,
         NEW m \in 0 .. n - 1, a = n * k + m
  PROVE  a \div n = k /\ a % n = m
<1>1. /\ a \div n \in Int /\ a % n \in 0 .. n - 1
      /\ n * (a \div n) \in Int /\ n * k \in Int
      /\ a = n * (a \div n) + (a % n)
  <2>1. n * k \in Int OBVIOUS
  <2> QED BY <2>1, Division
<1>2. ~(a \div n < k)
  <2> SUFFICES ASSUME a \div n < k PROVE FALSE OBVIOUS
  <2>1. n * (a \div n) + n <= n * k BY <1>1, ProductGrows
  <2> QED BY <1>1, <2>1
<1>3. ~(k < a \div n)
  <2> SUFFICES ASSUME k < a \div n PROVE FALSE OBVIOUS
  <2>1. n * k + n <= n * (a \div n) BY <1>1, ProductGrows
  <2> QED BY <1>1, <2>1
<1>4. a \div n = k BY <1>1, <1>2, <1>3
<1> QED BY <1>1, <1>4

LEMMA SmallRemainder ==
  ASSUME NEW n \in Nat \ {0}, NEW m \in 0 .. n - 1
  PROVE  m % n = m
OBVIOUS

LEMMA DivisionMonotonic ==
  ASSUME NEW n \in Nat \ {0}, NEW a \in Int, NEW b \in Int, a <= b
  PROVE  a \div n \in Int /\ b \div n \in Int /\ a \div n <= b \div n
<1>1. /\ a \div n \in Int /\ a % n \in 0 .. n - 1 /\ n * (a \div n) \in Int
      /\ a = n * (a \div n) + (a % n)
  BY Division
<1>2. /\ b \div n \in Int /\ b % n \in 0 .. n - 1 /\ n * (b \div n) \in Int
      /\ b = n * (b \div n) + (b % n)
  BY Division
<1> SUFFICES ASSUME b \div n < a \div n PROVE FALSE BY <1>1, <1>2
<1>3. n * (b \div n) + n <= n * (a \div n) BY <1>1, <1>2, ProductGrows
<1> QED BY <1>1, <1>2, <1>3

(* What a width divides is a multiple of it.                               *)
LEMMA Multiple ==
  ASSUME NEW d \in Nat \ {0}, NEW a \in Int, a % d = 0
  PROVE  /\ a \div d \in Int /\ a = d * (a \div d)
         /\ a >= 0 => a \div d \in Nat
BY Division

LEMMA MultipleIs ==
  ASSUME NEW d \in Nat \ {0}, NEW k \in Int
  PROVE  d * k \in Int /\ (d * k) % d = 0 /\ (d * k) \div d = k
<1>1. d * k \in Int /\ d * k = d * k + 0 /\ 0 \in 0 .. d - 1 OBVIOUS
<1> QED BY <1>1, DivisionUnique

(* Divisibility is transitive.                                             *)
LEMMA MultipleOfMultiple ==
  ASSUME NEW d \in Nat \ {0}, NEW n \in Nat \ {0}, NEW a \in Nat,
         n % d = 0, a % n = 0
  PROVE  a % d = 0
<1>1. n = d * (n \div d) /\ n \div d \in Nat BY Multiple
<1>2. a = n * (a \div n) /\ a \div n \in Nat BY Multiple
<1> DEFINE u == n \div d  v == a \div n
<1>3. (d * u) * v = d * (u * v) /\ u * v \in Int BY <1>1, <1>2
<1>4. a = d * (u * v) BY <1>1, <1>2, <1>3
<1> HIDE DEF u, v
<1> QED BY <1>3, <1>4, MultipleIs

LEMMA MultipleSum ==
  ASSUME NEW d \in Nat \ {0}, NEW a \in Int, NEW b \in Int,
         a % d = 0, b % d = 0
  PROVE  (a + b) % d = 0 /\ (a - b) % d = 0
<1> DEFINE u == a \div d  v == b \div d
<1>1. u \in Int /\ a = d * u BY Multiple
<1>2. v \in Int /\ b = d * v BY Multiple
<1> HIDE DEF u, v
<1>3. d * (u + v) = d * u + d * v /\ d * (u - v) = d * u - d * v
  BY <1>1, <1>2
<1>4. u + v \in Int /\ u - v \in Int BY <1>1, <1>2
<1>5. (d * (u + v)) % d = 0 /\ (d * (u - v)) % d = 0 BY <1>4, MultipleIs
<1> QED BY <1>1, <1>2, <1>3, <1>5

(* A multiple leaves a multiple behind when a multiple divides it.         *)
LEMMA MultipleRemainder ==
  ASSUME NEW d \in Nat \ {0}, NEW n \in Nat \ {0}, n % d = 0,
         NEW a \in Nat, a % d = 0
  PROVE  (a % n) % d = 0
<1> DEFINE v == n * (a \div n)
<1>1. /\ a \div n \in Nat /\ v \in Int /\ a = v + (a % n) /\ a % n \in Int
  BY Division
<1>2. v \in Nat
  <2> DEFINE k == a \div n
  <2>1. k \in Nat BY <1>1
  <2> HIDE DEF k
  <2>2. n * k \in Nat BY <2>1
  <2> QED BY <2>2 DEF k
<1>3. v % n = 0 BY <1>1, MultipleIs
<1> HIDE DEF v
<1>4. v % d = 0 BY <1>2, <1>3, MultipleOfMultiple
<1>5. a % n = a - v BY <1>1, <1>2
<1>6. (a - v) % d = 0
  <2>1. v \in Int /\ a \in Int BY <1>2
  <2> QED BY <1>4, <2>1, MultipleSum
<1> QED BY <1>5, <1>6

(* Full multiples of the divisor leave the remainder alone.                *)
LEMMA RemainderShift ==
  ASSUME NEW n \in Nat \ {0}, NEW a \in Int, NEW k \in Int
  PROVE  (a - n * k) % n = a % n
<1> DEFINE u == a \div n  m == a % n
<1>1. u \in Int /\ m \in 0 .. n - 1 /\ a = n * u + m BY Division
<1> HIDE DEF u, m
<1>2. n * (u - k) = n * u - n * k /\ u - k \in Int BY <1>1
<1>3. n * u \in Int /\ n * k \in Int /\ n * (u - k) \in Int BY <1>1, <1>2
<1>4. a - n * k = n * (u - k) + m /\ a - n * k \in Int BY <1>1, <1>2, <1>3
<1>5. (a - n * k) % n = m BY <1>1, <1>2, <1>4, DivisionUnique
<1> QED BY <1>5 DEF m

(* Rounding down.                                                          *)
LEMMA RoundedDown ==
  ASSUME NEW d \in Nat \ {0}, NEW a \in Nat
  PROVE  LET b == (a \div d) * d
         IN /\ b \in Nat /\ b % d = 0 /\ b \div d = a \div d
            /\ a % d \in 0 .. d - 1 /\ a = b + (a % d)
            /\ b = d * (a \div d) /\ a \div d \in Nat
<1> DEFINE u == a \div d  b == u * d
<1>1. u \in Nat /\ a = d * u + (a % d) /\ a % d \in 0 .. d - 1
  <2>1. a \in Int /\ a >= 0 OBVIOUS
  <2>2. u \in Int /\ a = d * u + (a % d) /\ a % d \in 0 .. d - 1
    BY <2>1, Division
  <2>3. u >= 0 BY <2>1, Division
  <2> QED BY <2>2, <2>3
<1> HIDE DEF u
<1>2. b = d * u /\ b \in Nat BY <1>1
<1>3. (d * u) % d = 0 /\ (d * u) \div d = u
  <2>1. u \in Int BY <1>1
  <2> QED BY <2>1, MultipleIs
<1> QED BY <1>1, <1>2, <1>3 DEF u

(* A block of d bytes aligned to d lies inside one block of n bytes if d   *)
(* divides n.                                                              *)
LEMMA InsideBlock ==
  ASSUME NEW d \in Nat \ {0}, NEW n \in Nat \ {0}, n % d = 0,
         NEW s \in Nat, s % d = 0, NEW k \in 0 .. d - 1
  PROVE  /\ (s + k) \div n = s \div n
         /\ (s + k) % n = (s % n) + k
         /\ (s % n) + d <= n
<1>1. n = d * (n \div d) /\ n \div d \in Nat BY Multiple
<1>2. s = d * (s \div d) /\ s \div d \in Nat BY Multiple
<1>3. /\ s \div n \in Int /\ s % n \in 0 .. n - 1 /\ n * (s \div n) \in Int
      /\ s = n * (s \div n) + (s % n)
  BY Division
<1> DEFINE m == n \div d  u == s \div d  v == s \div n
<1> HIDE DEF m, u, v
<1>4. m \in Nat /\ u \in Nat /\ v \in Int BY <1>1, <1>2, <1>3 DEF m, u, v
<1>5. n = d * m /\ s = d * u /\ s = n * v + (s % n)
  BY <1>1, <1>2, <1>3 DEF m, u, v
<1>6. s % n = d * (u - m * v)
  <2>1. n * v = d * (m * v) /\ m * v \in Int
    <3>1. (d * m) * v = d * (m * v) /\ m * v \in Int BY <1>4
    <3> QED BY <1>5, <3>1
  <2>2. d * (u - m * v) = d * u - d * (m * v) BY <1>4, <2>1
  <2>3. d * u \in Int /\ d * (m * v) \in Int BY <1>4, <2>1
  <2>4. s % n = s - n * v BY <1>3, <1>5, <2>1, <2>3
  <2>5. s - n * v = d * u - d * (m * v) BY <1>5, <2>1
  <2> QED BY <2>2, <2>4, <2>5
<1>7. u - m * v \in Int /\ u - m * v < m
  <2>1. m * v \in Int BY <1>4
  <2>2. u - m * v \in Int BY <1>4, <2>1
  <2>3. ASSUME ~(u - m * v < m) PROVE FALSE
    <3>1. d * m <= d * (u - m * v) BY <1>4, <2>2, <2>3
    <3> QED BY <1>3, <1>5, <1>6, <3>1
  <2> QED BY <2>2, <2>3
<1>8. (s % n) + d <= n BY <1>4, <1>5, <1>6, <1>7, ProductGrows
<1>9. (s % n) + k \in 0 .. n - 1 /\ s + k = n * (s \div n) + ((s % n) + k)
  BY <1>3, <1>8
<1>10. (s + k) \div n = s \div n /\ (s + k) % n = (s % n) + k
  <2>1. s + k \in Int OBVIOUS
  <2> QED BY <1>3, <1>9, <2>1, DivisionUnique
<1> QED BY <1>8, <1>10

(* The place of a byte in rows counted from row f.                         *)
LEMMA Place ==
  ASSUME NEW n \in Nat \ {0}, NEW f \in Int, NEW i \in Int,
         NEW m \in 0 .. n - 1, NEW c, c = (f + i) * n + m
  PROVE  c \in Int /\ c \div n = f + i /\ c % n = m
<1>1. (f + i) * n = n * (f + i) /\ n * (f + i) \in Int OBVIOUS
<1>2. c \in Int /\ c = n * (f + i) + m /\ f + i \in Int BY <1>1
<1> QED BY <1>2, DivisionUnique

(* No two bytes have the same place.                                       *)
LEMMA SamePlace ==
  ASSUME NEW n \in Nat \ {0}, NEW a \in Int, NEW b \in Int,
         a \div n = b \div n, a % n = b % n
  PROVE  a = b
BY Division

(* Ranges that contain each other, and ranges that meet.                   *)
LEMMA Ranges ==
  ASSUME NEW lo \in Int, NEW hi \in Int, lo <= hi,
         NEW a \in Int, NEW b \in Int
  PROVE  /\ lo .. hi \subseteq a .. b <=> lo >= a /\ hi <= b
         /\ a <= b => ((lo .. hi) \cap (a .. b) = {} <=> ~(lo <= b /\ hi >= a))
<1>1. lo \in lo .. hi /\ hi \in lo .. hi OBVIOUS
<1>2. lo .. hi \subseteq a .. b <=> lo >= a /\ hi <= b BY <1>1
<1>3. ASSUME a <= b, lo <= b, hi >= a PROVE (lo .. hi) \cap (a .. b) # {}
  <2>1. CASE lo >= a
    <3>1. lo \in (lo .. hi) \cap (a .. b) BY <1>1, <1>3, <2>1
    <3> QED BY <3>1
  <2>2. CASE lo < a
    <3>1. a \in (lo .. hi) \cap (a .. b) BY <1>3, <2>2
    <3> QED BY <3>1
  <2> QED BY <2>1, <2>2
<1>4. ASSUME (lo .. hi) \cap (a .. b) # {} PROVE lo <= b /\ hi >= a
  <2>1. PICK c \in lo .. hi : c \in a .. b BY <1>4
  <2> QED BY <2>1
<1> QED BY <1>2, <1>3, <1>4

(***************************************************************************)
(* CHI                                                                     *)
(***************************************************************************)

LEMMA ChiTyping ==
  /\ ChiRowBytes \in Nat \ {0} /\ ChiDataBytes \in Nat \ {0}
  /\ ChiRowBytes % ChiDataBytes = 0
  /\ \A q \in ChiRequest :
       /\ q = [op |-> q.op, addr |-> q.addr, size |-> q.size]
       /\ q.op \in {"WR", "RD"} /\ q.addr \in Nat
       /\ Chi!chi_size_bytes(q) \in Nat \ {0}
       /\ \/ ChiRowBytes % Chi!chi_size_bytes(q) = 0
          \/ Chi!chi_size_bytes(q) % ChiRowBytes = 0
BY ChiAssumption DEF Chi!ChiDataAssumption, Chi!chi_size_bytes

(* A transfer of so many bytes takes at least one block, and whole blocks. *)
LEMMA ChiBeats ==
  ASSUME NEW q \in ChiRequest, NEW n \in Nat \ {0}
  PROVE  LET s == Chi!chi_size_bytes(q)
             b == Chi!chi_xfer_dat_beats(q, n)
         IN b \in Nat \ {0} /\ (s % n = 0 => b = s \div n)
<1> DEFINE s == Chi!chi_size_bytes(q)
           c == (s + n - 1) \div n
           b == Chi!chi_xfer_dat_beats(q, n)
<1>1. s \in Nat \ {0} BY ChiTyping
<1> HIDE DEF s
<1>2. c \in Int /\ c >= 1
  <2>1. s + n - 1 \in Int /\ n <= s + n - 1 BY <1>1
  <2>2. n = n * 1 + 0 /\ 0 \in 0 .. n - 1 OBVIOUS
  <2>3. n \div n = 1 BY <2>2, DivisionUnique
  <2> QED BY <2>1, <2>3, DivisionMonotonic
<1>3. b = c
  <2>1. b = Max({1, c}) BY DEF b, c, s, Chi!chi_xfer_dat_beats, Chi!Max, Max
  <2> HIDE DEF c, b
  <2>2. c \in {1, c} /\ \A y \in {1, c} : c >= y BY <1>2
  <2>3. \A x \in {1, c} : (\A y \in {1, c} : x >= y) => x = c BY <1>2
  <2>4. Max({1, c}) = c BY <2>2, <2>3 DEF Max
  <2> QED BY <2>1, <2>4
<1>4. ASSUME s % n = 0 PROVE c = s \div n
  <2>1. s \div n \in Nat /\ s = n * (s \div n) BY <1>1, <1>4, Multiple
  <2>2. s + n - 1 = n * (s \div n) + (n - 1) BY <1>1, <2>1
  <2>3. s + n - 1 \in Int /\ n - 1 \in 0 .. n - 1 /\ s \div n \in Int
    BY <1>1, <2>1
  <2> QED BY <2>2, <2>3, DivisionUnique
<1> QED BY <1>2, <1>3, <1>4 DEF s

(* The lanes of a beat are the bytes of its block of the bus, each at its  *)
(* own place, as far as the entry has rows for them.                       *)
LEMMA ChiLanes ==
  ASSUME NEW q \in ChiRequest, NEW i \in Nat, NEW l
  PROVE  l \in Chi!Lanes(q, i) <=>
           \E a \in Nat :
             /\ Chi!BeatOf(q, a) = i
             /\ (a \div ChiRowBytes) - (q.addr \div ChiRowBytes) < Chi!beats(q)
             /\ l = [at |-> <<(a \div ChiRowBytes) - (q.addr \div ChiRowBytes),
                              a % ChiRowBytes>>,
                     bus |-> a % ChiDataBytes]
<1> DEFINE R == ChiRowBytes  D == ChiDataBytes  ad == q.addr
           f == ad \div R
           base == ad - (ad % D) + i * D
           row == (base \div R) - f
           lane == base % R
<1>1. R \in Nat \ {0} /\ D \in Nat \ {0} /\ R % D = 0 /\ ad \in Nat BY ChiTyping
<1> HIDE DEF R, D, ad
<1>2. f \in Int BY <1>1, Division
<1>3. /\ ad \div D \in Int /\ D * (ad \div D) \in Int
      /\ ad = D * (ad \div D) + (ad % D) /\ ad \div D >= 0
      /\ ad % D \in 0 .. D - 1
  <2>1. ad \in Int /\ ad >= 0 /\ D \in Nat \ {0} BY <1>1
  <2> QED BY <2>1, Division
<1> DEFINE u == (ad \div D) + i
<1>4. base = D * u /\ base \in Nat /\ u \in Nat
  <2> DEFINE v == ad \div D
  <2>1. D * (v + i) = D * v + i * D
    <3>1. v \in Int BY <1>3
    <3> HIDE DEF v
    <3> QED BY <1>1, <3>1
  <2>2. i * D \in Nat BY <1>1
  <2>3. base = (D * v) + (i * D)
    <3> HIDE DEF v
    <3>1. ad - (ad % D) = D * v BY <1>1, <1>3 DEF v
    <3> QED BY <3>1
  <2>4. D * v \in Nat BY <1>1, <1>3
  <2> QED BY <1>1, <1>3, <2>1, <2>2, <2>3, <2>4
<1>5. base % D = 0 /\ base \div D = u
  <2>1. u \in Int BY <1>4
  <2> HIDE DEF u, base
  <2>2. (D * u) % D = 0 /\ (D * u) \div D = u BY <1>1, <2>1, MultipleIs
  <2> QED BY <1>4, <2>2
<1> HIDE DEF base, u, f
<1>6. ASSUME NEW k \in 0 .. D - 1
      PROVE  /\ base + k \in Nat
             /\ (base + k) \div R = base \div R /\ (base + k) % R = lane + k
             /\ (base + k) \div D = u /\ (base + k) % D = k
  <2>1. (base + k) \div R = base \div R /\ (base + k) % R = (base % R) + k
    BY <1>1, <1>4, <1>5, InsideBlock
  <2>2. base + k = D * u + k /\ base + k \in Int /\ u \in Int BY <1>1, <1>4
  <2>3. (base + k) \div D = u /\ (base + k) % D = k
    BY <1>1, <2>2, DivisionUnique
  <2> QED BY <1>1, <1>4, <2>1, <2>3
<1>7. ASSUME NEW a \in Nat
      PROVE  Chi!BeatOf(q, a) = i <=> a \in base .. base + D - 1
  <2>1. /\ a \div D \in Int /\ D * (a \div D) \in Int
        /\ a = D * (a \div D) + (a % D) /\ a % D \in 0 .. D - 1
    BY <1>1, Division
  <2>2. Chi!BeatOf(q, a) = (a \div D) - (ad \div D)
    BY DEF Chi!BeatOf, D, ad
  <2>3. Chi!BeatOf(q, a) = i <=> a \div D = u
    BY <1>1, <1>3, <2>1, <2>2 DEF u
  <2>4. ASSUME a \div D = u PROVE a \in base .. base + D - 1
    BY <1>1, <1>4, <2>1, <2>4
  <2>5. ASSUME a \in base .. base + D - 1 PROVE a \div D = u
    <3>1. a - base \in 0 .. D - 1 /\ base + (a - base) = a
      BY <1>1, <1>4, <2>5
    <3> QED BY <1>6, <3>1
  <2> QED BY <2>3, <2>4, <2>5
<1>8. Chi!Lanes(q, i) =
        IF row >= Chi!beats(q) THEN {}
        ELSE {[at |-> <<row, lane + k>>, bus |-> k] : k \in 0 .. D - 1}
  BY DEF Chi!Lanes, Chi!chi_beat_row_map, row, lane, base, f, ad, R, D
<1>9. row \in Int /\ Chi!beats(q) \in Int
  <2>1. base \div R \in Int BY <1>1, <1>4, Division
  <2>2. Chi!beats(q) \in Nat BY <1>1, ChiBeats DEF Chi!beats, R
  <2> QED BY <1>2, <2>1, <2>2
<1> DEFINE P(a) == /\ Chi!BeatOf(q, a) = i
                   /\ (a \div R) - f < Chi!beats(q)
                   /\ l = [at |-> <<(a \div R) - f, a % R>>, bus |-> a % D]
<1>10. ASSUME l \in Chi!Lanes(q, i) PROVE \E a \in Nat : P(a)
  <2>1. row < Chi!beats(q) BY <1>8, <1>9, <1>10
  <2>2. PICK k \in 0 .. D - 1 : l = [at |-> <<row, lane + k>>, bus |-> k]
    BY <1>8, <1>9, <1>10, <2>1
  <2>3. base + k \in base .. base + D - 1 /\ base + k \in Nat
    BY <1>1, <1>4, <1>6
  <2>4. Chi!BeatOf(q, base + k) = i BY <1>7, <2>3
  <2>5. P(base + k) BY <1>6, <2>1, <2>2, <2>4
  <2> QED BY <2>3, <2>5
<1>11. ASSUME NEW a \in Nat, P(a) PROVE l \in Chi!Lanes(q, i)
  <2>1. a \in base .. base + D - 1 BY <1>7, <1>11
  <2> DEFINE k == a - base
  <2>2. k \in 0 .. D - 1 /\ base + k = a BY <1>1, <1>4, <2>1
  <2> HIDE DEF k
  <2>3. a \div R = base \div R /\ a % R = lane + k /\ a % D = k
    BY <1>6, <2>2
  <2>4. l = [at |-> <<row, lane + k>>, bus |-> k] BY <1>11, <2>3
  <2>5. row < Chi!beats(q) BY <1>11, <2>3
  <2> QED BY <1>8, <1>9, <2>2, <2>4, <2>5
<1>12. l \in Chi!Lanes(q, i) <=> \E a \in Nat : P(a) BY <1>10, <1>11
<1> QED BY <1>12 DEF R, D, ad, f

(* The lanes of a write beat that meet one place of the payload: the byte  *)
(* of that place, if it is in the beat's block.                            *)
LEMMA ChiHit ==
  ASSUME NEW q \in ChiRequest, NEW i \in Nat, NEW x \in Chi!Payload(q)
  PROVE  LET a == Chi!RowAddr(q, x)
         IN /\ a \in Nat /\ Chi!BeatOf(q, a) \in Int
            /\ a % ChiDataBytes \in 0 .. ChiDataBytes - 1
            /\ \A l \in Chi!Lanes(q, i) :
                 l.at = x => Chi!BeatOf(q, a) = i /\ l.bus = a % ChiDataBytes
            /\ Chi!BeatOf(q, a) = i =>
                 \E l \in Chi!Lanes(q, i) : l.at = x /\ l.bus = a % ChiDataBytes
<1> DEFINE R == ChiRowBytes  D == ChiDataBytes  ad == q.addr
           f == ad \div R
           a == Chi!RowAddr(q, x)
<1>1. R \in Nat \ {0} /\ D \in Nat \ {0} /\ ad \in Nat BY ChiTyping
<1>2. /\ x[1] \in 0 .. Chi!beats(q) - 1 /\ x[2] \in 0 .. R - 1
      /\ x = <<x[1], x[2]>>
  BY DEF Chi!Payload
<1>3. Chi!beats(q) \in Nat \ {0} BY <1>1, ChiBeats DEF Chi!beats
<1>4. a = (f + x[1]) * R + x[2] BY DEF Chi!RowAddr
<1> HIDE DEF R, D, ad, a
<1>5. f \in Nat BY <1>1, Division
<1> HIDE DEF f
<1>6. x[1] \in Nat /\ x[2] \in Nat BY <1>1, <1>2, <1>3
<1>7. a \in Nat
  <2>1. f + x[1] \in Nat BY <1>5, <1>6
  <2>2. (f + x[1]) * R \in Nat BY <1>1, <2>1
  <2> QED BY <1>4, <1>6, <2>2
<1>8. (a \div R) - f = x[1] /\ a % R = x[2]
  <2> DEFINE i1 == x[1]  m == x[2]
  <2>1. f \in Int /\ i1 \in Int /\ m \in 0 .. R - 1 /\ a = (f + i1) * R + m
    BY <1>2, <1>4, <1>5, <1>6
  <2> HIDE DEF i1, m
  <2>2. a \div R = f + i1 /\ a % R = m BY <1>1, <2>1, Place
  <2>3. (a \div R) - f = i1 BY <2>1, <2>2
  <2> QED BY <2>2, <2>3 DEF i1, m
<1>9. /\ a \div D \in Int /\ ad \div D \in Int /\ a % D \in 0 .. D - 1
  BY <1>1, <1>7, Division
<1>10. Chi!BeatOf(q, a) \in Int BY <1>9 DEF Chi!BeatOf, ad, D
<1>11. ASSUME NEW l \in Chi!Lanes(q, i), l.at = x
       PROVE  Chi!BeatOf(q, a) = i /\ l.bus = a % D
  <2>1. PICK b \in Nat :
          /\ Chi!BeatOf(q, b) = i
          /\ l = [at |-> <<(b \div R) - f, b % R>>, bus |-> b % D]
    BY ChiLanes DEF R, D, f, ad
  <2>2. (b \div R) - f = x[1] /\ b % R = x[2] BY <1>11, <2>1
  <2>3. b \div R \in Int /\ a \div R \in Int BY <1>1, <1>7, Division
  <2>4. b \div R = a \div R /\ b % R = a % R BY <1>5, <1>8, <2>2, <2>3
  <2>5. b = a
    <3>1. a \in Int /\ b \in Int BY <1>7
    <3> QED BY <1>1, <2>4, <3>1, SamePlace
  <2> QED BY <2>1, <2>5
<1>12. ASSUME Chi!BeatOf(q, a) = i
       PROVE  \E l \in Chi!Lanes(q, i) : l.at = x /\ l.bus = a % D
  <2>2. (a \div R) - f < Chi!beats(q) BY <1>2, <1>3, <1>8
  <2> DEFINE l == [at |-> <<(a \div R) - f, a % R>>, bus |-> a % D]
  <2>3. l \in Chi!Lanes(q, i)
    BY <1>7, <1>12, <2>2, ChiLanes DEF R, D, f, ad
  <2>4. l.at = x /\ l.bus = a % D BY <1>2, <1>8
  <2> QED BY <2>3, <2>4
<1> QED BY <1>7, <1>9, <1>10, <1>11, <1>12 DEF a, D

(* What a write beat leaves in the payload.                                *)
LEMMA ChiPack ==
  ASSUME NEW q \in ChiRequest, NEW i \in Nat, NEW en,
         NEW p, DOMAIN p = Chi!Payload(q), NEW x \in Chi!Payload(q)
  PROVE  LET a == Chi!RowAddr(q, x)
         IN Chi!pack_chi_write_beat(q, p, i, en)[x] =
              IF Chi!BeatOf(q, a) = i /\ a % ChiDataBytes \in en
              THEN <<i, a % ChiDataBytes>> ELSE p[x]
<1> DEFINE a == Chi!RowAddr(q, x)
           hit == {l \in Chi!Lanes(q, i) : l.bus \in en}
<1> HIDE DEF a
<1>1. Chi!pack_chi_write_beat(q, p, i, en)[x] =
        IF \E l \in hit : l.at = x
        THEN <<i, (CHOOSE l \in hit : l.at = x).bus>> ELSE p[x]
  BY DEF Chi!pack_chi_write_beat
<1>2. \A l \in hit : l.at = x =>
        Chi!BeatOf(q, a) = i /\ l.bus = a % ChiDataBytes /\ l.bus \in en
  BY ChiHit DEF a
<1>3. Chi!BeatOf(q, a) = i /\ a % ChiDataBytes \in en => \E l \in hit : l.at = x
  <2> SUFFICES ASSUME Chi!BeatOf(q, a) = i, a % ChiDataBytes \in en
               PROVE  \E l \in hit : l.at = x
    OBVIOUS
  <2>1. PICK l \in Chi!Lanes(q, i) : l.at = x /\ l.bus = a % ChiDataBytes
    BY ChiHit DEF a
  <2> QED BY <2>1
<1> HIDE DEF hit
<1>4. CASE \E l \in hit : l.at = x
  <2> DEFINE l == CHOOSE m \in hit : m.at = x
  <2>1. l \in hit /\ l.at = x BY <1>4
  <2> HIDE DEF l
  <2>2. l.bus = a % ChiDataBytes /\ Chi!BeatOf(q, a) = i
        /\ a % ChiDataBytes \in en
    BY <1>2, <2>1
  <2>3. Chi!pack_chi_write_beat(q, p, i, en)[x] = <<i, l.bus>>
    BY <1>1, <1>4 DEF l
  <2> QED BY <2>2, <2>3 DEF a
<1>5. CASE ~\E l \in hit : l.at = x BY <1>1, <1>3, <1>5 DEF a
<1> QED BY <1>4, <1>5

(* What the payload of a write holds after its first beats.                *)
ChiByte(q, x, n, en) ==
  LET a == Chi!RowAddr(q, x)
      i == Chi!BeatOf(q, a)
  IN IF i \in 0 .. n - 1 /\ a % ChiDataBytes \in en[i + 1]
     THEN <<i, a % ChiDataBytes>> ELSE Chi!Nothing

ChiPayload ==
  /\ strobe \in Seq(SUBSET (0 .. ChiDataBytes - 1)) /\ Len(strobe) = beat
  /\ DOMAIN data = Chi!Payload(r)
  /\ \A x \in Chi!Payload(r) : data[x] = ChiByte(r, x, beat, strobe)

ChiInv ==
  /\ r \in ChiRequest /\ beat \in 0 .. Chi!chi_dat_beats(r)
  /\ r.op = "WR" => ChiPayload
  /\ r.op = "RD" /\ beat > 0 => data = Chi!build_dat_flit(r, beat - 1)

LEMMA ChiInit == Chi!Init => ChiInv
<1> SUFFICES ASSUME Chi!Init PROVE ChiInv OBVIOUS
<1>1. r \in ChiRequest /\ beat = 0 /\ strobe = <<>> BY DEF Chi!Init
<1>2. Chi!chi_dat_beats(r) \in Nat
  BY <1>1, ChiBeats, ChiTyping DEF Chi!chi_dat_beats
<1>3. ASSUME r.op = "WR" PROVE ChiPayload
  <2>1. data = [x \in Chi!Payload(r) |-> Chi!Nothing] BY <1>3 DEF Chi!Init
  <2>2. \A x \in Chi!Payload(r) : ChiByte(r, x, 0, strobe) = Chi!Nothing
    BY DEF ChiByte
  <2> QED BY <1>1, <2>1, <2>2 DEF ChiPayload
<1> QED BY <1>1, <1>2, <1>3 DEF ChiInv

LEMMA ChiStep == ChiInv /\ Chi!Next => ChiInv'
<1> SUFFICES ASSUME ChiInv, Chi!Next PROVE ChiInv' OBVIOUS
<1>1. r \in ChiRequest /\ beat \in Nat /\ Chi!chi_dat_beats(r) \in Nat
  BY ChiBeats, ChiTyping DEF ChiInv, Chi!chi_dat_beats
<1>2. CASE Chi!ReadBeat
  <2>1. /\ r' = r /\ beat' = beat + 1 /\ r.op = "RD"
        /\ beat < Chi!chi_dat_beats(r)
        /\ data' = Chi!build_dat_flit(r, beat)
    BY <1>2 DEF Chi!ReadBeat
  <2>2. beat' \in 0 .. Chi!chi_dat_beats(r) /\ beat' - 1 = beat
    BY <1>1, <2>1
  <2>3. r'.op # "WR" BY <2>1
  <2> QED BY <1>1, <2>1, <2>2, <2>3 DEF ChiInv
<1>3. ASSUME NEW en \in SUBSET (0 .. ChiDataBytes - 1), Chi!WriteBeat(en)
      PROVE  ChiInv'
  <2>1. /\ r' = r /\ beat' = beat + 1 /\ r.op = "WR"
        /\ beat < Chi!chi_dat_beats(r)
        /\ strobe' = Append(strobe, en)
        /\ data' = Chi!pack_chi_write_beat(r, data, beat, en)
    BY <1>3 DEF Chi!WriteBeat
  <2>2. ChiPayload BY <2>1 DEF ChiInv
  <2>3. /\ strobe' \in Seq(SUBSET (0 .. ChiDataBytes - 1))
        /\ Len(strobe') = beat + 1 /\ strobe'[beat + 1] = en
        /\ \A i \in 1 .. beat : strobe'[i] = strobe[i]
    BY <1>1, <2>1, <2>2 DEF ChiPayload
  <2>4. DOMAIN data' = Chi!Payload(r)
    BY <2>1, <2>2 DEF ChiPayload, Chi!pack_chi_write_beat
  <2>5. ASSUME NEW x \in Chi!Payload(r)
        PROVE  data'[x] = ChiByte(r, x, beat + 1, strobe')
    <3> DEFINE a == Chi!RowAddr(r, x)
               i == Chi!BeatOf(r, a)
               m == a % ChiDataBytes
    <3>1. data[x] = ChiByte(r, x, beat, strobe) BY <2>2 DEF ChiPayload
    <3>2. data'[x] = IF i = beat /\ m \in en THEN <<beat, m>> ELSE data[x]
      BY <1>1, <2>1, <2>2, ChiPack DEF ChiPayload
    <3>3. i \in Int BY <1>1, ChiHit
    <3>4. ChiByte(r, x, beat, strobe) =
            IF i \in 0 .. beat - 1 /\ m \in strobe[i + 1]
            THEN <<i, m>> ELSE Chi!Nothing
      BY DEF ChiByte
    <3>5. ChiByte(r, x, beat + 1, strobe') =
            IF i \in 0 .. (beat + 1) - 1 /\ m \in strobe'[i + 1]
            THEN <<i, m>> ELSE Chi!Nothing
      BY DEF ChiByte
    <3> HIDE DEF i, m
    <3>6. CASE i = beat BY <1>1, <2>3, <3>1, <3>2, <3>4, <3>5, <3>6
    <3>7. CASE i # beat
      <4>1. i \in 0 .. (beat + 1) - 1 <=> i \in 0 .. beat - 1
        BY <1>1, <3>3, <3>7
      <4>2. i \in 0 .. beat - 1 => strobe'[i + 1] = strobe[i + 1]
        BY <1>1, <2>3, <3>3
      <4> QED BY <3>1, <3>2, <3>4, <3>5, <3>7, <4>1, <4>2
    <3> QED BY <3>6, <3>7
  <2>6. beat + 1 \in 0 .. Chi!chi_dat_beats(r) BY <1>1, <2>1
  <2>7. ChiPayload' BY <2>1, <2>3, <2>4, <2>5 DEF ChiPayload
  <2> QED BY <1>1, <2>1, <2>6, <2>7 DEF ChiInv
<1> QED BY <1>2, <1>3 DEF Chi!Next

LEMMA ChiVerdict == r \in ChiRequest => Chi!VerdictExact
<1> SUFFICES ASSUME r \in ChiRequest PROVE Chi!VerdictExact OBVIOUS
<1> DEFINE lo == r.addr  hi == r.addr + Chi!chi_size_bytes(r) - 1
<1>1. lo \in Nat /\ hi \in Nat /\ lo <= hi BY ChiTyping
<1>2. Chi!Bytes(r) = lo .. hi BY DEF Chi!Bytes
<1> HIDE DEF lo, hi
<1>3. Chi!port_owns_range(lo, hi) <=>
        ChiRegion = {} \/ \E g \in ChiRegion : Chi!Bytes(r) \subseteq g.lo .. g.hi
  <2>1. \A g \in ChiRegion :
          lo .. hi \subseteq g.lo .. g.hi <=> lo >= g.lo /\ hi <= g.hi
    <3> TAKE g \in ChiRegion
    <3>1. g.lo \in Int /\ g.hi \in Int
      BY ChiAssumption DEF Chi!ChiDataAssumption
    <3> QED BY <1>1, <3>1, Ranges
  <2> QED BY <1>2, <2>1 DEF Chi!port_owns_range
<1>4. ~Chi!range_hits_decerr(lo, hi) <=>
        \A w \in ChiWindow : Chi!Bytes(r) \cap (w.lo .. w.hi) = {}
  <2>1. \A w \in ChiWindow : (lo .. hi) \cap (w.lo .. w.hi) = {}
          <=> ~(lo <= w.hi /\ hi >= w.lo)
    <3> TAKE w \in ChiWindow
    <3>1. w.lo \in Int /\ w.hi \in Int /\ w.lo <= w.hi
      BY ChiAssumption DEF Chi!ChiDataAssumption
    <3> QED BY <1>1, <3>1, Ranges
  <2> QED BY <1>2, <2>1 DEF Chi!range_hits_decerr
<1>5. Chi!classify_decerr(r)
        <=> ~Chi!port_owns_range(lo, hi) \/ Chi!range_hits_decerr(lo, hi)
  BY DEF Chi!classify_decerr, lo, hi
<1> QED BY <1>3, <1>4, <1>5 DEF Chi!VerdictExact

LEMMA ChiWritten == ChiInv => Chi!PayloadExact
<1> SUFFICES ASSUME ChiInv, r.op = "WR", NEW x \in DOMAIN data
             PROVE  LET a == Chi!RowAddr(r, x)
                        here == <<Chi!BeatOf(r, a), a % ChiDataBytes>>
                    IN IF /\ here[1] \in 0 .. beat - 1
                          /\ here[2] \in strobe[here[1] + 1]
                          /\ here[1] < Chi!chi_dat_beats(r)
                       THEN data[x] = here ELSE data[x] = Chi!Nothing
  BY DEF Chi!PayloadExact
<1>1. r \in ChiRequest /\ ChiPayload /\ beat \in 0 .. Chi!chi_dat_beats(r)
  BY DEF ChiInv
<1>2. x \in Chi!Payload(r) /\ data[x] = ChiByte(r, x, beat, strobe)
  BY <1>1 DEF ChiPayload
<1> DEFINE i == Chi!BeatOf(r, Chi!RowAddr(r, x))
<1>3. i \in Int BY <1>1, <1>2, ChiHit
<1>4. Chi!chi_dat_beats(r) \in Nat
  BY <1>1, ChiBeats, ChiTyping DEF Chi!chi_dat_beats
<1>5. i \in 0 .. beat - 1 => i < Chi!chi_dat_beats(r)
  <2> HIDE DEF i
  <2> QED BY <1>1, <1>3, <1>4
<1> QED BY <1>2, <1>5 DEF ChiByte

(* An aligned transfer has no byte in a row that the entry does not have.  *)
LEMMA ChiRows ==
  ASSUME NEW q \in ChiRequest, Chi!Aligned(q), NEW a \in Chi!Bytes(q)
  PROVE  /\ a \in Nat
         /\ (a \div ChiRowBytes) - (q.addr \div ChiRowBytes) < Chi!beats(q)
<1> DEFINE R == ChiRowBytes  s == Chi!chi_size_bytes(q)  ad == q.addr
           k == a - ad
<1>1. /\ R \in Nat \ {0} /\ s \in Nat \ {0} /\ ad \in Nat
      /\ R % s = 0 \/ s % R = 0
  BY ChiTyping
<1>2. ad % s = 0 BY DEF Chi!Aligned
<1>3. Chi!beats(q) \in Nat \ {0} /\ (s % R = 0 => Chi!beats(q) = s \div R)
  BY <1>1, ChiBeats DEF Chi!beats
<1>4. a \in ad .. ad + s - 1 BY DEF Chi!Bytes
<1> HIDE DEF R, s, ad
<1>5. a \in Nat /\ k \in 0 .. s - 1 /\ ad + k = a BY <1>1, <1>4
<1> HIDE DEF k
<1>6. CASE R % s = 0
  <2>1. a \div R = ad \div R BY <1>1, <1>2, <1>5, <1>6, InsideBlock
  <2>2. ad \div R \in Int BY <1>1, Division
  <2> QED BY <1>3, <1>5, <2>1, <2>2 DEF R, ad
<1>7. CASE s % R = 0
  <2> DEFINE u == ad \div R  m == s \div R  v == a \div R
  <2>1. ad % R = 0 BY <1>1, <1>2, <1>7, MultipleOfMultiple
  <2>2. u \in Nat /\ ad = R * u BY <1>1, <2>1, Multiple
  <2>3. m \in Nat /\ s = R * m BY <1>1, <1>7, Multiple
  <2>4. v \in Int /\ R * v \in Int /\ R * v <= a
    <3>1. /\ a \div R \in Int /\ R * (a \div R) \in Int /\ a % R \in 0 .. R - 1
          /\ a = R * (a \div R) + (a % R)
      BY <1>1, <1>5, Division
    <3> QED BY <1>1, <1>5, <3>1
  <2> HIDE DEF u, m, v
  <2>5. R * (u + m) = ad + s
    <3>1. R * (u + m) = R * u + R * m BY <1>1, <2>2, <2>3
    <3> QED BY <2>2, <2>3, <3>1
  <2>6. v < u + m
    <3> SUFFICES ASSUME u + m <= v PROVE FALSE BY <2>2, <2>3, <2>4
    <3>1. R * (u + m) <= R * v
      <4>1. u + m \in Int BY <2>2, <2>3
      <4>2. CASE u + m = v BY <2>4, <4>2
      <4>3. CASE u + m < v BY <1>1, <2>4, <4>1, <4>3, ProductGrows
      <4> QED BY <2>4, <4>1, <4>2, <4>3
    <3> QED BY <1>1, <1>5, <2>4, <2>5, <3>1
  <2>7. v - u < Chi!beats(q) BY <1>3, <1>7, <2>2, <2>3, <2>4, <2>6 DEF m
  <2> QED BY <1>5, <2>7 DEF u, v, R, ad
<1> QED BY <1>1, <1>6, <1>7

LEMMA ChiRead == ChiInv => Chi!ReadLanesExact
<1> SUFFICES ASSUME ChiInv, r.op = "RD", Chi!Aligned(r), beat > 0
             PROVE  {p \in data : p[2] \in Chi!Bytes(r)}
                      = {<<a % ChiDataBytes, a>> :
                           a \in {b \in Chi!Bytes(r) : Chi!BeatOf(r, b) = beat - 1}}
  BY DEF Chi!ReadLanesExact
<1> DEFINE R == ChiRowBytes  D == ChiDataBytes  f == r.addr \div R
           i == beat - 1
           Shown == {<<l.bus, Chi!RowAddr(r, l.at)>> : l \in Chi!Lanes(r, i)}
<1>1. r \in ChiRequest /\ beat \in Nat /\ i \in Nat
  BY ChiBeats, ChiTyping DEF ChiInv, Chi!chi_dat_beats
<1>2. data = Shown BY DEF ChiInv, Chi!build_dat_flit
<1>3. R \in Nat \ {0} /\ D \in Nat \ {0} /\ r.addr \in Nat BY <1>1, ChiTyping
<1>4. f \in Int BY <1>3, Division
<1>5. ASSUME NEW a \in Nat
      PROVE  Chi!RowAddr(r, <<(a \div R) - f, a % R>>) = a
  <2>1. a \div R \in Int /\ a % R \in 0 .. R - 1 BY <1>3, Division
  <2> DEFINE j == (a \div R) - f  m == a % R  c == (f + j) * R + m
  <2>2. j \in Int /\ m \in 0 .. R - 1 BY <1>4, <2>1
  <2>3. f + j = a \div R BY <1>4, <2>1
  <2>4. c \in Int /\ c \div R = f + j /\ c % R = m
    <3> HIDE DEF j, m
    <3> QED BY <1>3, <1>4, <2>2, Place
  <2> HIDE DEF c
  <2>5. c = a
    <3>1. c \in Int /\ a \in Int BY <2>4
    <3>2. c \div R = a \div R /\ c % R = a % R BY <2>3, <2>4
    <3> HIDE DEF m
    <3> QED BY <1>3, <3>1, <3>2, SamePlace
  <2> QED BY <2>5 DEF c, Chi!RowAddr
<1>6. ASSUME NEW p \in Shown, p[2] \in Chi!Bytes(r)
      PROVE  \E a \in Chi!Bytes(r) : Chi!BeatOf(r, a) = i /\ p = <<a % D, a>>
  <2>1. PICK l \in Chi!Lanes(r, i) : p = <<l.bus, Chi!RowAddr(r, l.at)>>
    BY <1>6
  <2>2. PICK a \in Nat :
          /\ Chi!BeatOf(r, a) = i
          /\ l = [at |-> <<(a \div R) - f, a % R>>, bus |-> a % D]
    BY <1>1, ChiLanes
  <2>3. p = <<a % D, a>> BY <1>5, <2>1, <2>2
  <2> QED BY <1>6, <2>2, <2>3
<1>7. ASSUME NEW a \in Chi!Bytes(r), Chi!BeatOf(r, a) = i
      PROVE  <<a % D, a>> \in Shown
  <2>1. a \in Nat /\ (a \div R) - f < Chi!beats(r) BY <1>1, ChiRows
  <2> DEFINE l == [at |-> <<(a \div R) - f, a % R>>, bus |-> a % D]
  <2>2. l \in Chi!Lanes(r, i) BY <1>1, <1>7, <2>1, ChiLanes
  <2>3. l.bus = a % D /\ Chi!RowAddr(r, l.at) = a BY <1>5, <2>1
  <2> HIDE DEF l
  <2> QED BY <2>2, <2>3
<1> HIDE DEF Shown
<1> QED BY <1>2, <1>6, <1>7

(***************************************************************************)
(* AXI4                                                                    *)
(***************************************************************************)

Bus(q) == IF q.op = "WR" THEN WBytes ELSE RBytes

LEMMA BurstTyping ==
  /\ RowBytes \in Nat \ {0} /\ Boundary \in Nat \ {0}
  /\ \A q \in Request :
       /\ q.op \in {"WR", "RD"} /\ q.burst \in {"INCR", "WRAP", "FIXED"}
       /\ q.addr \in Nat /\ q.size \in Nat \ {0} /\ q.beats \in Nat \ {0}
       /\ Bus(q) \in Nat \ {0} /\ Bus(q) % q.size = 0
       /\ RowBytes % Bus(q) = 0 /\ RowBytes % q.size = 0
<1>1. ASSUME NEW q \in Request
      PROVE  /\ q.size \in Nat \ {0} /\ Bus(q) \in Nat \ {0}
             /\ Bus(q) % q.size = 0 /\ RowBytes % Bus(q) = 0
             /\ RowBytes \in Nat \ {0}
  BY Axi4BurstAssumption DEF Bus
<1>2. ASSUME NEW q \in Request PROVE RowBytes % q.size = 0
  <2> DEFINE b == Bus(q)
  <2> HIDE DEF b
  <2>1. /\ q.size \in Nat \ {0} /\ b \in Nat \ {0} /\ b % q.size = 0
        /\ RowBytes % b = 0 /\ RowBytes \in Nat
    BY <1>1 DEF b
  <2> QED BY <2>1, MultipleOfMultiple
<1> QED BY <1>1, <1>2, Axi4BurstAssumption

(* Beat i carries the rest of the block at s, from its first byte on.      *)
BeatAt(q, i, s) ==
  LET first == get_axi_first_valid_byte_addr(q, i)
  IN /\ s \in Nat /\ s % q.size = 0 /\ first \in s .. s + q.size - 1
     /\ Touched(q, i) = first .. s + q.size - 1
     /\ get_axi_valid_byte_count(q, i) = s + q.size - first
     /\ get_burst_window_first_addr(q) <= first
     /\ s + q.size - 1 <= last_byte_addr(q)

(* The windows.                                                            *)
LEMMA WindowTyping ==
  ASSUME NEW q \in Request
  PROVE  LET lo == get_burst_window_first_addr(q)  hi == last_byte_addr(q)
             al == (q.addr \div q.size) * q.size
             span == q.size * q.beats
             wb == (q.addr \div span) * span
         IN /\ lo \in Nat /\ hi \in Nat
            /\ q.burst = "FIXED" => lo = q.addr /\ hi = al + q.size - 1
            /\ q.burst = "INCR" => lo = q.addr /\ hi = al + span - 1
            /\ q.burst = "WRAP" => lo = wb /\ hi = wb + span - 1
            /\ span \in Nat \ {0} /\ span % q.size = 0 /\ q.size <= span
            /\ al \in Nat /\ al % q.size = 0
            /\ q.addr = al + (q.addr % q.size)
            /\ q.addr % q.size \in 0 .. q.size - 1
            /\ wb \in Nat /\ wb % span = 0 /\ wb % q.size = 0
            /\ q.addr - wb \in 0 .. span - 1
<1> DEFINE ad == q.addr  sz == q.size  n == q.beats  span == sz * n
           al == (ad \div sz) * sz  wb == (ad \div span) * span
<1>1. /\ ad \in Nat /\ sz \in Nat \ {0} /\ n \in Nat \ {0}
      /\ q.burst \in {"INCR", "WRAP", "FIXED"}
  BY BurstTyping
<1>2. span \in Nat \ {0} /\ span % sz = 0 /\ sz <= span
  <2> HIDE DEF sz, n
  <2>1. sz * 1 <= sz * n /\ sz * n \in Nat BY <1>1
  <2>2. (sz * n) % sz = 0 BY <1>1, MultipleIs
  <2> QED BY <1>1, <2>1, <2>2
<1>3. /\ al \in Nat /\ al % sz = 0
      /\ ad = al + (ad % sz) /\ ad % sz \in 0 .. sz - 1
  <2> HIDE DEF ad, sz
  <2> QED BY <1>1, RoundedDown
<1>4. /\ wb \in Nat /\ wb % span = 0 /\ ad - wb \in 0 .. span - 1
  <2> HIDE DEF ad, span
  <2>1. /\ wb \in Nat /\ wb % span = 0
        /\ ad = wb + (ad % span) /\ ad % span \in 0 .. span - 1
    BY <1>1, <1>2, RoundedDown
  <2> QED BY <1>1, <1>2, <2>1
<1>5. wb % sz = 0
  <2> HIDE DEF sz, span, wb
  <2> QED BY <1>1, <1>2, <1>4, MultipleOfMultiple
<1>6. q.burst = "FIXED" =>
        get_burst_window_first_addr(q) = ad /\ last_byte_addr(q) = al + sz - 1
  <2> SUFFICES ASSUME q.burst = "FIXED"
               PROVE  get_burst_window_first_addr(q) = ad
                      /\ last_byte_addr(q) = al + sz - 1
    OBVIOUS
  <2>1. last_byte_addr(q) = ad + (sz - (ad % sz)) - 1
    BY DEF last_byte_addr, get_axi_unaligned_byte_shift
  <2>2. get_burst_window_first_addr(q) = ad BY DEF get_burst_window_first_addr
  <2> HIDE DEF ad, sz, al
  <2> QED BY <1>1, <1>3, <2>1, <2>2
<1>7. q.burst = "INCR" =>
        get_burst_window_first_addr(q) = ad /\ last_byte_addr(q) = al + span - 1
  <2> SUFFICES ASSUME q.burst = "INCR"
               PROVE  get_burst_window_first_addr(q) = ad
                      /\ last_byte_addr(q) = al + span - 1
    OBVIOUS
  <2>1. last_byte_addr(q) = ad + (span - (ad % sz)) - 1
    BY DEF last_byte_addr, get_axi_unaligned_byte_shift
  <2>2. get_burst_window_first_addr(q) = ad BY DEF get_burst_window_first_addr
  <2> HIDE DEF ad, sz, al, span
  <2> QED BY <1>1, <1>2, <1>3, <2>1, <2>2
<1>8. q.burst = "WRAP" =>
        get_burst_window_first_addr(q) = wb /\ last_byte_addr(q) = wb + span - 1
  BY DEF get_burst_window_first_addr, last_byte_addr, get_wrap_region_base_addr
<1> HIDE DEF ad, sz, n, span, al, wb
<1>9. get_burst_window_first_addr(q) \in Nat /\ last_byte_addr(q) \in Nat
  <2>1. /\ al + sz - 1 \in Nat /\ al + span - 1 \in Nat /\ wb + span - 1 \in Nat
    BY <1>1, <1>2, <1>3, <1>4
  <2> QED BY <1>1, <1>4, <1>6, <1>7, <1>8, <2>1
<1> QED BY <1>2, <1>3, <1>4, <1>5, <1>6, <1>7, <1>8, <1>9
        DEF ad, sz, n, span, al, wb

(* A factor smaller by one leaves room for a whole block.                  *)
LEMMA BlockFits ==
  ASSUME NEW d \in Nat \ {0}, NEW n \in Nat \ {0}, NEW i \in 0 .. n - 1
  PROVE  /\ i * d \in Nat /\ (i * d) % d = 0 /\ i * d = d * i
         /\ (i * d) + d <= d * n
<1>1. i * d = d * i /\ d * i \in Nat OBVIOUS
<1>2. d * i + d <= d * n BY ProductGrows
<1>3. (d * i) % d = 0 BY MultipleIs
<1> QED BY <1>1, <1>2, <1>3

LEMMA FixedBeat ==
  ASSUME NEW q \in Request, q.burst = "FIXED", NEW i \in 0 .. q.beats - 1
  PROVE  BeatAt(q, i, (q.addr \div q.size) * q.size)
<1> DEFINE ad == q.addr  sz == q.size  al == (ad \div sz) * sz
           first == get_axi_first_valid_byte_addr(q, i)
<1>1. /\ al \in Nat /\ al % sz = 0 /\ ad = al + (ad % sz)
      /\ ad % sz \in 0 .. sz - 1 /\ sz \in Nat \ {0} /\ ad \in Nat
      /\ get_burst_window_first_addr(q) = ad
      /\ last_byte_addr(q) = al + sz - 1
  BY WindowTyping, BurstTyping
<1>2. first = ad /\ get_axi_valid_byte_count(q, i) = sz - (ad % sz)
  BY DEF get_axi_first_valid_byte_addr, get_axi_valid_byte_count,
         get_axi_unaligned_byte_shift
<1>3. Touched(q, i) = {a \in al .. al + sz - 1 : a >= ad} BY DEF Touched
<1> HIDE DEF ad, sz, al, first
<1>4. Touched(q, i) = ad .. al + sz - 1 BY <1>1, <1>3
<1>5. /\ first \in al .. al + sz - 1 /\ Touched(q, i) = first .. al + sz - 1
      /\ get_axi_valid_byte_count(q, i) = al + sz - first
  BY <1>1, <1>2, <1>4
<1>6. /\ get_burst_window_first_addr(q) <= first
      /\ al + sz - 1 <= last_byte_addr(q)
  BY <1>1, <1>2
<1> QED BY <1>1, <1>5, <1>6 DEF BeatAt, ad, sz, al, first

LEMMA IncrBeat ==
  ASSUME NEW q \in Request, q.burst = "INCR", NEW i \in 0 .. q.beats - 1
  PROVE  BeatAt(q, i, (q.addr \div q.size) * q.size + i * q.size)
<1> DEFINE ad == q.addr  sz == q.size  al == (ad \div sz) * sz
           s == al + i * sz
           first == get_axi_first_valid_byte_addr(q, i)
<1>1. /\ al \in Nat /\ al % sz = 0 /\ ad = al + (ad % sz)
      /\ ad % sz \in 0 .. sz - 1 /\ sz \in Nat \ {0} /\ ad \in Nat
      /\ q.beats \in Nat \ {0} /\ sz * q.beats \in Nat
      /\ get_burst_window_first_addr(q) = ad
      /\ last_byte_addr(q) = al + sz * q.beats - 1
  BY WindowTyping, BurstTyping
<1>2. /\ first = IF i = 0 THEN ad ELSE ad + i * sz - (ad % sz)
      /\ get_axi_valid_byte_count(q, i) = IF i = 0 THEN sz - (ad % sz) ELSE sz
  BY DEF get_axi_first_valid_byte_addr, get_axi_valid_byte_count,
         get_axi_unaligned_byte_shift
<1>3. Touched(q, i) = {a \in s .. s + sz - 1 : i = 0 => a >= ad}
  BY DEF Touched
<1> HIDE DEF ad, sz, al, first
<1> DEFINE isz == i * sz  all == sz * q.beats  m == ad % sz
<1>4. isz \in Nat /\ isz % sz = 0 /\ isz + sz <= all /\ isz = sz * i
  BY <1>1, BlockFits
<1>5. i = 0 => isz = 0 BY <1>1
<1>6. i # 0 => sz <= isz
  <2>1. i # 0 => sz * 1 <= sz * i BY <1>1
  <2> QED BY <1>1, <1>4, <2>1
<1>7. /\ first = IF i = 0 THEN ad ELSE ad + isz - m
      /\ get_axi_valid_byte_count(q, i) = IF i = 0 THEN sz - m ELSE sz
      /\ m \in 0 .. sz - 1 /\ ad = al + m
      /\ al \in Nat /\ sz \in Nat \ {0}
  BY <1>1, <1>2
<1>8. all \in Nat /\ last_byte_addr(q) = al + all - 1 BY <1>1
<1>9. s = al + isz OBVIOUS
<1> HIDE DEF isz, all, m, s
<1>10. s % sz = 0
  <2>1. al \in Int /\ isz \in Int BY <1>1, <1>4
  <2> QED BY <1>1, <1>4, <1>9, <2>1, MultipleSum
<1>11. /\ s \in Nat /\ first \in s .. s + sz - 1
       /\ Touched(q, i) = first .. s + sz - 1
       /\ get_axi_valid_byte_count(q, i) = s + sz - first
       /\ ad <= first
  <2>1. CASE i = 0
    <3>1. s = al /\ first = ad /\ get_axi_valid_byte_count(q, i) = sz - m
      BY <1>5, <1>7, <1>9, <2>1
    <3>2. Touched(q, i) = ad .. al + sz - 1 BY <1>3, <1>7, <2>1, <3>1
    <3> QED BY <1>7, <3>1, <3>2
  <2>2. CASE i # 0
    <3>1. first = s /\ get_axi_valid_byte_count(q, i) = sz
      BY <1>4, <1>7, <1>9, <2>2
    <3>2. Touched(q, i) = s .. s + sz - 1 BY <1>3, <2>2
    <3>3. ad <= s /\ s \in Nat BY <1>4, <1>6, <1>7, <1>9, <2>2
    <3> QED BY <1>7, <3>1, <3>2, <3>3
  <2> QED BY <2>1, <2>2
<1>12. s + sz - 1 <= last_byte_addr(q) BY <1>4, <1>7, <1>8, <1>9
<1>13. get_burst_window_first_addr(q) <= first BY <1>1, <1>11
<1> QED BY <1>10, <1>11, <1>12, <1>13 DEF BeatAt, ad, sz, al, first, s

WrapBase(q, i) ==
  get_wrap_region_base_addr(q)
    + ((q.addr - get_wrap_region_base_addr(q) + i * q.size) % (q.size * q.beats))

LEMMA WrapBeat ==
  ASSUME NEW q \in Request, q.burst = "WRAP", Legal(q),
         NEW i \in 0 .. q.beats - 1
  PROVE  BeatAt(q, i, WrapBase(q, i))
<1> DEFINE ad == q.addr  sz == q.size  span == sz * q.beats
           wb == (ad \div span) * span  al == (ad \div sz) * sz
           isz == i * sz
           m == (ad - wb + isz) % span
           s == wb + m
           first == get_axi_first_valid_byte_addr(q, i)
           Here(a) == /\ a \div span = ad \div span
                      /\ a % span = (al + isz) % span
           start == CHOOSE a \in 0 .. ad + span : Here(a)
<1>1. /\ ad \in Nat /\ sz \in Nat \ {0} /\ q.beats \in Nat \ {0}
      /\ span \in Nat \ {0} /\ span % sz = 0 /\ sz <= span
      /\ wb \in Nat /\ wb % span = 0 /\ wb % sz = 0
      /\ ad - wb \in 0 .. span - 1
      /\ al \in Nat /\ ad = al + (ad % sz)
      /\ get_burst_window_first_addr(q) = wb
      /\ last_byte_addr(q) = wb + span - 1
  BY WindowTyping, BurstTyping
<1>2. ad % sz = 0 BY DEF Legal
<1>3. al = ad BY <1>1, <1>2
<1>4. isz \in Nat /\ isz % sz = 0 BY <1>1, BlockFits
<1>5. /\ first = s /\ s = WrapBase(q, i)
      /\ get_axi_valid_byte_count(q, i) = sz
  <2>1. ad % sz = 0 /\ sz - 0 = sz BY <1>1, <1>2
  <2>2. get_axi_valid_byte_count(q, i) = sz
    BY <2>1 DEF get_axi_valid_byte_count, get_axi_unaligned_byte_shift
  <2>3. first = s
    BY DEF get_axi_first_valid_byte_addr, get_burst_window_first_addr,
           get_wrap_region_base_addr
  <2> QED BY <2>2, <2>3 DEF WrapBase, get_wrap_region_base_addr
<1>6. Touched(q, i) = {a \in start .. start + sz - 1 : i = 0 => a >= ad}
  BY DEF Touched
<1> DEFINE k == ad \div span
<1>7. wb = span * k /\ k \in Int /\ wb \div span = k
  <2> HIDE DEF ad, span
  <2> QED BY <1>1, RoundedDown
<1> HIDE DEF ad, sz, span, wb, al, isz, first, k
<1>8. /\ m \in 0 .. span - 1 /\ m % sz = 0
      /\ m = (ad + isz) % span
  <2> DEFINE c == ad - wb + isz
  <2>1. c \in Nat BY <1>1, <1>4
  <2>2. c % sz = 0
    <3>1. ad \in Int /\ wb \in Int /\ isz \in Int /\ ad - wb \in Int
      BY <1>1, <1>4
    <3>2. (ad - wb) % sz = 0 BY <1>1, <1>2, <3>1, MultipleSum
    <3> HIDE DEF c
    <3>3. ((ad - wb) + isz) % sz = 0 BY <1>1, <1>4, <3>1, <3>2, MultipleSum
    <3> QED BY <3>3 DEF c
  <2>3. c = (ad + isz) - span * k BY <1>1, <1>4, <1>7
  <2>4. ad + isz \in Int BY <1>1, <1>4
  <2> HIDE DEF c
  <2>5. c % span = (ad + isz) % span
    BY <1>1, <1>7, <2>3, <2>4, RemainderShift
  <2>6. (c % span) % sz = 0 BY <1>1, <2>1, <2>2, MultipleRemainder
  <2>7. c % span \in 0 .. span - 1
    <3>1. c \in Int BY <2>1
    <3> QED BY <1>1, <3>1, Division
  <2> QED BY <2>5, <2>6, <2>7 DEF c
<1> HIDE DEF m
<1>9. /\ s \in Nat /\ s % sz = 0 /\ s \div span = k /\ s % span = m
      /\ s \in 0 .. ad + span
  <2>1. s \in Nat /\ s \in 0 .. ad + span BY <1>1, <1>8
  <2>2. s % sz = 0
    <3>1. wb \in Int /\ m \in Int BY <1>1, <1>8
    <3> QED BY <1>1, <1>8, <3>1, MultipleSum
  <2>3. s = span * k + m /\ s \in Int BY <1>7, <2>1
  <2> HIDE DEF s
  <2>4. s \div span = k /\ s % span = m
    <3>1. /\ span \in Nat \ {0} /\ k \in Int /\ m \in 0 .. span - 1
          /\ s = span * k + m /\ s \in Int
      BY <1>1, <1>7, <1>8, <2>3
    <3> QED BY <3>1, DivisionUnique
  <2> QED BY <2>1, <2>2, <2>4
<1>10. Here(s) BY <1>3, <1>8, <1>9 DEF k
<1> HIDE DEF s
<1>11. start = s
  <2>1. start \in 0 .. ad + span /\ Here(start) BY <1>9, <1>10
  <2> HIDE DEF start
  <2>2. start \in Int /\ s \in Int BY <1>1, <1>9, <2>1
  <2>3. start \div span = s \div span /\ start % span = s % span
    BY <1>10, <2>1
  <2> QED BY <1>1, <2>2, <2>3, SamePlace
<1> HIDE DEF start
<1>12. i = 0 => s = ad
  <2> SUFFICES ASSUME i = 0 PROVE s = ad OBVIOUS
  <2>1. isz = 0 BY <1>1 DEF isz
  <2>2. s \div span = ad \div span /\ s % span = ad % span
    BY <1>1, <1>8, <1>9, <2>1 DEF k
  <2>3. s \in Int /\ ad \in Int BY <1>1, <1>9
  <2> QED BY <1>1, <2>2, <2>3, SamePlace
<1>13. Touched(q, i) = s .. s + sz - 1 BY <1>1, <1>6, <1>9, <1>11, <1>12
<1>14. wb <= s /\ s + sz - 1 <= wb + span - 1
  <2>1. m + sz <= span
    <3>1. 0 \in 0 .. sz - 1 /\ m \in Nat BY <1>1, <1>8
    <3>2. (m % span) + sz <= span BY <1>1, <1>8, <3>1, InsideBlock
    <3>3. m % span = m BY <1>1, <1>8, SmallRemainder
    <3> QED BY <3>2, <3>3
  <2> QED BY <1>1, <1>8, <2>1 DEF s
<1>15. first \in s .. s + sz - 1 /\ s + sz - first = sz BY <1>1, <1>5, <1>9
<1> QED BY <1>1, <1>5, <1>9, <1>13, <1>14, <1>15 DEF BeatAt, sz, first

(* Each beat carries the rest of one block of its size.                    *)
LEMMA BeatShape ==
  ASSUME NEW q \in Request, Legal(q), NEW i \in 0 .. q.beats - 1
  PROVE  \E s \in Nat : BeatAt(q, i, s)
<1>1. q.burst \in {"INCR", "WRAP", "FIXED"} BY BurstTyping
<1>2. \A s : BeatAt(q, i, s) => s \in Nat BY DEF BeatAt
<1> QED BY <1>1, <1>2, FixedBeat, IncrBeat, WrapBeat

(* Every number below a product lies in one of its blocks.                 *)
LEMMA InBlocks ==
  ASSUME NEW d \in Nat \ {0}, NEW n \in Nat \ {0}, NEW c \in 0 .. d * n - 1
  PROVE  \E j \in 0 .. n - 1 : d * j \in Nat /\ c \in d * j .. d * j + d - 1
<1> DEFINE j == c \div d
<1>1. d * n \in Nat BY SMT
<1>2. c \in Int /\ c >= 0 /\ c < d * n BY <1>1
<1>3. j \in Int /\ c = d * j + (c % d) /\ c % d \in 0 .. d - 1 /\ d * j \in Int
  BY <1>2, Division
<1>4. j >= 0 BY <1>2, Division
<1> HIDE DEF j
<1>5. j < n
  <2> SUFFICES ASSUME n <= j PROVE FALSE BY <1>3
  <2>1. d * n <= d * j
    <3>1. CASE n = j BY <1>3, <3>1
    <3>2. CASE n < j
      <4>1. d * n + d <= d * j BY <1>3, <3>2, ProductGrows
      <4> QED BY <1>1, <1>3, <4>1
    <3> QED BY <1>3, <3>1, <3>2
  <2> QED BY <1>1, <1>2, <1>3, <2>1
<1>6. d * j \in Nat BY <1>3, <1>4
<1>7. j \in 0 .. n - 1 BY <1>3, <1>4, <1>5
<1>8. c \in d * j .. d * j + d - 1 BY <1>2, <1>3
<1> QED BY <1>6, <1>7, <1>8

(* The bytes of a burst are those of its window.                           *)
LEMMA FixedBytes ==
  ASSUME NEW q \in Request, q.burst = "FIXED",
         NEW a \in get_burst_window_first_addr(q) .. last_byte_addr(q)
  PROVE  \E i \in 0 .. q.beats - 1 : a \in Touched(q, i)
<1>1. 0 \in 0 .. q.beats - 1 BY BurstTyping
<1>2. BeatAt(q, 0, (q.addr \div q.size) * q.size) BY <1>1, FixedBeat
<1>3. get_axi_first_valid_byte_addr(q, 0) = get_burst_window_first_addr(q)
  BY DEF get_axi_first_valid_byte_addr, get_burst_window_first_addr
<1>4. last_byte_addr(q) = (q.addr \div q.size) * q.size + q.size - 1
  BY WindowTyping
<1>5. a \in Touched(q, 0) BY <1>2, <1>3, <1>4 DEF BeatAt
<1> QED BY <1>1, <1>5

LEMMA IncrBytes ==
  ASSUME NEW q \in Request, q.burst = "INCR",
         NEW a \in get_burst_window_first_addr(q) .. last_byte_addr(q)
  PROVE  \E i \in 0 .. q.beats - 1 : a \in Touched(q, i)
<1> DEFINE ad == q.addr  sz == q.size  al == (ad \div sz) * sz
           span == sz * q.beats
<1>1. /\ al \in Nat /\ ad = al + (ad % sz) /\ ad % sz \in 0 .. sz - 1
      /\ sz \in Nat \ {0} /\ ad \in Nat /\ q.beats \in Nat \ {0}
      /\ span \in Nat \ {0} /\ a \in ad .. al + span - 1
  BY WindowTyping, BurstTyping
<1>2. a - al \in 0 .. span - 1
  <2> HIDE DEF ad, sz, al, span
  <2> QED BY <1>1
<1>3. PICK j \in 0 .. q.beats - 1 :
        sz * j \in Nat /\ a - al \in sz * j .. sz * j + sz - 1
  <2> DEFINE c == a - al
  <2>1. c \in 0 .. sz * q.beats - 1 BY <1>2
  <2> HIDE DEF c, sz
  <2>2. \E j \in 0 .. q.beats - 1 :
          sz * j \in Nat /\ c \in sz * j .. sz * j + sz - 1
    BY <1>1, <2>1, InBlocks
  <2> QED BY <2>2 DEF c
<1>4. BeatAt(q, j, al + j * sz) BY IncrBeat
<1> DEFINE first == get_axi_first_valid_byte_addr(q, j)
           s == al + j * sz
<1>5. Touched(q, j) = first .. s + sz - 1 /\ first \in s .. s + sz - 1
  BY <1>4 DEF BeatAt
<1>6. first = IF j = 0 THEN ad ELSE ad + j * sz - (ad % sz)
  BY DEF get_axi_first_valid_byte_addr, get_axi_unaligned_byte_shift
<1> HIDE DEF ad, sz, al, span, first
<1>7. j * sz = sz * j BY <1>1
<1>8. s = al + sz * j BY <1>7
<1>9. first = IF j = 0 THEN ad ELSE ad + sz * j - (ad % sz) BY <1>6, <1>7
<1> HIDE DEF s
<1> DEFINE js == sz * j  m == ad % sz
<1> HIDE DEF js, m
<1>10. /\ js \in Nat /\ a - al \in js .. js + sz - 1 /\ s = al + js
       /\ first = (IF j = 0 THEN ad ELSE ad + js - m) /\ ad = al + m
       /\ m \in 0 .. sz - 1 /\ a \in Int /\ a >= ad /\ al \in Nat
       /\ sz \in Nat
  <2>1. a \in Int /\ a >= ad BY <1>1
  <2> QED BY <1>1, <1>3, <1>8, <1>9, <2>1 DEF js, m
<1>11. a \in first .. s + sz - 1
  <2>1. first \in Int /\ s \in Int /\ a <= s + sz - 1 BY <1>10
  <2>2. CASE j = 0 BY <1>10, <2>1, <2>2
  <2>3. CASE j # 0 BY <1>10, <2>1, <2>3
  <2> QED BY <2>2, <2>3
<1> QED BY <1>5, <1>11

LEMMA WrapBytes ==
  ASSUME NEW q \in Request, q.burst = "WRAP", Legal(q),
         NEW a \in get_burst_window_first_addr(q) .. last_byte_addr(q)
  PROVE  \E i \in 0 .. q.beats - 1 : a \in Touched(q, i)
<1> DEFINE ad == q.addr  sz == q.size  n == q.beats  span == sz * n
           wb == (ad \div span) * span
<1>1. /\ sz \in Nat \ {0} /\ ad \in Nat /\ n \in Nat \ {0}
      /\ span \in Nat \ {0} /\ wb \in Nat /\ wb % sz = 0
      /\ ad - wb \in 0 .. span - 1 /\ a \in wb .. wb + span - 1
  BY WindowTyping, BurstTyping
<1>2. ad % sz = 0 BY DEF Legal
<1> HIDE DEF ad, sz, n, wb
<1>3. PICK j \in 0 .. n - 1 :
        sz * j \in Nat /\ a - wb \in sz * j .. sz * j + sz - 1
  <2> DEFINE c == a - wb
  <2>1. c \in 0 .. sz * n - 1 BY <1>1
  <2> HIDE DEF c
  <2>2. \E j \in 0 .. n - 1 :
          sz * j \in Nat /\ c \in sz * j .. sz * j + sz - 1
    BY <1>1, <2>1, InBlocks
  <2> QED BY <2>2 DEF c
<1> DEFINE u == (ad - wb) \div sz
<1>4. u \in Nat /\ ad - wb = sz * u /\ u < n
  <2> DEFINE c == ad - wb
  <2>1. ad \in Int /\ wb \in Int /\ c \in Nat /\ c < span BY <1>1
  <2>2. c % sz = 0 BY <1>1, <1>2, <2>1, MultipleSum
  <2> HIDE DEF c
  <2>3. c \div sz \in Nat /\ c = sz * (c \div sz)
    BY <1>1, <2>1, <2>2, Multiple
  <2> DEFINE k == c \div sz
  <2> HIDE DEF k
  <2>4. k \in Nat /\ c = sz * k BY <2>3 DEF k
  <2>5. k < n
    <3> SUFFICES ASSUME n <= k PROVE FALSE BY <1>1, <2>4
    <3>1. sz * n <= sz * k BY <1>1, <2>4
    <3>2. sz * n \in Nat /\ sz * k \in Nat BY <1>1, <2>4
    <3> QED BY <2>1, <2>4, <3>1, <3>2
  <2> QED BY <2>4, <2>5 DEF c, k
<1> HIDE DEF u
<1> DEFINE i == IF u <= j THEN j - u ELSE j - u + n
<1>5. i \in 0 .. n - 1 BY <1>1, <1>4
<1>6. (ad - wb + i * sz) % span = sz * j
  <2>1. sz * j \in 0 .. span - 1
    <3>1. sz * j + sz <= sz * n
      <4>1. j \in Int /\ n \in Int /\ j < n BY <1>1
      <4> QED BY <1>1, <4>1, ProductGrows
    <3> QED BY <1>1, <1>3, <3>1
  <2>2. i * sz = sz * i
    <3>1. i \in Int BY <1>5
    <3> HIDE DEF i
    <3> QED BY <1>1, <3>1
  <2>3. CASE u <= j
    <3>1. sz * i = sz * j - sz * u
      <4>1. i = j - u BY <2>3
      <4>2. sz * (j - u) = sz * j - sz * u BY <1>1, <1>4
      <4> QED BY <4>1, <4>2
    <3>2. ad - wb + i * sz = sz * j
      <4>1. sz * u \in Int /\ sz * j \in Int BY <1>1, <1>4
      <4> HIDE DEF i
      <4> QED BY <1>4, <2>2, <3>1, <4>1
    <3> HIDE DEF span, i
    <3> QED BY <1>1, <2>1, <3>2, SmallRemainder
  <2>4. CASE ~(u <= j)
    <3>1. sz * i = sz * j - sz * u + sz * n
      <4>1. i = j - u + n BY <2>4
      <4>2. sz * (j - u + n) = sz * j - sz * u + sz * n BY <1>1, <1>4
      <4> QED BY <4>1, <4>2
    <3>2. ad - wb + i * sz = sz * j + span
      <4>1. sz * u \in Int /\ sz * j \in Int /\ sz * n \in Int BY <1>1, <1>4
      <4> HIDE DEF i
      <4> QED BY <1>4, <2>2, <3>1, <4>1
    <3> DEFINE c == sz * j
    <3>3. c \in 0 .. span - 1 BY <2>1
    <3> HIDE DEF c, span
    <3>4. c + span = span * 1 + c /\ c + span \in Int BY <1>1, <3>3
    <3>5. (c + span) % span = c BY <1>1, <3>3, <3>4, DivisionUnique
    <3> HIDE DEF i
    <3> QED BY <3>2, <3>5 DEF c
  <2> QED BY <2>3, <2>4
<1>7. WrapBase(q, i) = wb + sz * j
  <2> HIDE DEF i
  <2> QED BY <1>6 DEF WrapBase, get_wrap_region_base_addr, ad, sz, n, wb
<1>8. BeatAt(q, i, WrapBase(q, i)) BY <1>5, WrapBeat DEF n
<1>9. get_axi_first_valid_byte_addr(q, i) = WrapBase(q, i)
  BY DEF get_axi_first_valid_byte_addr, get_burst_window_first_addr,
         WrapBase, get_wrap_region_base_addr
<1> HIDE DEF i
<1>10. a \in wb + sz * j .. wb + sz * j + sz - 1
  <2> DEFINE c == sz * j
  <2> HIDE DEF c
  <2>1. c \in Nat /\ a - wb \in c .. c + sz - 1 BY <1>3 DEF c
  <2>2. a \in Int BY <1>1
  <2>3. a \in wb + c .. wb + c + sz - 1 BY <1>1, <2>1, <2>2
  <2> QED BY <2>3 DEF c
<1>11. a \in Touched(q, i) BY <1>7, <1>8, <1>9, <1>10 DEF BeatAt, sz
<1> QED BY <1>5, <1>11 DEF n

LEMMA BytesExact ==
  ASSUME NEW q \in Request, Legal(q)
  PROVE  Bytes(q) = get_burst_window_first_addr(q) .. last_byte_addr(q)
<1> DEFINE lo == get_burst_window_first_addr(q)  hi == last_byte_addr(q)
<1>1. lo \in Nat /\ hi \in Nat BY WindowTyping
<1>2. ASSUME NEW i \in 0 .. q.beats - 1 PROVE Touched(q, i) \subseteq lo .. hi
  <2>1. PICK s \in Nat : BeatAt(q, i, s) BY BeatShape
  <2> DEFINE first == get_axi_first_valid_byte_addr(q, i)
  <2>2. /\ Touched(q, i) = first .. s + q.size - 1 /\ lo <= first
        /\ first \in s .. s + q.size - 1 /\ s + q.size - 1 <= hi
    BY <2>1 DEF BeatAt
  <2>3. q.size \in Nat BY BurstTyping
  <2> HIDE DEF first, lo, hi
  <2> QED BY <1>1, <2>2, <2>3
<1>3. ASSUME NEW a \in lo .. hi
      PROVE  \E i \in 0 .. q.beats - 1 : a \in Touched(q, i)
  <2>1. q.burst \in {"INCR", "WRAP", "FIXED"} BY BurstTyping
  <2> QED BY <2>1, FixedBytes, IncrBytes, WrapBytes
<1> HIDE DEF lo, hi
<1>4. Bytes(q) = lo .. hi BY <1>2, <1>3 DEF Bytes
<1> QED BY <1>4 DEF lo, hi

LEMMA WindowOrder ==
  ASSUME NEW q \in Request
  PROVE  get_burst_window_first_addr(q) <= last_byte_addr(q)
<1> DEFINE lo == get_burst_window_first_addr(q)  hi == last_byte_addr(q)
           al == (q.addr \div q.size) * q.size  span == q.size * q.beats
           wb == (q.addr \div span) * span  m == q.addr % q.size
<1>1. /\ lo \in Nat /\ hi \in Nat
      /\ q.burst = "FIXED" => lo = q.addr /\ hi = al + q.size - 1
      /\ q.burst = "INCR" => lo = q.addr /\ hi = al + span - 1
      /\ q.burst = "WRAP" => lo = wb /\ hi = wb + span - 1
      /\ span \in Nat \ {0} /\ q.size <= span
      /\ al \in Nat /\ q.addr = al + m /\ m \in 0 .. q.size - 1
      /\ wb \in Nat
  BY WindowTyping
<1>2. q.burst \in {"INCR", "WRAP", "FIXED"} /\ q.size \in Nat BY BurstTyping
<1> HIDE DEF lo, hi, al, span, wb, m
<1> QED BY <1>1, <1>2 DEF lo, hi

(* The rows that hold a range of bytes.                                    *)
LEMMA RowImage ==
  ASSUME NEW n \in Nat \ {0}, NEW lo \in Nat, NEW hi \in Nat, lo <= hi
  PROVE  {a \div n : a \in lo .. hi} = (lo \div n) .. (hi \div n)
<1>1. lo \div n \in Int /\ hi \div n \in Int BY Division
<1>2. ASSUME NEW a \in lo .. hi PROVE a \div n \in (lo \div n) .. (hi \div n)
  <2>1. a \in Int /\ lo <= a /\ a <= hi OBVIOUS
  <2>2. a \div n \in Int /\ lo \div n <= a \div n BY <2>1, DivisionMonotonic
  <2>3. a \div n <= hi \div n BY <2>1, DivisionMonotonic
  <2> QED BY <1>1, <2>2, <2>3
<1>3. ASSUME NEW row \in (lo \div n) .. (hi \div n)
      PROVE  \E a \in lo .. hi : row = a \div n
  <2>1. CASE row = lo \div n
    <3>1. lo \in lo .. hi OBVIOUS
    <3> QED BY <2>1, <3>1
  <2>2. CASE row # lo \div n
    <3>1. row \in Int /\ lo \div n < row /\ row <= hi \div n BY <1>1, <2>2
    <3> DEFINE u == lo \div n  v == hi \div n
    <3>2. /\ u \in Int /\ lo = n * u + (lo % n) /\ lo % n \in 0 .. n - 1
          /\ n * u \in Int
      BY Division
    <3>3. /\ v \in Int /\ hi = n * v + (hi % n) /\ hi % n \in 0 .. n - 1
          /\ n * v \in Int
      BY Division
    <3> HIDE DEF u, v
    <3>4. n * u + n <= n * row /\ n * row \in Int
      BY <3>1, <3>2, ProductGrows DEF u
    <3>5. n * row <= n * v
      <4>1. row <= v BY <3>1 DEF v
      <4> QED BY <3>1, <3>3, <4>1
    <3>6. n * row \in lo .. hi BY <3>2, <3>3, <3>4, <3>5
    <3>7. (n * row) \div n = row BY <3>1, MultipleIs
    <3> QED BY <3>6, <3>7
  <2> QED BY <2>1, <2>2
<1> QED BY <1>2, <1>3

(* A burst takes the rows from its first byte's to its last byte's.        *)
LEMMA RowCount ==
  ASSUME NEW q \in Request
  PROVE  get_dram_req_beats(q)
           = (last_byte_addr(q) \div RowBytes)
               - (get_burst_window_first_addr(q) \div RowBytes) + 1
<1> DEFINE lo == get_burst_window_first_addr(q)  hi == last_byte_addr(q)
           al == (q.addr \div q.size) * q.size  sz == q.size  m == q.addr % sz
<1>1. CASE q.burst = "FIXED"
  <2>1. /\ lo = q.addr /\ hi = al + sz - 1 /\ al \in Nat /\ al % sz = 0
        /\ q.addr = al + m /\ m \in 0 .. sz - 1
    BY <1>1, WindowTyping
  <2>2. sz \in Nat \ {0} /\ RowBytes \in Nat \ {0} /\ RowBytes % sz = 0
    BY BurstTyping
  <2> HIDE DEF lo, hi, al, sz, m
  <2>3. lo \div RowBytes = al \div RowBytes
    <3>1. (al + m) \div RowBytes = al \div RowBytes
      BY <2>1, <2>2, InsideBlock
    <3> QED BY <2>1, <3>1
  <2>4. hi \div RowBytes = al \div RowBytes
    <3> DEFINE k == sz - 1
    <3>1. k \in 0 .. sz - 1 /\ hi = al + k BY <2>1, <2>2
    <3> HIDE DEF k
    <3>2. (al + k) \div RowBytes = al \div RowBytes
      BY <2>1, <2>2, <3>1, InsideBlock
    <3> QED BY <3>1, <3>2
  <2>5. al \div RowBytes \in Int BY <2>1, <2>2, Division
  <2>6. (hi \div RowBytes) - (lo \div RowBytes) + 1 = 1 BY <2>3, <2>4, <2>5
  <2> QED BY <1>1, <2>6 DEF get_dram_req_beats, lo, hi
<1>2. CASE q.burst # "FIXED" BY <1>2 DEF get_dram_req_beats
<1> QED BY <1>1, <1>2

(* A request that reaches the backend has a shape that AXI4 allows.        *)
LEMMA AcceptedLegal ==
  ASSUME NEW q \in Request, build_addr_entry(q) = "NONE"
  PROVE  Legal(q)
<1>1. supports_axi_burst(q) BY DEF build_addr_entry
<1>2. q.burst \in {"INCR", "WRAP", "FIXED"} BY BurstTyping
<1> QED BY <1>1, <1>2 DEF supports_axi_burst, Legal

LEMMA BurstRows == r \in Request => RowsExact
<1> SUFFICES ASSUME r \in Request, build_addr_entry(r) = "NONE"
             PROVE  LET first == get_burst_window_first_addr(r) \div RowBytes
                    IN first .. first + get_dram_req_beats(r) - 1
                         = {a \div RowBytes : a \in Bytes(r)}
  BY DEF RowsExact
<1> DEFINE lo == get_burst_window_first_addr(r)  hi == last_byte_addr(r)
<1>1. /\ lo \in Nat /\ hi \in Nat /\ lo <= hi /\ Bytes(r) = lo .. hi
      /\ RowBytes \in Nat \ {0}
      /\ get_dram_req_beats(r) = (hi \div RowBytes) - (lo \div RowBytes) + 1
  <2>1. Legal(r) BY AcceptedLegal
  <2>2. Bytes(r) = lo .. hi BY <2>1, BytesExact
  <2>3. lo \in Nat /\ hi \in Nat BY WindowTyping
  <2> QED BY <2>2, <2>3, WindowOrder, RowCount, BurstTyping
<1> HIDE DEF lo, hi
<1>2. {a \div RowBytes : a \in lo .. hi} = (lo \div RowBytes) .. (hi \div RowBytes)
  BY <1>1, RowImage
<1>3. lo \div RowBytes \in Int /\ hi \div RowBytes \in Int BY <1>1, Division
<1>4. (lo \div RowBytes) + get_dram_req_beats(r) - 1 = hi \div RowBytes
  BY <1>1, <1>3
<1> QED BY <1>1, <1>2, <1>4 DEF lo

LEMMA BurstVerdict == r \in Request => VerdictExact
<1> SUFFICES ASSUME r \in Request, Legal(r)
             PROVE  build_addr_entry(r) = "NONE" <=>
                      /\ Region = {} \/ \E g \in Region : Bytes(r) \subseteq g.lo .. g.hi
                      /\ \A w \in Window : Bytes(r) \cap (w.lo .. w.hi) = {}
                      /\ \A a, b \in Bytes(r) : a \div Boundary = b \div Boundary
                      /\ r.burst = "FIXED" => r.beats <= FixedMax
                      /\ r.excl =>
                           /\ ExclusiveEnabled /\ ~r.cacheable
                           /\ \E k \in 0 .. 7 : /\ r.size * r.beats = 2 ^ k
                                                /\ 2 ^ k <= Granule /\ r.addr % 2 ^ k = 0
  BY DEF VerdictExact
<1> DEFINE lo == get_burst_window_first_addr(r)  hi == last_byte_addr(r)
<1>1. lo \in Nat /\ hi \in Nat /\ lo <= hi BY WindowTyping, WindowOrder
<1>2. Bytes(r) = lo .. hi BY BytesExact
<1> HIDE DEF lo, hi
<1>3. port_owns_range(lo, hi) <=>
        Region = {} \/ \E g \in Region : Bytes(r) \subseteq g.lo .. g.hi
  <2>1. \A g \in Region :
          lo .. hi \subseteq g.lo .. g.hi <=> lo >= g.lo /\ hi <= g.hi
    <3> TAKE g \in Region
    <3>1. g.lo \in Int /\ g.hi \in Int BY Axi4BurstAssumption
    <3> QED BY <1>1, <3>1, Ranges
  <2> QED BY <1>2, <2>1 DEF port_owns_range
<1>4. ~range_hits_decerr(lo, hi) <=>
        \A w \in Window : Bytes(r) \cap (w.lo .. w.hi) = {}
  <2>1. \A w \in Window : (lo .. hi) \cap (w.lo .. w.hi) = {}
          <=> ~(lo <= w.hi /\ hi >= w.lo)
    <3> TAKE w \in Window
    <3>1. w.lo \in Int /\ w.hi \in Int /\ w.lo <= w.hi BY Axi4BurstAssumption
    <3> QED BY <1>1, <3>1, Ranges
  <2> QED BY <1>2, <2>1 DEF range_hits_decerr
<1>5. ~crosses_4k_boundary(lo, hi) <=>
        \A a, b \in Bytes(r) : a \div Boundary = b \div Boundary
  <2>1. Boundary \in Nat \ {0} BY BurstTyping
  <2>2. lo \in lo .. hi /\ hi \in lo .. hi BY <1>1
  <2>3. ASSUME lo \div Boundary = hi \div Boundary, NEW a \in lo .. hi
        PROVE  a \div Boundary = lo \div Boundary
    <3>1. a \in Int /\ lo <= a /\ a <= hi BY <1>1
    <3>2. a \div Boundary \in Int /\ lo \div Boundary <= a \div Boundary
      BY <1>1, <2>1, <3>1, DivisionMonotonic
    <3>3. a \div Boundary <= hi \div Boundary
      BY <1>1, <2>1, <3>1, DivisionMonotonic
    <3>4. lo \div Boundary \in Int BY <1>1, <2>1, Division
    <3> QED BY <2>3, <3>2, <3>3, <3>4
  <2> QED BY <1>2, <2>2, <2>3 DEF crosses_4k_boundary
<1>6. supports_axi_burst(r) <=> (r.burst = "FIXED" => r.beats <= FixedMax)
  <2>1. r.burst \in {"INCR", "WRAP", "FIXED"} BY BurstTyping
  <2>2. r.size <= RowBytes
    <3> DEFINE sz == r.size
    <3>1. /\ sz \in Nat \ {0} /\ RowBytes \in Nat \ {0} /\ RowBytes % sz = 0
          /\ 0 \in Nat
      BY BurstTyping
    <3> HIDE DEF sz
    <3>2. 0 % sz = 0 /\ 0 \in 0 .. sz - 1 BY <3>1, SmallRemainder
    <3>3. (0 % RowBytes) + sz <= RowBytes BY <3>1, <3>2, InsideBlock
    <3>4. 0 % RowBytes = 0 BY <3>1, SmallRemainder
    <3> QED BY <3>1, <3>3, <3>4 DEF sz
  <2> QED BY <2>1, <2>2 DEF supports_axi_burst, Legal
<1>7. supports_exclusive_request(r) <=>
        /\ ExclusiveEnabled /\ ~r.cacheable
        /\ \E k \in 0 .. 7 : /\ r.size * r.beats = 2 ^ k
                             /\ 2 ^ k <= Granule /\ r.addr % 2 ^ k = 0
  BY DEF supports_exclusive_request, is_legal_exclusive_granule
<1>8. classify_request(r) =
        IF ~port_owns_range(lo, hi) \/ range_hits_decerr(lo, hi)
        THEN "DECERR_REGION"
        ELSE IF crosses_4k_boundary(lo, hi) THEN "DECERR_4K" ELSE "NONE"
  BY DEF classify_request, lo, hi
<1>9. build_addr_entry(r) = "NONE" <=>
        /\ port_owns_range(lo, hi) /\ ~range_hits_decerr(lo, hi)
        /\ ~crosses_4k_boundary(lo, hi) /\ supports_axi_burst(r)
        /\ r.excl => supports_exclusive_request(r)
  BY <1>8 DEF build_addr_entry
<1> QED BY <1>3, <1>4, <1>5, <1>6, <1>7, <1>9

LEMMA LeastIs ==
  ASSUME NEW S, NEW a \in S, \A b \in S : b \in Int /\ a <= b
  PROVE  Min(S) = a
<1>1. \A x \in S : (\A y \in S : x <= y) => x = a OBVIOUS
<1> QED BY <1>1 DEF Min

LEMMA GreatestIs ==
  ASSUME NEW S, NEW a \in S, \A b \in S : b \in Int /\ b <= a
  PROVE  Max(S) = a
<1>1. \A x \in S : (\A y \in S : x >= y) => x = a OBVIOUS
<1> QED BY <1>1 DEF Max

(* The lanes of a beat are the bytes it carries, each at its own place, and*)
(* the entry has rows for all of them.                                     *)
LEMMA BurstLanes ==
  ASSUME NEW q \in Request, Legal(q), NEW i \in 0 .. q.beats - 1, NEW l
  PROVE  LET f == get_burst_window_first_addr(q) \div RowBytes
         IN /\ Touched(q, i) \subseteq Nat
            /\ l \in Lanes(q, i, Bus(q)) <=>
                 \E a \in Touched(q, i) :
                   l = [at |-> <<(a \div RowBytes) - f, a % RowBytes>>,
                        bus |-> a % Bus(q)]
<1> DEFINE R == RowBytes  B == Bus(q)  sz == q.size
           lo == get_burst_window_first_addr(q)  hi == last_byte_addr(q)
           f == lo \div R
           first == get_axi_first_valid_byte_addr(q, i)
           count == get_axi_valid_byte_count(q, i)
           row == (first \div R) - f  rl == first % R  bl == first % B
           n == Min({count, R - rl, B - bl})
<1>1. PICK s \in Nat : BeatAt(q, i, s) BY BeatShape
<1>2. /\ s % sz = 0 /\ first \in s .. s + sz - 1
      /\ Touched(q, i) = first .. s + sz - 1 /\ count = s + sz - first
      /\ lo <= first /\ s + sz - 1 <= hi
  BY <1>1 DEF BeatAt
<1>3. /\ R \in Nat \ {0} /\ B \in Nat \ {0} /\ sz \in Nat \ {0}
      /\ R % sz = 0 /\ B % sz = 0
  BY BurstTyping
<1>4. lo \in Nat /\ hi \in Nat BY WindowTyping
<1>5. get_dram_req_beats(q) = (hi \div R) - (lo \div R) + 1 BY RowCount
<1>6. Lanes(q, i, B) =
        IF row >= get_dram_req_beats(q) THEN {}
        ELSE {[at |-> <<row, rl + k>>, bus |-> bl + k] : k \in 0 .. n - 1}
  BY DEF Lanes
<1> HIDE DEF R, B, sz, lo, hi, first, count
<1>7. first \in Nat /\ s + sz - 1 \in Nat BY <1>2, <1>3
<1>8. row < get_dram_req_beats(q) /\ row \in Int /\ get_dram_req_beats(q) \in Int
  <2>1. first \in Int /\ first <= hi /\ hi \in Int BY <1>2, <1>3, <1>4
  <2>2. first \div R \in Int /\ hi \div R \in Int /\ first \div R <= hi \div R
    BY <1>3, <2>1, DivisionMonotonic
  <2>3. lo \div R \in Int BY <1>3, <1>4, Division
  <2> QED BY <1>5, <2>2, <2>3
<1> DEFINE k0 == first - s
<1>9. k0 \in 0 .. sz - 1 /\ first = s + k0 /\ count = sz - k0 BY <1>2, <1>3
<1> HIDE DEF k0
<1>10. ASSUME NEW k \in 0 .. sz - 1
       PROVE  /\ (s + k) \div R = s \div R /\ (s + k) % R = (s % R) + k
              /\ (s + k) % B = (s % B) + k
              /\ (s % R) + sz <= R /\ (s % B) + sz <= B
  <2>1. /\ (s + k) \div R = s \div R /\ (s + k) % R = (s % R) + k
        /\ (s % R) + sz <= R
    BY <1>2, <1>3, InsideBlock
  <2>2. (s + k) % B = (s % B) + k /\ (s % B) + sz <= B
    BY <1>2, <1>3, InsideBlock
  <2> QED BY <2>1, <2>2
<1>11. s % R \in Int /\ s % B \in Int /\ s \div R \in Int BY <1>3, Division
<1>12. /\ first \div R = s \div R /\ rl = (s % R) + k0 /\ bl = (s % B) + k0
       /\ (s % R) + sz <= R /\ (s % B) + sz <= B
  BY <1>9, <1>10
<1>13. n = count
  <2> DEFINE S == {count, R - rl, B - bl}
  <2>1. count \in S OBVIOUS
  <2>2. \A b \in S : b \in Int /\ count <= b
    BY <1>3, <1>9, <1>11, <1>12
  <2> HIDE DEF S
  <2>3. Min(S) = count BY <2>1, <2>2, LeastIs
  <2> QED BY <2>3 DEF S
<1> HIDE DEF n
<1>14. ASSUME NEW k \in 0 .. count - 1
       PROVE  /\ first + k \in first .. s + sz - 1
              /\ (first + k) \div R - f = row /\ (first + k) % R = rl + k
              /\ (first + k) % B = bl + k
  <2> DEFINE j == k0 + k
  <2>1. j \in 0 .. sz - 1 /\ first + k = s + j BY <1>3, <1>9
  <2> HIDE DEF j
  <2>2. /\ (s + j) \div R = s \div R /\ (s + j) % R = (s % R) + j
        /\ (s + j) % B = (s % B) + j
    BY <1>10, <2>1
  <2>3. (s % R) + j = rl + k /\ (s % B) + j = bl + k
    BY <1>9, <1>11, <1>12 DEF j
  <2>4. first + k \in first .. s + sz - 1 BY <1>3, <1>7, <1>9
  <2> QED BY <1>12, <2>1, <2>2, <2>3, <2>4
<1> DEFINE P(a) == l = [at |-> <<(a \div R) - f, a % R>>, bus |-> a % B]
<1>15. ASSUME l \in Lanes(q, i, B) PROVE \E a \in Touched(q, i) : P(a)
  <2>1. PICK k \in 0 .. count - 1 : l = [at |-> <<row, rl + k>>, bus |-> bl + k]
    BY <1>6, <1>8, <1>13, <1>15
  <2>2. first + k \in Touched(q, i) BY <1>2, <1>14
  <2>3. P(first + k) BY <1>14, <2>1
  <2> QED BY <2>2, <2>3
<1>16. ASSUME NEW a \in Touched(q, i), P(a) PROVE l \in Lanes(q, i, B)
  <2> DEFINE k == a - first
  <2>1. k \in 0 .. count - 1 /\ first + k = a BY <1>2, <1>3, <1>7, <1>9
  <2> HIDE DEF k
  <2>2. (a \div R) - f = row /\ a % R = rl + k /\ a % B = bl + k
    BY <1>14, <2>1
  <2>3. l = [at |-> <<row, rl + k>>, bus |-> bl + k] BY <1>16, <2>2
  <2> QED BY <1>6, <1>8, <1>13, <2>1, <2>3
<1>17. Touched(q, i) \subseteq Nat BY <1>2, <1>7
<1>18. l \in Lanes(q, i, B) <=> \E a \in Touched(q, i) : P(a) BY <1>15, <1>16
<1> QED BY <1>17, <1>18 DEF R, B, lo, f

(* The address of a place, and the place of an address.                    *)
LEMMA PlaceOf ==
  ASSUME NEW q \in Request, NEW a \in Nat
  PROVE  LET f == get_burst_window_first_addr(q) \div RowBytes
         IN RowAddr(q, <<(a \div RowBytes) - f, a % RowBytes>>) = a
<1> DEFINE R == RowBytes  f == get_burst_window_first_addr(q) \div R
           j == (a \div R) - f  m == a % R  c == (f + j) * R + m
<1>1. R \in Nat \ {0} /\ get_burst_window_first_addr(q) \in Nat
  BY BurstTyping, WindowTyping
<1>2. f \in Int /\ a \div R \in Int /\ m \in 0 .. R - 1 BY <1>1, Division
<1> HIDE DEF R, f
<1>3. j \in Int /\ f + j = a \div R BY <1>2
<1>4. c \in Int /\ c \div R = f + j /\ c % R = m
  <2> HIDE DEF j, m
  <2> QED BY <1>1, <1>2, <1>3, Place
<1> HIDE DEF c
<1>5. c = a
  <2>1. c \in Int /\ a \in Int BY <1>4
  <2>2. c \div R = a \div R /\ c % R = a % R BY <1>3, <1>4
  <2> HIDE DEF m
  <2> QED BY <1>1, <2>1, <2>2, SamePlace
<1> QED BY <1>5 DEF c, R, f, RowAddr

LEMMA AddressOf ==
  ASSUME NEW q \in Request, NEW x \in Payload(q)
  PROVE  LET f == get_burst_window_first_addr(q) \div RowBytes
             a == RowAddr(q, x)
         IN a \in Nat /\ <<(a \div RowBytes) - f, a % RowBytes>> = x
<1> DEFINE R == RowBytes  f == get_burst_window_first_addr(q) \div R
           a == RowAddr(q, x)  i == x[1]  m == x[2]
<1>1. R \in Nat \ {0} /\ get_burst_window_first_addr(q) \in Nat
  BY BurstTyping, WindowTyping
<1>2. f \in Nat BY <1>1, Division
<1>3. /\ x = <<i, m>> /\ i \in 0 .. get_dram_req_beats(q) - 1
      /\ m \in 0 .. R - 1
  BY DEF Payload
<1>4. a = (f + i) * R + m BY DEF RowAddr
<1> HIDE DEF R, f, a, i, m
<1>5. i \in Nat /\ m \in Nat
  <2>1. get_dram_req_beats(q) \in Int
    <3>1. /\ last_byte_addr(q) \in Int /\ get_burst_window_first_addr(q) \in Int
          /\ RowBytes \in Nat \ {0}
      BY BurstTyping, WindowTyping
    <3>2. /\ last_byte_addr(q) \div RowBytes \in Int
          /\ get_burst_window_first_addr(q) \div RowBytes \in Int
      BY <3>1, Division
    <3> QED BY <3>2, RowCount
  <2> QED BY <1>1, <1>3, <2>1
<1>6. a \div R = f + i /\ a % R = m BY <1>1, <1>2, <1>3, <1>4, <1>5, Place
<1>7. a \in Nat
  <2>1. f + i \in Nat BY <1>2, <1>5
  <2>2. (f + i) * R \in Nat BY <1>1, <2>1
  <2> QED BY <1>4, <1>5, <2>2
<1>8. (a \div R) - f = i BY <1>2, <1>5, <1>6
<1> QED BY <1>3, <1>6, <1>7, <1>8 DEF R, f, a

(* What a write beat leaves in the payload.                                *)
LEMMA BurstPack ==
  ASSUME NEW q \in Request, q.op = "WR", Legal(q),
         NEW i \in 0 .. q.beats - 1, NEW strb,
         NEW p, DOMAIN p = Payload(q), NEW x \in Payload(q)
  PROVE  LET a == RowAddr(q, x)
         IN pack_write_beat(q, p, i, strb)[x] =
              IF a \in Touched(q, i) /\ a % WBytes \in strb
              THEN <<i, a % WBytes>> ELSE p[x]
<1> DEFINE a == RowAddr(q, x)  f == get_burst_window_first_addr(q) \div RowBytes
           hit == {l \in Lanes(q, i, WBytes) : l.bus \in strb}
           Lane(b) == [at |-> <<(b \div RowBytes) - f, b % RowBytes>>,
                       bus |-> b % WBytes]
<1>1. pack_write_beat(q, p, i, strb)[x] =
        IF \E l \in hit : l.at = x
        THEN <<i, (CHOOSE l \in hit : l.at = x).bus>> ELSE p[x]
  BY DEF pack_write_beat
<1>2. Bus(q) = WBytes BY DEF Bus
<1>3. /\ Touched(q, i) \subseteq Nat
      /\ \A l : l \in Lanes(q, i, WBytes) <=> \E b \in Touched(q, i) : l = Lane(b)
  BY <1>2, BurstLanes
<1>4. a \in Nat /\ <<(a \div RowBytes) - f, a % RowBytes>> = x BY AddressOf
<1>5. \A b \in Nat : RowAddr(q, <<(b \div RowBytes) - f, b % RowBytes>>) = b
  BY PlaceOf
<1> HIDE DEF a, f
<1>6. ASSUME NEW l \in hit, l.at = x
      PROVE  a \in Touched(q, i) /\ l.bus = a % WBytes /\ l.bus \in strb
  <2>1. PICK b \in Touched(q, i) : l = Lane(b) BY <1>3, <1>6
  <2>2. <<(b \div RowBytes) - f, b % RowBytes>> = x BY <1>6, <2>1
  <2>3. RowAddr(q, x) = b BY <1>3, <1>5, <2>1, <2>2
  <2>4. a = b BY <2>3 DEF a
  <2> QED BY <1>6, <2>1, <2>4
<1>7. ASSUME a \in Touched(q, i), a % WBytes \in strb
      PROVE  \E l \in hit : l.at = x
  <2>1. Lane(a) \in Lanes(q, i, WBytes) BY <1>3, <1>7
  <2>2. Lane(a).at = x /\ Lane(a).bus = a % WBytes BY <1>4
  <2> HIDE DEF Lane
  <2> QED BY <1>7, <2>1, <2>2
<1> HIDE DEF hit
<1>8. CASE \E l \in hit : l.at = x
  <2> DEFINE l == CHOOSE m \in hit : m.at = x
  <2>1. l \in hit /\ l.at = x BY <1>8
  <2>2. pack_write_beat(q, p, i, strb)[x] = <<i, l.bus>> BY <1>1, <1>8
  <2> HIDE DEF l
  <2>3. a \in Touched(q, i) /\ l.bus = a % WBytes /\ a % WBytes \in strb
    BY <1>6, <2>1
  <2> QED BY <2>2, <2>3 DEF a
<1>9. CASE ~\E l \in hit : l.at = x BY <1>1, <1>7, <1>9 DEF a
<1> QED BY <1>8, <1>9

(* What the payload of a write holds after its first beats.                *)
Hits(q, x, n, st) ==
  {j \in 0 .. n - 1 : /\ RowAddr(q, x) \in Touched(q, j)
                      /\ RowAddr(q, x) % WBytes \in st[j + 1]}

BurstByte(q, x, n, st) ==
  IF Hits(q, x, n, st) = {} THEN Nothing
  ELSE <<Max(Hits(q, x, n, st)), RowAddr(q, x) % WBytes>>

BurstPayload ==
  /\ strobe \in Seq(SUBSET (0 .. WBytes - 1)) /\ Len(strobe) = beat
  /\ DOMAIN data = Payload(r)
  /\ \A x \in Payload(r) : data[x] = BurstByte(r, x, beat, strobe)

BurstInv ==
  /\ r \in Request /\ beat \in Nat
  /\ r.op = "WR" /\ build_addr_entry(r) = "NONE" => BurstPayload
  /\ r.op = "RD" /\ beat > 0 =>
       beat - 1 \in 0 .. r.beats - 1 /\ data = unpack_read_beat(r, beat - 1)

LEMMA BurstInit == Init => BurstInv
<1> SUFFICES ASSUME Init PROVE BurstInv OBVIOUS
<1>1. r \in Request /\ beat = 0 /\ strobe = <<>> BY DEF Init
<1>2. ASSUME r.op = "WR", build_addr_entry(r) = "NONE" PROVE BurstPayload
  <2>1. data = [x \in Payload(r) |-> Nothing] BY <1>2 DEF Init
  <2>2. \A x \in Payload(r) : BurstByte(r, x, 0, strobe) = Nothing
    BY DEF BurstByte, Hits
  <2> QED BY <1>1, <2>1, <2>2 DEF BurstPayload
<1> QED BY <1>1, <1>2 DEF BurstInv

LEMMA BurstStep == BurstInv /\ Next => BurstInv'
<1> SUFFICES ASSUME BurstInv, Next PROVE BurstInv' OBVIOUS
<1>1. r \in Request /\ beat \in Nat /\ r.beats \in Nat
  BY BurstTyping DEF BurstInv
<1>2. CASE ReadBeat
  <2>1. /\ r' = r /\ beat' = beat + 1 /\ r.op = "RD" /\ beat < r.beats
        /\ data' = unpack_read_beat(r, beat)
    BY <1>2 DEF ReadBeat
  <2>2. beat' \in Nat /\ beat' - 1 = beat /\ beat \in 0 .. r.beats - 1
    BY <1>1, <2>1
  <2>3. r'.op # "WR" BY <2>1
  <2> QED BY <1>1, <2>1, <2>2, <2>3 DEF BurstInv
<1>3. ASSUME NEW strb \in SUBSET (0 .. WBytes - 1), WriteBeat(strb)
      PROVE  BurstInv'
  <2>1. /\ r' = r /\ beat' = beat + 1 /\ r.op = "WR" /\ beat < r.beats
        /\ build_addr_entry(r) = "NONE"
        /\ strobe' = Append(strobe, strb)
        /\ data' = pack_write_beat(r, data, beat, strb)
    BY <1>3 DEF WriteBeat
  <2>2. BurstPayload BY <2>1 DEF BurstInv
  <2>3. /\ strobe' \in Seq(SUBSET (0 .. WBytes - 1))
        /\ Len(strobe') = beat + 1 /\ strobe'[beat + 1] = strb
        /\ \A i \in 1 .. beat : strobe'[i] = strobe[i]
    BY <1>1, <2>1, <2>2 DEF BurstPayload
  <2>4. DOMAIN data' = Payload(r)
    BY <2>1, <2>2 DEF BurstPayload, pack_write_beat
  <2>5. beat \in 0 .. r.beats - 1 /\ Legal(r) BY <1>1, <2>1, AcceptedLegal
  <2>6. ASSUME NEW x \in Payload(r)
        PROVE  data'[x] = BurstByte(r, x, beat + 1, strobe')
    <3> DEFINE a == RowAddr(r, x)  m == a % WBytes
               old == Hits(r, x, beat, strobe)
               new == Hits(r, x, beat + 1, strobe')
    <3>1. data[x] = IF old = {} THEN Nothing ELSE <<Max(old), m>>
      BY <2>2 DEF BurstPayload, BurstByte
    <3>2. data'[x] = IF a \in Touched(r, beat) /\ m \in strb
                     THEN <<beat, m>> ELSE data[x]
      BY <1>1, <2>1, <2>2, <2>5, BurstPack DEF BurstPayload
    <3>3. old \subseteq 0 .. beat - 1 BY DEF Hits
    <3>4. new = old \cup {j \in {beat} : a \in Touched(r, beat) /\ m \in strb}
      <4>1. \A j \in 0 .. beat - 1 : strobe'[j + 1] = strobe[j + 1]
        BY <1>1, <2>3
      <4>2. 0 .. (beat + 1) - 1 = (0 .. beat - 1) \cup {beat} BY <1>1
      <4>3. beat \notin 0 .. beat - 1 BY <1>1
      <4> QED BY <2>3, <4>1, <4>2, <4>3 DEF Hits
    <3>5. BurstByte(r, x, beat + 1, strobe') =
            IF new = {} THEN Nothing ELSE <<Max(new), m>>
      BY DEF BurstByte
    <3> HIDE DEF a, m, old, new
    <3>6. CASE a \in Touched(r, beat) /\ m \in strb
      <4>1. beat \in new /\ \A b \in new : b \in Int /\ b <= beat
        BY <1>1, <3>3, <3>4, <3>6
      <4>2. Max(new) = beat /\ new # {} BY <4>1, GreatestIs
      <4> QED BY <3>2, <3>5, <3>6, <4>2
    <3>7. CASE ~(a \in Touched(r, beat) /\ m \in strb)
      <4>1. new = old BY <3>4, <3>7
      <4> QED BY <3>1, <3>2, <3>5, <3>7, <4>1
    <3> QED BY <3>6, <3>7
  <2>7. BurstPayload' BY <2>1, <2>3, <2>4, <2>6 DEF BurstPayload
  <2>8. beat + 1 \in Nat /\ r.op # "RD" BY <1>1, <2>1
  <2> QED BY <1>1, <2>1, <2>7, <2>8 DEF BurstInv
<1> QED BY <1>2, <1>3 DEF Next

LEMMA BurstWritten == BurstInv => PayloadExact
<1> SUFFICES ASSUME BurstInv, r.op = "WR", build_addr_entry(r) = "NONE"
             PROVE  \A x \in DOMAIN data : data[x] = BurstByte(r, x, beat, strobe)
  BY DEF PayloadExact, BurstByte, Hits
<1> QED BY DEF BurstInv, BurstPayload

LEMMA BurstRead == BurstInv => ReadLanesExact
<1> SUFFICES ASSUME BurstInv, r.op = "RD", build_addr_entry(r) = "NONE",
                    beat > 0
             PROVE  data = {<<a % RBytes, a>> : a \in Touched(r, beat - 1)}
  BY DEF ReadLanesExact
<1> DEFINE i == beat - 1  f == get_burst_window_first_addr(r) \div RowBytes
           Lane(b) == [at |-> <<(b \div RowBytes) - f, b % RowBytes>>,
                       bus |-> b % RBytes]
           Shown == {<<l.bus, RowAddr(r, l.at)>> : l \in Lanes(r, i, RBytes)}
<1>1. r \in Request /\ i \in 0 .. r.beats - 1 BY DEF BurstInv
<1>2. Bus(r) = RBytes /\ Legal(r) BY <1>1, AcceptedLegal DEF Bus
<1>3. data = Shown BY DEF BurstInv, unpack_read_beat
<1>4. /\ Touched(r, i) \subseteq Nat
      /\ \A l : l \in Lanes(r, i, RBytes) <=> \E b \in Touched(r, i) : l = Lane(b)
  BY <1>1, <1>2, BurstLanes
<1>5. \A b \in Nat : RowAddr(r, Lane(b).at) = b /\ Lane(b).bus = b % RBytes
  BY <1>1, PlaceOf
<1> HIDE DEF i, Lane
<1>6. ASSUME NEW b \in Touched(r, i)
      PROVE  <<b % RBytes, b>> \in Shown
  <2>1. Lane(b) \in Lanes(r, i, RBytes) BY <1>4
  <2> QED BY <1>4, <1>5, <2>1
<1>7. ASSUME NEW p \in Shown
      PROVE  \E b \in Touched(r, i) : p = <<b % RBytes, b>>
  <2>1. PICK l \in Lanes(r, i, RBytes) : p = <<l.bus, RowAddr(r, l.at)>>
    BY <1>7
  <2>2. PICK b \in Touched(r, i) : l = Lane(b) BY <1>4, <2>1
  <2> QED BY <1>4, <1>5, <2>1, <2>2
<1> HIDE DEF Shown
<1> QED BY <1>3, <1>6, <1>7 DEF i

(***************************************************************************)
(* Both                                                                    *)
(***************************************************************************)

(* The fields of a request tell which protocol it is of.                   *)
LEMMA Protocols ==
  /\ \A q \in Request : "burst" \in DOMAIN q
  /\ \A q \in ChiRequest : "burst" \notin DOMAIN q
<1>1. ASSUME NEW q \in Request PROVE "burst" \in DOMAIN q
  <2>1. q = [op |-> q.op, addr |-> q.addr, size |-> q.size, beats |-> q.beats,
             burst |-> q.burst, excl |-> q.excl, cacheable |-> q.cacheable]
    BY Axi4BurstAssumption
  <2> QED BY <2>1
<1>2. ASSUME NEW q \in ChiRequest PROVE "burst" \notin DOMAIN q
  <2>1. q = [op |-> q.op, addr |-> q.addr, size |-> q.size] BY ChiTyping
  <2> QED BY <2>1
<1> QED BY <1>1, <1>2

TransferInv == (IsChi => ChiInv) /\ (~IsChi => BurstInv)

LEMMA TransferInvariant == AnySpec => []TransferInv
<1>1. AnyInit => TransferInv
  <2>1. Init => r \in Request BY DEF Init
  <2>2. Chi!Init => r \in ChiRequest BY DEF Chi!Init
  <2> QED BY <2>1, <2>2, BurstInit, ChiInit, Protocols
          DEF AnyInit, TransferInv, IsChi
<1>2. TransferInv /\ [AnyNext]_vars => TransferInv'
  <2> SUFFICES ASSUME TransferInv, [AnyNext]_vars PROVE TransferInv' OBVIOUS
  <2>1. CASE ~IsChi /\ Next
    <3>1. r' = r BY <2>1 DEF Next, ReadBeat, WriteBeat
    <3>2. BurstInv' BY <2>1, BurstStep DEF TransferInv
    <3>3. ~IsChi' BY <2>1, <3>1 DEF IsChi
    <3> QED BY <3>2, <3>3 DEF TransferInv
  <2>2. CASE IsChi /\ Chi!Next
    <3>1. r' = r BY <2>2 DEF Chi!Next, Chi!ReadBeat, Chi!WriteBeat
    <3>2. ChiInv' BY <2>2, ChiStep DEF TransferInv
    <3>3. IsChi' BY <2>2, <3>1 DEF IsChi
    <3> QED BY <3>2, <3>3 DEF TransferInv
  <2>3. CASE UNCHANGED vars
    BY <2>3 DEF vars, TransferInv, IsChi, ChiInv, ChiPayload, BurstInv,
                BurstPayload
  <2> QED BY <2>1, <2>2, <2>3 DEF AnyNext
<1> QED BY <1>1, <1>2, PTL DEF AnySpec

(* The verdict, the rows, the payload and the read lanes of every AXI4     *)
(* burst are those of its bytes: _build_addr_entry, pack_write_beat and    *)
(* unpack_read_beat.                                                       *)
THEOREM BurstsAreExact == AnySpec => []Axi4TransferExact
<1>1. TransferInv => Axi4TransferExact
  <2> SUFFICES ASSUME BurstInv PROVE TransferExact
    BY DEF TransferInv, Axi4TransferExact
  <2>1. r \in Request BY DEF BurstInv
  <2> QED BY <2>1, BurstVerdict, BurstRows, BurstWritten, BurstRead
          DEF TransferExact
<1> QED BY <1>1, TransferInvariant, PTL

(* The same of every CHI transfer: the verdict on an aligned one, and where*)
(* the beats of any write put their bytes and an aligned read takes them.  *)
THEOREM ChiTransfersAreExact == AnySpec => []ChiTransferExact
<1>1. TransferInv => ChiTransferExact
  <2> SUFFICES ASSUME ChiInv PROVE Chi!TransferExact
    BY DEF TransferInv, ChiTransferExact
  <2>1. r \in ChiRequest BY DEF ChiInv
  <2> QED BY <2>1, ChiVerdict, ChiWritten, ChiRead DEF Chi!TransferExact
<1> QED BY <1>1, TransferInvariant, PTL
=============================================================================
