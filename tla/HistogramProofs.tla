-------------------------- MODULE HistogramProofs ---------------------------
(***************************************************************************)
(* What the percentiles of a method mean, for any number of recording      *)
(* threads and any latencies, and that no sample is lost between the       *)
(* histogram's atomics.                                                    *)
(***************************************************************************)
EXTENDS Histogram, FiniteSetTheorems, WellFoundedInduction, TLAPS

-----------------------------------------------------------------------------
(***************************************************************************)
(* From a latency to its bin and back.                                     *)
(***************************************************************************)

LEMMA LeastOf ==
    ASSUME NEW S \in SUBSET Nat, S # {}
    PROVE  Min(S) \in S /\ \A y \in S : Min(S) <= y
<1> DEFINE less == {p \in Nat \X Nat : p[1] < p[2]}
<1>1. IsWellFoundedOn(less, Nat)
  BY NatLessThanWellFounded DEF OpToRel
<1> HIDE DEF less
<1>2. PICK x \in S : \A y \in S : ~(<<y, x>> \in less)
  BY <1>1, WFMin
<1>3. ASSUME NEW y \in S, y < x
      PROVE  FALSE
  <2>1. <<y, x>> \in Nat \X Nat /\ <<y, x>>[1] = y /\ <<y, x>>[2] = x
    OBVIOUS
  <2>2. <<y, x>> \in less
    BY <1>3, <2>1 DEF less
  <2> QED
    BY <1>2, <2>2
<1>4. \E z \in S : \A y \in S : z =< y
  BY <1>3
<1> QED
  BY <1>4, Zenon DEF Min

LEMMA LesserOf ==
    ASSUME NEW x \in Nat, NEW y \in Nat
    PROVE  Min({x, y}) = IF x <= y THEN x ELSE y
<1>1. {x, y} \in SUBSET Nat /\ {x, y} # {}
  OBVIOUS
<1>2. Min({x, y}) \in {x, y} /\ \A z \in {x, y} : Min({x, y}) <= z
  BY <1>1, LeastOf
<1> QED
  BY <1>2

LEMMA GreaterOf ==
    ASSUME NEW x \in Nat, NEW y \in Nat
    PROVE  Max({x, y}) = IF x >= y THEN x ELSE y
<1>1. \E z \in {x, y} : \A u \in {x, y} : z >= u
  OBVIOUS
<1>2. Max({x, y}) \in {x, y} /\ \A z \in {x, y} : Max({x, y}) >= z
  BY <1>1 DEF Max
<1> QED
  BY <1>2

\* The powers of ten as a function, for provers that stumble over ^.
Power == [k \in 0..10 |-> 10^k]

LEMMA Powers ==
    /\ Power[0] = 1
    /\ Power[1] = 10
    /\ Power[2] = 100
    /\ Power[3] = 1000
    /\ Power[4] = 10000
    /\ Power[5] = 100000
    /\ Power[6] = 1000000
    /\ Power[7] = 10000000
    /\ Power[8] = 100000000
    /\ Power[9] = 1000000000
    /\ Power[10] = 10000000000
<1>1. /\ 10^0 = 1
      /\ 10^1 = 10
      /\ 10^2 = 100
      /\ 10^3 = 1000
      /\ 10^4 = 10000
      /\ 10^5 = 100000
      /\ 10^6 = 1000000
      /\ 10^7 = 10000000
      /\ 10^8 = 100000000
      /\ 10^9 = 1000000000
      /\ 10^10 = 10000000000
  BY SMT
<1>2. /\ Power[0] = 10^0
      /\ Power[1] = 10^1
      /\ Power[2] = 10^2
      /\ Power[3] = 10^3
      /\ Power[4] = 10^4
      /\ Power[5] = 10^5
      /\ Power[6] = 10^6
      /\ Power[7] = 10^7
      /\ Power[8] = 10^8
      /\ Power[9] = 10^9
      /\ Power[10] = 10^10
  BY DEF Power
<1> QED
  BY <1>1, <1>2, SMT

LEMMA PowerIs == \A k \in 0..10 : 10^k = Power[k]
BY DEF Power

LEMMA PowersGrow ==
    /\ \A k \in 0..10 : Power[k] \in Nat \ {0}
    /\ \A k \in 0..9 : Power[k + 1] = 10 * Power[k]
    /\ \A j \in 0..10 : \A k \in 0..10 : j <= k => Power[j] <= Power[k]
<1>1. \A k \in 0..10 : \/ k = 0 \/ k = 1 \/ k = 2 \/ k = 3 \/ k = 4 \/ k = 5
                         \/ k = 6 \/ k = 7 \/ k = 8 \/ k = 9 \/ k = 10
  OBVIOUS
<1>2. \A k \in 0..10 : Power[k] \in Nat \ {0}
  BY <1>1, Powers, SMT
<1>3. \A k \in 0..9 : Power[k + 1] = 10 * Power[k]
  BY <1>1, Powers, SMT
<1>4. ASSUME NEW j \in 0..10, NEW k \in 0..10, j <= k
      PROVE  Power[j] <= Power[k]
  BY <1>1, <1>4, Powers, SMT
<1> QED
  BY <1>2, <1>3, <1>4

\* The logarithm, below the range that is cut off.
LEMMA ilog10Is ==
    ASSUME NEW n \in Nat
    PROVE  /\ ilog10(n) \in 0..9
           /\ \A k \in 0..8 : Power[k] <= n /\ n < Power[k + 1] => ilog10(n) = k
           /\ n = 0 => ilog10(n) = 0
<1> DEFINE S == {k \in 0..9 : Power[k] <= n} \cup {0}
           D == {9 - k : k \in S}
<1>1. ilog10(n) = Max(S)
  <2>1. {k \in Decade : 10^k <= n} = {k \in 0..9 : Power[k] <= n}
    <3>1. \A k \in 0..9 : k \in 0..10
      OBVIOUS
    <3>2. \A k \in 0..9 : 10^k = Power[k]
      BY <3>1, PowerIs, Zenon
    <3> QED
      BY <3>2, Zenon DEF Decade
  <2> QED
    BY <2>1, Zenon DEF ilog10
<1>2. S \subseteq 0..9 /\ 0 \in S
  OBVIOUS
<1>3. \A k \in S : k # 0 => Power[k] <= n
  OBVIOUS
<1>4. \A k \in 0..9 : Power[k] <= n => k \in S
  OBVIOUS
<1> HIDE DEF S
<1>5. \E x \in S : \A y \in S : x >= y
  <2>1. D \in SUBSET Nat /\ D # {}
    BY <1>2
  <2>2. Min(D) \in D /\ \A y \in D : Min(D) <= y
    BY <2>1, LeastOf
  <2> QED
    BY <1>2, <2>2
<1>6. Max(S) \in S /\ \A y \in S : Max(S) >= y
  BY <1>5, Zenon DEF Max
<1>7. ASSUME NEW k \in 0..8, Power[k] <= n, n < Power[k + 1]
      PROVE  Max(S) = k
  <2>1. k \in S
    BY <1>4, <1>7
  <2>2. ASSUME NEW y \in S, y > k
        PROVE  FALSE
    <3>1. y \in 0..9 /\ Power[y] <= n
      BY <1>2, <1>3, <2>2
    <3>2. Power[k + 1] <= Power[y]
      BY <2>2, <3>1, PowersGrow
    <3> QED
      BY <1>7, <3>1, <3>2, PowersGrow
  <2>3. Max(S) \in 0..9 /\ Max(S) >= k
    BY <1>2, <1>6, <2>1
  <2>4. ~(Max(S) > k)
    BY <1>6, <2>2
  <2> QED
    BY <2>3, <2>4
<1>8. ASSUME n = 0
      PROVE  Max(S) = 0
  <2>1. \A k \in 0..9 : ~(Power[k] <= n)
    BY <1>8, PowersGrow
  <2> QED
    BY <1>2, <1>3, <1>6, <2>1
<1> QED
  BY <1>1, <1>2, <1>6, <1>7, <1>8

\* A decade of latencies, up to a second.
LEMMA DecadeOf ==
    ASSUME NEW l \in Nat, l # 0, l < Power[6]
    PROVE  \E k \in 0..5 : Power[k] <= l /\ l < 10 * Power[k]
<1>1. CASE l < 10
  BY <1>1, Powers, SMT
<1>2. CASE 10 <= l /\ l < 100
  BY <1>2, Powers, SMT
<1>3. CASE 100 <= l /\ l < 1000
  BY <1>3, Powers, SMT
<1>4. CASE 1000 <= l /\ l < 10000
  BY <1>4, Powers, SMT
<1>5. CASE 10000 <= l /\ l < 100000
  BY <1>5, Powers, SMT
<1>6. CASE 100000 <= l
  BY <1>6, Powers, SMT
<1> QED
  BY <1>1, <1>2, <1>3, <1>4, <1>5, <1>6, SMT

LEMMA ScaleFactorType ==
    ASSUME NEW l \in Nat
    PROVE  ScaleFactor(l) \in Nat
<1>1. ilog10(l) \in 0..9
  BY ilog10Is
<1>2. 10^ilog10(l) \in Nat \ {0}
  <2>1. ilog10(l) \in 0..10
    BY <1>1
  <2>2. 10^ilog10(l) = Power[ilog10(l)]
    BY <2>1, PowerIs, Zenon
  <2>3. Power[ilog10(l)] \in Nat \ {0}
    BY <2>1, PowersGrow, Zenon
  <2> QED
    BY <2>2, <2>3, Zenon
<1>3. l \div 10^ilog10(l) \in Nat
  BY <1>2
<1>4. ilog10(l \div 1000000) \in 0..9
  BY ilog10Is, SMT
<1>5. Min({ilog10(l \div 1000000), 3}) \in Nat
  BY <1>4, LesserOf, SMT
<1> QED
  BY <1>3, <1>5, SMT DEF ScaleFactor

\* Every latency has a bin.
LEMMA BinOf ==
    /\ \A l \in Nat : latency_to_bin(l) \in Bin
    /\ latency_to_bin(0) = 0
<1>1. latency_to_bin(0) = 0
  BY DEF latency_to_bin
<1>2. ASSUME NEW l \in Nat, l # 0
      PROVE  latency_to_bin(l) \in Bin
  <2> DEFINE digit == Min({ScaleFactor(l), 9})
             code == ilog10(l) * 10 + digit
  <2>1. digit \in Nat
    BY ScaleFactorType, LesserOf
  <2>2. ilog10(l) \in Nat
    BY ilog10Is
  <2>3. latency_to_bin(l) = Min({code, 99})
    BY <1>2 DEF latency_to_bin, NUM_HISTOGRAM_BINS
  <2> HIDE DEF digit
  <2>4. code \in Nat
    BY <2>1, <2>2
  <2> HIDE DEF code
  <2>5. Min({code, 99}) = IF code <= 99 THEN code ELSE 99
    BY <2>4, LesserOf
  <2> QED
    BY <2>3, <2>4, <2>5 DEF Bin, NUM_HISTOGRAM_BINS
<1> QED
  BY <1>1, <1>2 DEF Bin, NUM_HISTOGRAM_BINS

\* The lower bound of a bin, from the two digits of its index.
LEMMA BoundOf ==
    ASSUME NEW k \in 0..10, NEW d \in 0..9
    PROVE  bin_to_latency(10 * k + d) = Power[k] * (IF d = 0 THEN 1 ELSE d)
<1> DEFINE b == 10 * k + d
<1>1. b \in Nat /\ b \div 10 = k /\ b % 10 = d /\ (b = 0 <=> k = 0 /\ d = 0)
  OBVIOUS
<1>2. bin_to_latency(b) = IF b = 0 THEN 1 ELSE 10^(b \div 10) * Max({b % 10, 1})
  BY Zenon DEF bin_to_latency
<1> HIDE DEF b
<1>3. 10^k = Power[k] /\ Power[k] \in Nat
  BY PowerIs, PowersGrow, Zenon
<1>4. Max({d, 1}) = IF d = 0 THEN 1 ELSE d
  BY GreaterOf
<1>5. bin_to_latency(b) = IF b = 0 THEN 1 ELSE Power[k] * Max({d, 1})
  BY <1>1, <1>2, <1>3, Zenon
<1>6. k = 0 /\ d = 0 => Power[k] * (IF d = 0 THEN 1 ELSE d) = 1
  BY Powers, SMT
<1>7. bin_to_latency(b) = Power[k] * (IF d = 0 THEN 1 ELSE d)
  BY <1>1, <1>4, <1>5, <1>6
<1> QED
  BY <1>7 DEF b

\* The bounds of a bin are in order.
LEMMA BoundsGrow ==
    ASSUME NEW b \in Bin
    PROVE  /\ bin_to_latency(b) \in Nat
           /\ bin_to_latency(b + 1) \in Nat
           /\ bin_to_latency(b) <= bin_to_latency(b + 1)
<1> DEFINE k == b \div 10
           d == b % 10
<1>1. k \in 0..9 /\ d \in 0..9 /\ b = 10 * k + d
  BY DEF Bin, NUM_HISTOGRAM_BINS
<1> HIDE DEF k, d
<1>2. Power[k] \in Nat /\ Power[k + 1] = 10 * Power[k]
  BY <1>1, PowersGrow
<1>3. bin_to_latency(b) = Power[k] * (IF d = 0 THEN 1 ELSE d)
  BY <1>1, BoundOf
<1>4. CASE d # 9
  <2>1. b + 1 = 10 * k + (d + 1) /\ d + 1 \in 0..9
    BY <1>1, <1>4
  <2>2. bin_to_latency(b + 1) = Power[k] * (d + 1)
    BY <1>1, <2>1, BoundOf
  <2> QED
    BY <1>1, <1>2, <1>3, <2>2
<1>5. CASE d = 9
  <2>1. b + 1 = 10 * (k + 1) + 0 /\ k + 1 \in 0..10
    BY <1>1, <1>5
  <2>2. bin_to_latency(b + 1) = Power[k + 1] * 1
    BY <2>1, BoundOf
  <2> QED
    BY <1>1, <1>2, <1>3, <1>5, <2>2
<1> QED
  BY <1>4, <1>5

LEMMA BoundsInOrder ==
    ASSUME NEW a \in Bin, NEW b \in Bin, a <= b
    PROVE  bin_to_latency(a) <= bin_to_latency(b)
<1> DEFINE j == a \div 10
           c == a % 10
           k == b \div 10
           d == b % 10
           Digit(x) == IF x = 0 THEN 1 ELSE x
<1>1. /\ j \in 0..9 /\ c \in 0..9 /\ a = 10 * j + c
      /\ k \in 0..9 /\ d \in 0..9 /\ b = 10 * k + d
  BY DEF Bin, NUM_HISTOGRAM_BINS
<1> HIDE DEF j, c, k, d
<1>2. /\ bin_to_latency(a) = Power[j] * Digit(c)
      /\ bin_to_latency(b) = Power[k] * Digit(d)
  BY <1>1, BoundOf
<1>3. Power[j] \in Nat /\ Power[k] \in Nat /\ Power[j + 1] = 10 * Power[j]
  BY <1>1, PowersGrow
<1>4. CASE j = k
  <2>1. c <= d
    BY <1>1, <1>4
  <2> QED
    BY <1>1, <1>2, <1>3, <1>4, <2>1
<1>5. CASE j # k
  <2>1. j + 1 <= k /\ j + 1 \in 0..10 /\ k \in 0..10
    BY <1>1, <1>5
  <2>2. 10 * Power[j] <= Power[k]
    BY <1>3, <2>1, PowersGrow
  <2>3. Digit(c) \in 1..9 /\ Digit(d) \in 1..9
    BY <1>1
  <2> HIDE DEF Digit
  <2>4. Power[j] * Digit(c) <= 10 * Power[j] /\ Power[k] <= Power[k] * Digit(d)
    BY <1>3, <2>3
  <2>5. Power[j] * Digit(c) \in Nat /\ Power[k] * Digit(d) \in Nat
    BY <1>3, <2>3
  <2> QED
    BY <1>2, <1>3, <2>2, <2>4, <2>5
<1> QED
  BY <1>4, <1>5

LEMMA BracketUpTo ==
    ASSUME NEW l \in Nat, l # 0, l < Power[6]
    PROVE  /\ latency_to_bin(l) \in Bin
           /\ bin_to_latency(latency_to_bin(l)) <= l
           /\ l < bin_to_latency(latency_to_bin(l) + 1)
<1>1. PICK k \in 0..5 : Power[k] <= l /\ l < 10 * Power[k]
  BY DecadeOf
<1>2. Power[k] \in Nat \ {0} /\ Power[k + 1] = 10 * Power[k]
  BY PowersGrow
<1>3. ilog10(l) = k
  BY <1>1, <1>2, ilog10Is
<1> DEFINE p == Power[k]
           d == l \div p
<1>4. d \in 1..9 /\ p * d <= l /\ l < p * (d + 1)
  BY <1>1, <1>2
<1>5. ScaleFactor(l) = d
  <2>1. k \in 0..10
    OBVIOUS
  <2>2. 10^k = p
    BY <2>1, PowerIs, Zenon
  <2> QED
    BY <1>3, <2>2, Powers, SMT DEF ScaleFactor
<1> HIDE DEF d, p
<1>6. Min({d, 9}) = d
  BY <1>4, LesserOf
<1>7. latency_to_bin(l) = Min({k * 10 + d, 99})
  <2>1. NUM_HISTOGRAM_BINS - 1 = 99
    BY DEF NUM_HISTOGRAM_BINS
  <2> QED
    BY <1>3, <1>5, <1>6, <2>1, Zenon DEF latency_to_bin
<1>8. latency_to_bin(l) = 10 * k + d
  <2> DEFINE code == k * 10 + d
  <2>1. code \in Nat /\ code <= 99 /\ code = 10 * k + d
    BY <1>4
  <2> HIDE DEF code
  <2>2. Min({code, 99}) = code
    BY <2>1, LesserOf
  <2> QED
    BY <1>7, <2>1, <2>2 DEF code
<1>9. bin_to_latency(10 * k + d) = p * d
  BY <1>4, BoundOf DEF p
<1>10. CASE d # 9
  <2>1. d + 1 \in 1..9 /\ 10 * k + d + 1 = 10 * k + (d + 1)
    BY <1>4, <1>10
  <2>2. bin_to_latency(10 * k + (d + 1)) = p * (d + 1)
    BY <2>1, BoundOf DEF p
  <2> QED
    BY <1>4, <1>8, <1>9, <2>1, <2>2 DEF Bin, NUM_HISTOGRAM_BINS
<1>11. CASE d = 9
  <2>1. k + 1 \in 0..10 /\ 10 * k + d + 1 = 10 * (k + 1) + 0
    BY <1>11
  <2>2. bin_to_latency(10 * (k + 1) + 0) = Power[k + 1] * 1
    BY <2>1, BoundOf
  <2> QED
    BY <1>1, <1>2, <1>4, <1>8, <1>9, <1>11, <2>1, <2>2 DEF Bin, NUM_HISTOGRAM_BINS, p
<1> QED
  BY <1>10, <1>11

(***************************************************************************)
(* The bounds of a latency's bin are around it, up to a second.            *)
(***************************************************************************)
THEOREM BinsBracket ==
    ASSUME NEW l \in Nat, l # 0, l < 10^6
    PROVE  /\ latency_to_bin(l) \in Bin
           /\ bin_to_latency(latency_to_bin(l)) <= l
           /\ l < bin_to_latency(latency_to_bin(l) + 1)
<1>1. 6 \in 0..10
  OBVIOUS
<1>2. l < Power[6]
  BY <1>1, PowerIs, Zenon
<1> QED
  BY <1>2, BracketUpTo, Zenon

-----------------------------------------------------------------------------
(***************************************************************************)
(* Counting samples: the sums over the bins, as cardinalities.             *)
(***************************************************************************)

Table == [Bin -> Nat]

LEMMA OneBin ==
    ASSUME NEW t \in Table, NEW b \in Bin
    PROVE  /\ IsFiniteSet({b} \X (1..t[b]))
           /\ Cardinality({b} \X (1..t[b])) = t[b]
<1>1. t[b] \in Nat
  BY DEF Table
<1>2. IsFiniteSet({b}) /\ Cardinality({b}) = 1
  BY FS_Singleton
<1>3. IsFiniteSet(1..t[b]) /\ Cardinality(1..t[b]) = t[b]
  BY <1>1, FS_Interval
<1>4. /\ IsFiniteSet({b} \X (1..t[b]))
      /\ Cardinality({b} \X (1..t[b])) = Cardinality({b}) * Cardinality(1..t[b])
  BY <1>2, <1>3, FS_Product
<1> QED
  BY <1>1, <1>2, <1>3, <1>4

LEMMA SamplesFinite ==
    ASSUME NEW t \in Table, NEW S \in SUBSET Bin
    PROVE  IsFiniteSet(SamplesIn(t, S)) /\ CountIn(t, S) \in Nat
<1> DEFINE cell == [b \in S |-> {b} \X (1..t[b])]
           cells == {{b} \X (1..t[b]) : b \in S}
<1>1. IsFiniteSet(Bin)
  <2>1. Bin = 0..99
    BY DEF Bin, NUM_HISTOGRAM_BINS
  <2>2. 0 \in Int /\ 99 \in Int
    OBVIOUS
  <2>3. IsFiniteSet(0..99)
    BY <2>2, FS_Interval, Zenon
  <2> QED
    BY <2>1, <2>3, Zenon
<1>2. IsFiniteSet(S)
  BY <1>1, FS_Subset
<1>3. cell \in Surjection(S, cells)
  BY DEF Surjection
<1>4. IsFiniteSet(cells)
  BY <1>2, <1>3, FS_Surjection
<1>5. \A c \in cells : IsFiniteSet(c)
  BY OneBin
<1>6. IsFiniteSet(UNION cells)
  BY <1>4, <1>5, FS_UNION
<1>7. IsFiniteSet(SamplesIn(t, S))
  BY <1>6 DEF SamplesIn
<1> QED
  BY <1>7, FS_CardinalityType DEF CountIn

\* A sample of a table: a bin and its number in it.
LEMMA SampleIs ==
    ASSUME NEW t, NEW S, NEW p
    PROVE  p \in SamplesIn(t, S) <=> \E b \in S : \E i \in 1..t[b] : p = <<b, i>>
BY DEF SamplesIn

LEMMA CountAdd ==
    ASSUME NEW t \in Table, NEW S \in SUBSET Bin, NEW b \in Bin \ S
    PROVE  CountIn(t, S \cup {b}) = CountIn(t, S) + t[b]
<1> DEFINE cell == {b} \X (1..t[b])
<1>1. SamplesIn(t, S \cup {b}) = SamplesIn(t, S) \cup cell
  BY DEF SamplesIn
<1>2. SamplesIn(t, S) \cap cell = {}
  BY DEF SamplesIn
<1>3. IsFiniteSet(SamplesIn(t, S)) /\ CountIn(t, S) \in Nat
  BY SamplesFinite
<1>4. IsFiniteSet(cell) /\ Cardinality(cell) = t[b] /\ t[b] \in Nat
  BY OneBin DEF Table
<1>5. Cardinality(SamplesIn(t, S) \cap cell) = 0
  BY <1>2, FS_EmptySet
<1>6. Cardinality(SamplesIn(t, S) \cup cell) =
          Cardinality(SamplesIn(t, S)) + Cardinality(cell)
            - Cardinality(SamplesIn(t, S) \cap cell)
  BY <1>3, <1>4, FS_Union
<1>7. CountIn(t, S \cup {b}) = CountIn(t, S) + Cardinality(cell) - 0
  BY <1>1, <1>5, <1>6, Zenon DEF CountIn
<1> HIDE DEF cell
<1> QED
  BY <1>3, <1>4, <1>7

LEMMA CountGrows ==
    ASSUME NEW t \in Table, NEW u \in Table, \A b \in Bin : t[b] <= u[b],
           NEW S \in SUBSET Bin, NEW T \in SUBSET Bin, S \subseteq T
    PROVE  CountIn(t, S) <= CountIn(u, T)
<1>1. SamplesIn(t, S) \subseteq SamplesIn(u, T)
  <2>1. ASSUME NEW b \in S, NEW i \in 1..t[b]
        PROVE  b \in T /\ i \in 1..u[b]
    BY DEF Table
  <2> QED
    BY <2>1, SampleIs
<1>2. IsFiniteSet(SamplesIn(u, T))
  BY SamplesFinite
<1> QED
  BY <1>1, <1>2, FS_Subset DEF CountIn

\* Bins without a sample do not count.
LEMMA CountUsed ==
    ASSUME NEW t \in Table, NEW S \in SUBSET Bin, NEW T \in SUBSET Bin,
           S \subseteq T, \A b \in T \ S : t[b] = 0
    PROVE  CountIn(t, S) = CountIn(t, T)
<1>1. ASSUME NEW b \in T, NEW i \in 1..t[b]
      PROVE  b \in S
  BY <1>1
<1>2. \A p : p \in SamplesIn(t, S) <=> p \in SamplesIn(t, T)
  BY <1>1, SampleIs
<1>3. SamplesIn(t, S) = SamplesIn(t, T)
  BY <1>2
<1> QED
  BY <1>3 DEF CountIn

\* record adds one sample to one bin.
LEMMA CountOneMore ==
    ASSUME NEW t \in Table, NEW b \in Bin
    PROVE  CountIn([t EXCEPT ![b] = @ + 1], Bin) = CountIn(t, Bin) + 1
<1> DEFINE u == [t EXCEPT ![b] = @ + 1]
           new == <<b, t[b] + 1>>
<1>1. t[b] \in Nat /\ u[b] = t[b] + 1 /\ \A c \in Bin \ {b} : u[c] = t[c]
  BY DEF Table
<1> HIDE DEF u
<1>2. 1..u[b] = (1..t[b]) \cup {t[b] + 1}
  BY <1>1
<1>3. \A p : p \in SamplesIn(u, Bin) <=> p \in SamplesIn(t, Bin) \cup {new}
  BY <1>1, <1>2, SampleIs
<1>4. new \notin SamplesIn(t, Bin)
  BY <1>1, SampleIs
<1>5. SamplesIn(u, Bin) = SamplesIn(t, Bin) \cup {new}
  BY <1>3
<1>6. IsFiniteSet(SamplesIn(t, Bin))
  BY SamplesFinite
<1>7. Cardinality(SamplesIn(u, Bin)) = Cardinality(SamplesIn(t, Bin)) + 1
  BY <1>4, <1>5, <1>6, FS_AddElement
<1> QED
  BY <1>7 DEF CountIn, u

LEMMA CountNone ==
    ASSUME NEW t, NEW S, \A b \in S : t[b] = 0
    PROVE  CountIn(t, S) = 0
<1>1. SamplesIn(t, S) = {}
  BY SampleIs
<1> QED
  BY <1>1, FS_EmptySet DEF CountIn

-----------------------------------------------------------------------------
(***************************************************************************)
(* The histogram.                                                          *)
(***************************************************************************)

Reader == [pc         : {"idle", "average", "count", "scan"},
           total      : Nat,
           which      : 1..3,
           next       : UsedBins,
           cumulative : Nat,
           avg        : Nat,
           estimate   : [bin : 0..NUM_HISTOGRAM_BINS, value : Nat, target : Nat]]

WriterState == [todo : SUBSET {"bin", "latency", "count"}, latency : Latency \cup {0}]

HTyped ==
    /\ bins \in Table
    /\ started \in Table
    /\ total_latency \in Nat
    /\ sample_count \in Nat
    /\ writers \in [Writer -> WriterState]
    /\ reader \in Reader

\* The writers that have an addition to make.
Owing(addition) == {w \in Writer : addition \in writers[w].todo}

\* No sample is lost between the atomics.
Balance == CountIn(bins, Bin) + Cardinality(Owing("bin"))
               = sample_count + Cardinality(Owing("count"))

\* Bins only fill, and only those of the latencies.
BinsFill ==
    /\ \A b \in Bin : started[b] <= bins[b]
    /\ \A b \in Bin \ UsedBins : bins[b] = 0

\* What a scan has added up is between what was in the bins below when it
\* began and what is in them now, and short of the target.
ScanSoFar ==
    LET below == 0..(reader.next - 1)
    IN  reader.pc = "scan" =>
            /\ CountIn(started, below) <= reader.cumulative
            /\ reader.cumulative <= CountIn(bins, below)
            /\ reader.next > 0 => reader.cumulative < target_count

ReaderHasSamples ==
    reader.pc = "average" => reader.total > 0 /\ reader.which = 1

HInv ==
    /\ HTyped
    /\ Balance
    /\ BinsFill
    /\ ScanSoFar
    /\ ReaderHasSamples
    /\ EstimateBracketed

LEMMA Used ==
    /\ UsedBins \subseteq Bin
    /\ 0 \in UsedBins
    /\ \A l \in Latency \cup {0} : latency_to_bin(l) \in UsedBins
<1>1. 0 \in Bin
  BY BinOf, Zenon
<1> QED
  BY <1>1, BinOf, HistogramAssumption, Zenon DEF UsedBins

LEMMA BinsBelow ==
    /\ \A b : b \in Bin <=> b \in 0..99
    /\ \A b \in 0..100 : 0..(b - 1) \in SUBSET Bin
BY DEF Bin, NUM_HISTOGRAM_BINS

LEMMA OwingFinite ==
    ASSUME NEW addition
    PROVE  IsFiniteSet(Owing(addition)) /\ Cardinality(Owing(addition)) \in Nat
<1>1. Owing(addition) \subseteq Writer
  BY DEF Owing
<1> QED
  BY <1>1, HistogramAssumption, FS_Subset, FS_CardinalityType

LEMMA HInitHolds == HInit => HInv
<1> SUFFICES ASSUME HInit PROVE HInv
  OBVIOUS
<1>1. bins \in Table /\ started = bins /\ \A b \in Bin : bins[b] = 0
  BY DEF HInit, Table
<1>2. reader \in Reader
  BY Used, SMT DEF HInit, Reader, NUM_HISTOGRAM_BINS
<1>3. HTyped
  BY <1>1, <1>2 DEF HInit, HTyped, WriterState
<1>4. Balance
  <2>1. Owing("bin") = {} /\ Owing("count") = {}
    BY DEF HInit, Owing
  <2>2. Cardinality({}) = 0
    BY FS_EmptySet
  <2>3. CountIn(bins, Bin) = 0
    BY <1>1, CountNone
  <2> QED
    BY <2>1, <2>2, <2>3 DEF HInit, Balance
<1>5. BinsFill
  BY <1>1 DEF BinsFill
<1>6. reader.pc = "idle" /\ reader.total = 0
  BY DEF HInit
<1> QED
  BY <1>3, <1>4, <1>5, <1>6
  DEF HInv, ScanSoFar, ReaderHasSamples, EstimateBracketed, Ended

-----------------------------------------------------------------------------
(* The writers. *)

\* What a step of a writer leaves to be shown if it fills no bin.
LEMMA BinsAlone ==
    ASSUME HInv, HTyped', Balance', UNCHANGED <<bins, reader, started>>
    PROVE  HInv'
BY DEF HInv, BinsFill, ScanSoFar, ReaderHasSamples, EstimateBracketed, Ended, target_count

LEMMA DoneOwes ==
    ASSUME HTyped, NEW w \in Writer, NEW addition, Done(w, addition)
    PROVE  /\ writers' \in [Writer -> WriterState]
           /\ Cardinality(Owing(addition)') = Cardinality(Owing(addition)) - 1
           /\ \A other : other # addition => Owing(other)' = Owing(other)
           /\ writers[w].latency \in Latency \cup {0}
<1>1. /\ addition \in writers[w].todo
      /\ writers' = [writers EXCEPT ![w].todo = @ \ {addition}]
      /\ writers[w] \in WriterState
  BY DEF Done, HTyped
<1>2. /\ \A x \in Writer : writers'[x].todo =
              IF x = w THEN writers[x].todo \ {addition} ELSE writers[x].todo
      /\ writers' \in [Writer -> WriterState]
  BY <1>1 DEF HTyped, WriterState
<1>3. w \in Owing(addition) /\ Owing(addition)' = Owing(addition) \ {w}
  BY <1>1, <1>2 DEF Owing
<1>4. \A other : other # addition => Owing(other)' = Owing(other)
  BY <1>2 DEF Owing
<1>5. Cardinality(Owing(addition) \ {w}) = Cardinality(Owing(addition)) - 1
  BY <1>3, OwingFinite, FS_RemoveElement
<1> QED
  BY <1>1, <1>2, <1>3, <1>4, <1>5 DEF WriterState

LEMMA StartRecordKeeps ==
    ASSUME HInv, NEW w \in Writer, NEW l \in Latency, StartRecord(w, l)
    PROVE  HInv'
<1>1. HTyped /\ Balance
  BY DEF HInv
<1>2. /\ writers[w].todo = {}
      /\ writers' = [writers EXCEPT ![w] = [todo |-> {"bin", "latency", "count"}, latency |-> l]]
      /\ UNCHANGED <<bins, total_latency, sample_count, reader, started>>
  BY DEF StartRecord, histogram
<1>3. HTyped'
  BY <1>1, <1>2 DEF HTyped, WriterState
<1>4. ASSUME NEW addition \in {"bin", "count"}
      PROVE  Cardinality(Owing(addition)') = Cardinality(Owing(addition)) + 1
  <2>1. w \notin Owing(addition) /\ Owing(addition)' = Owing(addition) \cup {w}
    BY <1>1, <1>2 DEF Owing, HTyped
  <2> QED
    BY <2>1, OwingFinite, FS_AddElement
<1>5. Balance'
  <2>1. CountIn(bins, Bin)' = CountIn(bins, Bin)
    BY <1>2
  <2>2. CountIn(bins, Bin) \in Nat /\ Bin \in SUBSET Bin
    BY <1>1, SamplesFinite DEF HTyped
  <2>3. Cardinality(Owing("bin")) \in Nat /\ Cardinality(Owing("count")) \in Nat
    BY OwingFinite
  <2> QED
    BY <1>1, <1>2, <1>4, <2>1, <2>2, <2>3 DEF Balance, HTyped
<1> QED
  BY <1>2, <1>3, <1>5, BinsAlone

LEMMA AddLatencyKeeps ==
    ASSUME HInv, NEW w \in Writer, AddLatency(w)
    PROVE  HInv'
<1>1. HTyped /\ Balance
  BY DEF HInv
<1>2. /\ Done(w, "latency")
      /\ total_latency' = total_latency + writers[w].latency
      /\ UNCHANGED <<bins, sample_count, reader, started>>
  BY DEF AddLatency, Done
<1>3. /\ writers' \in [Writer -> WriterState]
      /\ Owing("bin")' = Owing("bin")
      /\ Owing("count")' = Owing("count")
      /\ writers[w].latency \in Latency \cup {0}
  BY <1>1, <1>2, DoneOwes
<1>4. HTyped'
  <2>1. writers[w].latency \in Nat
    BY <1>3, 0 \in Nat, HistogramAssumption, Zenon
  <2> QED
    BY <1>1, <1>2, <1>3, <2>1 DEF HTyped
<1>5. Balance'
  BY <1>1, <1>2, <1>3 DEF Balance
<1> QED
  BY <1>2, <1>4, <1>5, BinsAlone

LEMMA AddCountKeeps ==
    ASSUME HInv, NEW w \in Writer, AddCount(w)
    PROVE  HInv'
<1>1. HTyped /\ Balance
  BY DEF HInv
<1>2. /\ Done(w, "count")
      /\ sample_count' = sample_count + 1
      /\ UNCHANGED <<bins, total_latency, reader, started>>
  BY DEF AddCount, Done
<1>3. /\ writers' \in [Writer -> WriterState]
      /\ Owing("bin")' = Owing("bin")
      /\ Cardinality(Owing("count")') = Cardinality(Owing("count")) - 1
  BY <1>1, <1>2, DoneOwes
<1>4. HTyped'
  BY <1>1, <1>2, <1>3 DEF HTyped
<1>5. Balance'
  <2>1. Cardinality(Owing("count")) \in Nat
    BY OwingFinite
  <2>2. CountIn(bins, Bin)' = CountIn(bins, Bin)
    BY <1>2
  <2> QED
    BY <1>1, <1>2, <1>3, <2>1, <2>2 DEF Balance, HTyped
<1> QED
  BY <1>2, <1>4, <1>5, BinsAlone

\* A sample more in a bin: what was counted below a bin only grows.
LEMMA AddToBinKeeps ==
    ASSUME HInv, NEW w \in Writer, AddToBin(w)
    PROVE  HInv'
<1> DEFINE b == latency_to_bin(writers[w].latency)
<1>1. HTyped /\ Balance /\ BinsFill
  BY DEF HInv
<1>2. /\ Done(w, "bin")
      /\ bins' = [bins EXCEPT ![b] = @ + 1]
      /\ UNCHANGED <<total_latency, sample_count, reader, started>>
  BY DEF AddToBin, Done
<1>3. /\ writers' \in [Writer -> WriterState]
      /\ Owing("count")' = Owing("count")
      /\ Cardinality(Owing("bin")') = Cardinality(Owing("bin")) - 1
  BY <1>1, <1>2, DoneOwes
<1>4. b \in UsedBins /\ b \in Bin
  BY <1>1, <1>2, DoneOwes, Used
<1> HIDE DEF b
<1>5. /\ bins \in Table
      /\ bins' \in Table
      /\ \A c \in Bin : bins[c] <= bins'[c]
      /\ \A c \in Bin \ {b} : bins'[c] = bins[c]
  BY <1>1, <1>2, <1>4 DEF HTyped, Table
<1>6. HTyped'
  BY <1>1, <1>2, <1>3, <1>5 DEF HTyped
<1>7. Balance'
  <2>1. CountIn(bins', Bin) = CountIn(bins, Bin) + 1
    BY <1>2, <1>4, <1>5, CountOneMore
  <2>2. Cardinality(Owing("bin")) \in Nat
    BY OwingFinite
  <2>3. CountIn(bins, Bin) \in Nat
    BY <1>5, SamplesFinite
  <2> QED
    BY <1>1, <1>2, <1>3, <2>1, <2>2, <2>3 DEF Balance
<1>8. BinsFill'
  BY <1>1, <1>2, <1>4, <1>5 DEF BinsFill, HTyped, Table
<1>9. \A S \in SUBSET Bin : /\ CountIn(bins, S) <= CountIn(bins', S)
                            /\ CountIn(bins, S) \in Nat
                            /\ CountIn(bins', S) \in Nat
  BY <1>5, CountGrows, SamplesFinite
<1>10. ScanSoFar'
  <2> DEFINE below == 0..(reader.next - 1)
  <2>1. reader.next \in Bin
    BY <1>1, Used DEF HTyped, Reader
  <2>2. below \in SUBSET Bin
    BY <2>1, BinsBelow
  <2>3. reader.cumulative \in Nat
    BY <1>1 DEF HTyped, Reader
  <2>4. ASSUME reader.pc = "scan"
        PROVE  reader.cumulative <= CountIn(bins', below)
    <3>1. reader.cumulative <= CountIn(bins, below)
      BY <2>4 DEF HInv, ScanSoFar
    <3> HIDE DEF below
    <3> QED
      BY <1>9, <2>2, <2>3, <3>1
  <2> QED
    BY <1>2, <2>4 DEF HInv, ScanSoFar, target_count
<1>11. EstimateBracketed'
  <2> DEFINE e == reader.estimate
             upTo == 0..e.bin
  <2>1. e.target \in Nat
    BY <1>1 DEF HTyped, Reader
  <2>2. ASSUME Ended, e.bin \in Bin
        PROVE  CountIn(bins', upTo) >= e.target
    <3>1. CountIn(bins, upTo) >= e.target
      BY <2>2 DEF HInv, EstimateBracketed
    <3>2. upTo \in SUBSET Bin
      BY <2>2 DEF Bin, NUM_HISTOGRAM_BINS
    <3> HIDE DEF upTo, e
    <3> QED
      BY <1>9, <2>1, <3>1, <3>2
  <2> QED
    BY <1>2, <2>2 DEF HInv, EstimateBracketed, Ended
<1>12. ReaderHasSamples'
  BY <1>2 DEF HInv, ReaderHasSamples
<1> QED
  BY <1>6, <1>7, <1>8, <1>10, <1>11, <1>12 DEF HInv

-----------------------------------------------------------------------------
(* The reader. *)

\* What a step of the reader leaves to be shown.
LEMMA ReaderAlone ==
    ASSUME HInv, UNCHANGED <<histogram, writers>>,
           reader' \in Reader, started' \in Table, \A b \in Bin : started'[b] <= bins[b],
           ScanSoFar', ReaderHasSamples', EstimateBracketed'
    PROVE  HInv'
<1>1. HTyped' /\ BinsFill'
  BY DEF HInv, HTyped, BinsFill, histogram
<1>2. Balance'
  BY DEF HInv, Balance, Owing, histogram
<1> QED
  BY <1>1, <1>2 DEF HInv

LEMMA StartReadingKeeps ==
    ASSUME HInv, StartReading
    PROVE  HInv'
<1>1. HTyped /\ BinsFill
  BY DEF HInv
<1>2. /\ reader' = [reader EXCEPT !.pc = "average", !.total = sample_count, !.which = 1]
      /\ sample_count > 0
      /\ UNCHANGED <<histogram, writers, started>>
  BY DEF StartReading
<1>3. /\ reader' \in Reader
      /\ reader'.pc = "average"
      /\ reader'.total = sample_count
      /\ reader'.which = 1
  <2>1. reader \in Reader /\ sample_count \in Nat
    BY <1>1 DEF HTyped
  <2>2. reader' = [reader EXCEPT !.pc = "average", !.total = sample_count, !.which = 1]
    BY <1>2
  <2>3. reader' \in Reader
    <3>1. PICK first \in 1..3 : first = 1
      OBVIOUS
    <3>2. reader' = [reader EXCEPT !.pc = "average", !.total = sample_count, !.which = first]
      BY <2>2, <3>1
    <3> QED
      BY <2>1, <3>2 DEF Reader
  <2>4. /\ reader'.pc = "average"
        /\ reader'.total = sample_count
        /\ reader'.which = 1
    BY <2>1, <2>2 DEF Reader
  <2> QED
    BY <2>3, <2>4
<1> QED
  BY <1>1, <1>2, <1>3, ReaderAlone
  DEF HTyped, BinsFill, ScanSoFar, ReaderHasSamples, EstimateBracketed, Ended

LEMMA AverageKeeps ==
    ASSUME HInv, Average
    PROVE  HInv'
<1>1. HTyped /\ BinsFill /\ reader.total > 0 /\ reader.which = 1
  BY DEF HInv, Average, ReaderHasSamples
<1>2. /\ reader' = [reader EXCEPT !.pc = "count", !.avg = total_latency \div reader.total]
      /\ UNCHANGED <<histogram, writers, started>>
  BY DEF Average
<1>3. total_latency \div reader.total \in Nat
  BY <1>1 DEF HTyped, Reader
<1>4. /\ reader' \in Reader
      /\ reader'.pc = "count"
      /\ reader'.which = 1
  BY <1>1, <1>2, <1>3 DEF HTyped, Reader
<1> QED
  BY <1>1, <1>2, <1>4, ReaderAlone
  DEF HTyped, BinsFill, ScanSoFar, ReaderHasSamples, EstimateBracketed, Ended

LEMMA LoadCountKeeps ==
    ASSUME HInv, LoadCount
    PROVE  HInv'
<1>1. HTyped
  BY DEF HInv
<1>2. /\ reader' = [reader EXCEPT !.pc = "scan", !.total = sample_count,
                                  !.next = 0, !.cumulative = 0]
      /\ started' = bins
      /\ UNCHANGED <<histogram, writers>>
  BY DEF LoadCount
<1>3. /\ reader' \in Reader
      /\ reader'.pc = "scan"
      /\ reader'.next = 0
      /\ reader'.cumulative = 0
  BY <1>1, <1>2, Used DEF HTyped, Reader
<1>4. 0..(0 - 1) = {}
  OBVIOUS
<1>5. CountIn(bins, {}) = 0
  BY CountNone
<1>6. ScanSoFar'
  BY <1>2, <1>3, <1>4, <1>5 DEF ScanSoFar, histogram
<1>7. started' \in Table /\ \A b \in Bin : started'[b] <= bins[b]
  BY <1>1, <1>2 DEF HTyped, Table
<1> QED
  BY <1>2, <1>3, <1>6, <1>7, ReaderAlone DEF ReaderHasSamples, EstimateBracketed, Ended

LEMMA TargetType ==
    ASSUME HTyped
    PROVE  target_count \in Nat
<1>1. Percentile[reader.which] \in Nat /\ reader.total \in Nat
  BY DEF HTyped, Reader, Percentile
<1>2. \A t \in Nat, p \in Nat : (t * p) \div 100 \in Nat
  OBVIOUS
<1> QED
  BY <1>1, <1>2 DEF target_count

\* Interpolation stays in the bin.
LEMMA InBounds ==
    ASSUME NEW b \in Bin, NEW count \in Nat, NEW offset \in Nat, offset <= count
    PROVE  /\ Interpolate(b, count, offset) \in Nat
           /\ Interpolate(b, count, offset) \in bin_to_latency(b)..bin_to_latency(b + 1)
<1> DEFINE low  == bin_to_latency(b)
           high == bin_to_latency(b + 1)
           d    == high - low
<1>1. low \in Nat /\ high \in Nat /\ low <= high
  BY BoundsGrow
<1>2. Interpolate(b, count, offset) =
          IF count = 0 THEN (low + high) \div 2 ELSE low + (offset * (high - low)) \div count
  BY Zenon DEF Interpolate
<1> HIDE DEF low, high
<1>3. d \in Nat /\ low + d = high
  BY <1>1
<1> HIDE DEF d
<1>4. CASE count = 0
  BY <1>1, <1>2, <1>4 DEF low, high
<1>5. CASE count # 0
  <2>1. offset * d \in Nat /\ offset * d <= count * d
    BY <1>3
  <2>2. (offset * d) \div count \in Nat
    BY <1>5, <2>1
  <2>3. (offset * d) \div count <= d
    BY <1>3, <1>5, <2>1
  <2>4. Interpolate(b, count, offset) = low + (offset * d) \div count
    BY <1>2, <1>5, Zenon DEF d
  <2> HIDE DEF d
  <2> QED
    BY <1>1, <1>3, <2>2, <2>3, <2>4 DEF low, high
<1> QED
  BY <1>4, <1>5

\* A scan ends with an estimate: the next percentile, or the end.
LEMMA EstimatedIs ==
    ASSUME HTyped, NEW b \in 0..NUM_HISTOGRAM_BINS, NEW v \in Nat, Estimated(b, v)
    PROVE  /\ reader' \in Reader
           /\ reader'.pc \in {"idle", "count"}
           /\ reader'.estimate = [bin |-> b, value |-> v, target |-> target_count]
<1>1. target_count \in Nat
  BY TargetType
<1>2. reader \in Reader
  BY DEF HTyped
<1>3. PICK p \in {"idle", "count"}, q \in 1..3 :
          reader' = [reader EXCEPT !.pc = p, !.which = q,
                        !.estimate = [bin |-> b, value |-> v, target |-> target_count]]
  <2> DEFINE p == IF reader.which = Len(Percentile) THEN "idle" ELSE "count"
             q == IF reader.which = Len(Percentile) THEN reader.which ELSE reader.which + 1
  <2>1. Len(Percentile) = 3
    BY DEF Percentile
  <2>2. reader.which \in 1..3
    BY <1>2 DEF Reader
  <2>3. p \in {"idle", "count"} /\ q \in 1..3
    BY <2>1, <2>2
  <2>4. reader' = [reader EXCEPT !.pc = p, !.which = q,
                      !.estimate = [bin |-> b, value |-> v, target |-> target_count]]
    BY DEF Estimated
  <2> HIDE DEF p, q
  <2> QED
    BY <2>3, <2>4
<1> QED
  BY <1>1, <1>2, <1>3 DEF Reader

LEMMA ScanKeeps ==
    ASSUME HInv, Scan
    PROVE  HInv'
<1> DEFINE n == reader.next
           sum == reader.cumulative + bins[n]
           below == 0..(n - 1)
           later == {b \in UsedBins : b > n}
<1>1. HTyped /\ BinsFill /\ reader.pc = "scan"
  BY DEF HInv, Scan
<1>2. /\ UNCHANGED <<histogram, writers, started>>
      /\ bins' = bins
  BY DEF Scan, histogram
<1>3. /\ reader \in Reader
      /\ n \in UsedBins
      /\ n \in Bin
      /\ reader.cumulative \in Nat
      /\ bins \in Table
      /\ started \in Table
  BY <1>1, Used DEF HTyped, Reader
<1>4. target_count \in Nat /\ bins[n] \in Nat /\ started[n] \in Nat
  BY <1>1, <1>3, TargetType DEF Table
<1>5. /\ n \in 0..99
      /\ below \in SUBSET Bin
      /\ 0..n \in SUBSET Bin
      /\ 0..n = below \cup {n}
      /\ n \in Bin \ below
  BY <1>3 DEF Bin, NUM_HISTOGRAM_BINS
<1>6. /\ CountIn(started, below) <= reader.cumulative
      /\ reader.cumulative <= CountIn(bins, below)
      /\ n > 0 => reader.cumulative < target_count
  BY <1>1 DEF HInv, ScanSoFar
<1>7. /\ CountIn(bins, 0..n) = CountIn(bins, below) + bins[n]
      /\ CountIn(started, 0..n) = CountIn(started, below) + started[n]
  <2> HIDE DEF n, below
  <2>1. /\ CountIn(bins, below \cup {n}) = CountIn(bins, below) + bins[n]
        /\ CountIn(started, below \cup {n}) = CountIn(started, below) + started[n]
    BY <1>3, <1>5, CountAdd
  <2> QED
    BY <1>5, <2>1, Zenon
<1>8. started[n] <= bins[n]
  BY <1>1, <1>3 DEF BinsFill
<1>9. CountIn(bins, below) \in Nat /\ CountIn(started, below) \in Nat
  BY <1>3, <1>5, SamplesFinite
<1> HIDE DEF below
<1>10. /\ CountIn(started, 0..n) <= sum
       /\ sum <= CountIn(bins, 0..n)
       /\ sum \in Nat
  BY <1>3, <1>4, <1>6, <1>7, <1>8, <1>9
<1>11. \A b \in Bin : started[b] <= bins[b]
  BY <1>1 DEF BinsFill
<1>12. ASSUME reader' \in Reader, ScanSoFar', EstimateBracketed', reader'.pc # "average"
       PROVE  HInv'
  BY <1>2, <1>3, <1>11, <1>12, ReaderAlone DEF ReaderHasSamples
\* The bin in which the target is reached.
<1>13. CASE /\ sum >= target_count
            /\ Estimated(n, Interpolate(n, bins[n], target_count - reader.cumulative))
  <2> DEFINE v == Interpolate(n, bins[n], target_count - reader.cumulative)
  <2>1. reader.cumulative <= target_count
    <3>1. n = 0 => below = {}
      BY DEF below
    <3>2. CountIn(bins, {}) = 0
      BY CountNone
    <3> QED
      BY <1>3, <1>4, <1>5, <1>6, <3>1, <3>2
  <2>2. /\ target_count - reader.cumulative \in Nat
        /\ target_count - reader.cumulative <= bins[n]
    BY <1>3, <1>4, <1>13, <2>1
  <2>3. v \in Nat /\ v \in bin_to_latency(n)..bin_to_latency(n + 1)
    BY <1>3, <1>4, <2>2, InBounds
  <2> HIDE DEF v
  <2>4. n \in 0..NUM_HISTOGRAM_BINS
    BY <1>5 DEF NUM_HISTOGRAM_BINS
  <2>5. /\ reader' \in Reader
        /\ reader'.pc \in {"idle", "count"}
        /\ reader'.estimate = [bin |-> n, value |-> v, target |-> target_count]
    BY <1>1, <1>13, <2>3, <2>4, EstimatedIs DEF v
  <2>6. CountIn(bins, 0..n) >= target_count
    BY <1>3, <1>4, <1>5, <1>10, <1>13, SamplesFinite
  <2>7. n > 0 => CountIn(started, below) < target_count
    BY <1>3, <1>4, <1>6, <1>9
  <2>8. EstimateBracketed'
    BY <1>2, <2>3, <2>5, <2>6, <2>7 DEF EstimateBracketed, below
  <2>9. ScanSoFar'
    BY <2>5 DEF ScanSoFar
  <2> QED
    BY <1>12, <2>5, <2>8, <2>9
\* The scan falls past the last bin.
<1>14. CASE sum < target_count /\ later = {} /\ Estimated(NUM_HISTOGRAM_BINS, PastTheEnd)
  <2>1. NUM_HISTOGRAM_BINS \in 0..NUM_HISTOGRAM_BINS /\ NUM_HISTOGRAM_BINS = 100
    BY DEF NUM_HISTOGRAM_BINS
  <2>2. PastTheEnd \in Nat
    BY SMT DEF PastTheEnd
  <2>3. /\ reader' \in Reader
        /\ reader'.pc \in {"idle", "count"}
        /\ reader'.estimate = [bin |-> 100, value |-> PastTheEnd, target |-> target_count]
    BY <1>1, <1>14, <2>1, <2>2, EstimatedIs
  <2>4. 0..(100 - 1) = Bin
    BY DEF Bin, NUM_HISTOGRAM_BINS
  <2>5. \A b \in Bin \ (0..n) : started[b] = 0
    <3>1. ASSUME NEW b \in Bin \ (0..n)
          PROVE  b \notin UsedBins
      BY <1>5, <1>14 DEF Bin, NUM_HISTOGRAM_BINS
    <3> QED
      BY <1>1, <1>3, <3>1 DEF BinsFill, Table
  <2>6. CountIn(started, 0..n) = CountIn(started, Bin)
    BY <1>3, <1>5, <2>5, CountUsed
  <2>7. CountIn(started, Bin) < target_count
    BY <1>3, <1>4, <1>5, <1>10, <1>14, <2>6, SamplesFinite
  <2>8. EstimateBracketed'
    BY <1>2, <2>3, <2>4, <2>7 DEF EstimateBracketed, Bin, NUM_HISTOGRAM_BINS
  <2>9. ScanSoFar'
    BY <2>3 DEF ScanSoFar
  <2> QED
    BY <1>12, <2>3, <2>8, <2>9
\* On to the next bin that may hold a sample.
<1>15. CASE /\ sum < target_count
            /\ later # {}
            /\ reader' = [reader EXCEPT !.cumulative = sum, !.next = Min(later)]
  <2> DEFINE m == Min(later)
  <2>1. later \in SUBSET Nat
    <3>1. \A b \in Bin : b \in Nat
      BY DEF Bin, NUM_HISTOGRAM_BINS
    <3> QED
      BY <3>1, Used, Zenon
  <2>2. m \in later /\ \A b \in later : m <= b
    BY <1>15, <2>1, LeastOf
  <2>3. m \in UsedBins /\ m \in Bin /\ m > n
    BY <2>2, Used
  <2> HIDE DEF m
  <2>4. /\ reader' \in Reader
        /\ reader'.pc = "scan"
        /\ reader'.next = m
        /\ reader'.cumulative = sum
        /\ reader'.total = reader.total
        /\ reader'.which = reader.which
    BY <1>1, <1>3, <1>10, <1>15, <2>3 DEF Reader, m
  <2>5. target_count' = target_count
    BY <2>4 DEF target_count
  <2>6. 0..(m - 1) \in SUBSET Bin /\ 0..n \subseteq 0..(m - 1)
    BY <1>5, <2>3 DEF Bin, NUM_HISTOGRAM_BINS
  <2>7. \A b \in (0..(m - 1)) \ (0..n) : bins[b] = 0 /\ started[b] = 0
    <3>1. ASSUME NEW b \in (0..(m - 1)) \ (0..n)
          PROVE  b \in Bin \ UsedBins
      BY <1>5, <2>2, <2>3, <2>6 DEF Bin, NUM_HISTOGRAM_BINS
    <3> QED
      BY <1>1, <1>3, <3>1 DEF BinsFill, Table
  <2>8. /\ CountIn(bins, 0..n) = CountIn(bins, 0..(m - 1))
        /\ CountIn(started, 0..n) = CountIn(started, 0..(m - 1))
    <3> DEFINE S == 0..n
               T == 0..(m - 1)
    <3>1. /\ S \in SUBSET Bin /\ T \in SUBSET Bin /\ S \subseteq T
          /\ \A b \in T \ S : bins[b] = 0
          /\ \A b \in T \ S : started[b] = 0
      BY <1>5, <2>6, <2>7, Zenon
    <3> HIDE DEF S, T
    <3>2. CountIn(bins, S) = CountIn(bins, T) /\ CountIn(started, S) = CountIn(started, T)
      BY <1>3, <3>1, CountUsed
    <3> QED
      BY <3>2 DEF S, T
  <2>9. ScanSoFar'
    BY <1>2, <1>10, <1>15, <2>4, <2>5, <2>8 DEF ScanSoFar
  <2>10. EstimateBracketed'
    BY <2>4 DEF EstimateBracketed, Ended
  <2> QED
    BY <1>12, <2>4, <2>9, <2>10
<1> QED
  BY <1>1, <1>13, <1>14, <1>15 DEF Scan, PassBin

-----------------------------------------------------------------------------
LEMMA HNextKeeps == HInv /\ [HNext]_hVars => HInv'
<1> SUFFICES ASSUME HInv, [HNext]_hVars PROVE HInv'
  OBVIOUS
<1>1. CASE UNCHANGED hVars
  <2>1. UNCHANGED <<bins, total_latency, sample_count, writers, reader, started>>
    BY <1>1 DEF hVars, histogram
  <2>2. HTyped' /\ Balance'
    BY <2>1 DEF HInv, HTyped, Balance, Owing
  <2> QED
    BY <2>1, <2>2, BinsAlone
<1> QED
  BY <1>1, StartRecordKeeps, AddToBinKeeps, AddLatencyKeeps, AddCountKeeps,
     StartReadingKeeps, AverageKeeps, LoadCountKeeps, ScanKeeps DEF HNext

LEMMA HAlways == HSpec => []HInv
  BY HInitHolds, HNextKeeps, PTL DEF HSpec

(***************************************************************************)
(* Types, and the meaning of the bins and of sample_count: every sample is *)
(* in its bin and in the count, or on its way there; of total_latency, the *)
(* type only.  For any number of threads and any latencies.                *)
(***************************************************************************)
THEOREM HistogramTyped == HSpec => []HTypeOK
<1>1. HInv => HTypeOK
  <2> SUFFICES ASSUME HInv PROVE HTypeOK
    OBVIOUS
  <2>1. HTyped /\ Balance
    BY DEF HInv
  <2>2. DOMAIN Percentile = 1..3
    BY DEF Percentile
  <2>3. /\ bins \in [Bin -> Nat]
        /\ writers \in [Writer -> [todo : SUBSET {"bin", "latency", "count"},
                                   latency : Latency \cup {0}]]
        /\ reader.pc \in {"idle", "average", "count", "scan"}
        /\ reader.next \in UsedBins
        /\ reader.which \in DOMAIN Percentile
        /\ reader.estimate.bin \in 0..NUM_HISTOGRAM_BINS
    BY <2>1, <2>2 DEF HTyped, Table, WriterState, Reader
  <2>4. CountIn(bins, Bin) + Cardinality({w \in Writer : "bin" \in writers[w].todo}) = Samples
    BY <2>1 DEF Balance, Owing, Samples
  <2> QED
    BY <2>1, <2>3, <2>4 DEF HTypeOK, HTyped
<1> QED
  BY <1>1, HAlways, PTL

(***************************************************************************)
(* What an estimate means, whatever is recorded during the scan.           *)
(***************************************************************************)
THEOREM EstimateAlwaysBracketed == HSpec => []EstimateBracketed
<1>1. HInv => EstimateBracketed
  BY DEF HInv
<1> QED
  BY <1>1, HAlways, PTL

(***************************************************************************)
(* The estimate that estimate_percentile's doc promises not to be 0, for a *)
(* rank of at least 1: then somebody's sample is in its bin or below.      *)
(***************************************************************************)
THEOREM RankedEstimates == HSpec => []RankedEstimateNotBelowSamples
<1>1. HInv => RankedEstimateNotBelowSamples
  <2> DEFINE e == reader.estimate
             full == {b \in Bin : bins[b] > 0}
  <2> SUFFICES ASSUME HInv, Ended, e.target > 0, e.bin \in Bin
               PROVE  e.value >= bin_to_latency(Min(full))
    BY DEF RankedEstimateNotBelowSamples
  <2>1. /\ CountIn(bins, 0..e.bin) >= e.target
        /\ e.value \in bin_to_latency(e.bin)..bin_to_latency(e.bin + 1)
    BY DEF HInv, EstimateBracketed
  <2>2. /\ bins \in Table
        /\ e.target \in Nat
        /\ e.value \in Nat
    BY DEF HInv, HTyped, Reader
  <2>3. \A b \in 0..e.bin : b \in Bin /\ b <= e.bin
    BY DEF Bin, NUM_HISTOGRAM_BINS
  <2> HIDE DEF e
  <2>4. PICK b \in 0..e.bin : bins[b] > 0
    <3>1. CASE \A b \in 0..e.bin : bins[b] = 0
      <4>1. CountIn(bins, 0..e.bin) = 0
        BY <3>1, CountNone, Zenon
      <4> QED
        BY <2>1, <2>2, <4>1
    <3> QED
      BY <2>2, <2>3, <3>1 DEF Table
  <2>5. full \in SUBSET Nat /\ full # {}
    BY <2>3, <2>4 DEF Bin, NUM_HISTOGRAM_BINS
  <2>6. Min(full) \in Bin /\ Min(full) <= b
    BY <2>3, <2>4, <2>5, LeastOf
  <2>7. Min(full) <= e.bin
    BY <2>3, <2>6 DEF Bin, NUM_HISTOGRAM_BINS
  <2>8. bin_to_latency(Min(full)) <= bin_to_latency(e.bin)
    BY <2>6, <2>7, BoundsInOrder
  <2>9. bin_to_latency(Min(full)) \in Nat /\ bin_to_latency(e.bin) \in Nat
    BY <2>6, BoundsGrow
  <2>10. e.value >= bin_to_latency(e.bin)
    BY <2>1, <2>2, <2>9, BoundsGrow
  <2> HIDE DEF full
  <2> QED
    BY <2>2, <2>8, <2>9, <2>10
<1> QED
  BY <1>1, HAlways, PTL

=============================================================================
