---------------------------- MODULE EvaluationProofs ----------------------------
(***************************************************************************)
(* Proofs about the evaluation: the rank that percentile computes, for     *)
(* every number of samples and every whole percentage; what the latency    *)
(* gate says, for every replay; what the gates of a pack let through, for  *)
(* every golden set and all replies; and the verdicts on a judge.          *)
(* The products of two variables are named, so that what is left is        *)
(* linear.                                                                 *)
(***************************************************************************)
EXTENDS Evaluation, DataLemmas, TLAPS

(* Python's round, of a fraction: within a half of it. *)
LEMMA RoundingError ==
  ASSUME NEW num \in Nat, NEW den \in Nat \ {0}
  PROVE  /\ RoundHalfEven(num, den) \in Nat
         /\ 2 * (den * RoundHalfEven(num, den)) <= 2 * num + den
         /\ 2 * num <= 2 * (den * RoundHalfEven(num, den)) + den
<1> DEFINE q == num \div den
           r == num % den
<1>1. /\ q \in Nat /\ r \in Nat
      /\ num = den * q + r /\ r < den
  OBVIOUS
<1>2. den * (q + 1) = den * q + den
  BY <1>1
<1>3. RoundHalfEven(num, den) \in {q, q + 1}
  BY DEF RoundHalfEven
<1>4. CASE RoundHalfEven(num, den) = q
  <2>1. 2 * r <= den
    BY <1>1, <1>4 DEF RoundHalfEven
  <2> DEFINE x == den * q
  <2>2. x \in Nat
    BY <1>1
  <2> HIDE DEF x
  <2>3. 2 * x <= 2 * num + den /\ 2 * num <= 2 * x + den
    BY <1>1, <2>1, <2>2 DEF x
  <2> QED
    BY <1>1, <1>4, <2>3 DEF x
<1>5. CASE RoundHalfEven(num, den) = q + 1
  <2>1. 2 * r >= den
    BY <1>1, <1>5 DEF RoundHalfEven
  <2> DEFINE x == den * q
  <2>2. x \in Nat
    BY <1>1
  <2> HIDE DEF x
  <2>3. 2 * (x + den) <= 2 * num + den /\ 2 * num <= 2 * (x + den) + den
    BY <1>1, <2>1, <2>2 DEF x
  <2> QED
    BY <1>1, <1>2, <1>5, <2>3 DEF x
<1> QED
  BY <1>3, <1>4, <1>5

(* The half that is added makes the rounding one upwards: the rank is that *)
(* of the docstring of percentile, or one more where the sum is halfway.   *)
THEOREM RankIsNearestOrNext ==
  ASSUME NEW n \in Nat \ {0}, NEW p \in 1..100
  PROVE  /\ Rank(n, p) \in 1..n
         /\ NearestRank(n, p) <= Rank(n, p)
         /\ Rank(n, p) <= NearestRank(n, p) + 1
<1> DEFINE x == p * n
           r == RoundHalfEven(2 * p * n + 100, 200)
           k == NearestRank(n, p)
<1>1. x \in Nat /\ 1 <= x /\ x <= 100 * n
  OBVIOUS
<1>2. 2 * p * n = 2 * x
  OBVIOUS
<1>3. /\ r \in Nat
      /\ 400 * r <= 2 * (2 * x + 100) + 200
      /\ 2 * (2 * x + 100) <= 400 * r + 200
  <2>1. 2 * p * n + 100 \in Nat
    BY <1>1, <1>2
  <2> QED
    BY <1>2, <2>1, RoundingError
<1>4. k \in Nat /\ 100 * k <= x + 99 /\ x <= 100 * k
  BY <1>1 DEF NearestRank
<1>5. Rank(n, p) = IF r < 1 THEN 1 ELSE IF r > n THEN n ELSE r
  BY DEF Rank
<1> HIDE DEF x, r, k
<1> QED
  BY <1>1, <1>3, <1>4, <1>5 DEF k

-----------------------------------------------------------------------------
(* Samples in order. *)

LEMMA Counted ==
  ASSUME NEW n \in Nat, NEW T \in SUBSET (1..n)
  PROVE  IsFiniteSet(T) /\ Cardinality(T) \in Nat /\ Cardinality(T) <= n
<1>1. IsFiniteSet(1..n) /\ Cardinality(1..n) = n
  BY FS_Interval
<1>2. IsFiniteSet(T) /\ Cardinality(T) <= Cardinality(1..n)
  BY <1>1, FS_Subset
<1>3. Cardinality(T) \in Nat
  BY <1>2, FS_CardinalityType
<1>4. QED
  BY <1>1, <1>2, <1>3

LEMMA IntervalCount ==
  ASSUME NEW n \in Nat
  PROVE  Cardinality(1..n) = n
BY FS_Interval

LEMMA CountedIn ==
  ASSUME NEW n \in Nat, NEW T \in SUBSET (1..n), NEW R \in SUBSET T
  PROVE  Cardinality(R) <= Cardinality(T)
BY Counted, FS_Subset

(* No sample is beyond every number. *)
LEMMA SamplesAreBounded ==
  ASSUME NEW s \in Seq(Nat)
  PROVE  \E b \in Nat : \A i \in DOMAIN s : s[i] <= b
<1> DEFINE T == {k \in 0..Len(s) : ~ \E b \in Nat : \A i \in 1..k : s[i] <= b}
<1>1. Len(s) \in Nat /\ DOMAIN s = 1..Len(s) /\ \A i \in 1..Len(s) : s[i] \in Nat
  OBVIOUS
<1>2. T = {}
  <2> SUFFICES ASSUME T # {} PROVE FALSE
    OBVIOUS
  <2>1. PICK k \in T : \A j \in T : k <= j
    <3>1. T \in SUBSET Nat
      BY <1>1
    <3> HIDE DEF T
    <3>2. QED
      BY <3>1, LeastNumber
  <2>2. k # 0
    <3>1. \A i \in 1..0 : s[i] <= 0
      OBVIOUS
    <3>2. QED
      BY <3>1
  <2>3. k - 1 \in 0..Len(s) /\ k \in 1..Len(s)
    BY <1>1, <2>2
  <2>4. PICK b \in Nat : \A i \in 1..(k - 1) : s[i] <= b
    <3>1. k - 1 \notin T
      <4>1. k \in Nat
        BY <2>3
      <4> HIDE DEF T
      <4>2. QED
        BY <2>1, <4>1
    <3>2. QED
      BY <2>3, <3>1
  <2> HIDE DEF T
  <2> DEFINE c == IF s[k] <= b THEN b ELSE s[k]
  <2>5. c \in Nat /\ \A i \in 1..k : s[i] <= c
    <3>1. s[k] \in Nat /\ \A i \in 1..(k - 1) : s[i] \in Nat
      BY <1>1, <2>3
    <3>2. \A i \in 1..k : i = k \/ i \in 1..(k - 1)
      BY <1>1, <2>3
    <3>3. c \in Nat /\ b <= c /\ s[k] <= c
      <4>1. b \in Nat /\ s[k] \in Nat
        BY <2>4, <3>1
      <4>2. QED
        BY <4>1
    <3> HIDE DEF c
    <3>4. \A i \in 1..(k - 1) : s[i] <= c
      BY <2>4, <3>1, <3>3
    <3>5. QED
      BY <3>2, <3>3, <3>4
  <2>6. k \notin T
    BY <2>5 DEF T
  <2>7. QED
    BY <2>6
<1>3. Len(s) \notin T
  BY <1>2
<1>4. QED
  BY <1>1, <1>3

(* What a count of the samples up to a value is. *)
LEMMA Counts ==
  ASSUME NEW s \in Seq(Nat), NEW v \in Nat, NEW w \in Nat
  PROVE  /\ AtMost(s, v) \in Nat /\ Below(s, v) \in Nat /\ AtMost(s, v) <= Len(s)
         /\ w < v => AtMost(s, w) <= Below(s, v)
         /\ w <= v => AtMost(s, w) <= AtMost(s, v)
<1> DEFINE B(x) == {i \in DOMAIN s : s[i] < x}
           A(x) == {i \in DOMAIN s : s[i] <= x}
<1>1. Len(s) \in Nat /\ DOMAIN s = 1..Len(s) /\ \A i \in 1..Len(s) : s[i] \in Nat
  OBVIOUS
<1>2. A(v) \in SUBSET (1..Len(s)) /\ B(v) \in SUBSET (1..Len(s))
  BY <1>1
<1>3. w < v => A(w) \in SUBSET B(v)
  BY <1>1
<1>4. w <= v => A(w) \in SUBSET A(v)
  BY <1>1
<1>5. AtMost(s, v) = Cardinality(A(v)) /\ AtMost(s, w) = Cardinality(A(w))
      /\ Below(s, v) = Cardinality(B(v))
  BY DEF AtMost, Below
<1> HIDE DEF A, B
<1>6. QED
  BY <1>1, <1>2, <1>3, <1>4, <1>5, Counted, CountedIn

(* There is a sample at every rank: the least value that so many samples   *)
(* do not exceed. *)
LEMMA RankHasSample ==
  ASSUME NEW s \in Seq(Nat), NEW r \in 1..Len(s)
  PROVE  \E v \in ToSet(s) : Below(s, v) < r /\ r <= AtMost(s, v)
<1>1. Len(s) \in Nat /\ DOMAIN s = 1..Len(s) /\ \A i \in 1..Len(s) : s[i] \in Nat
  OBVIOUS
<1> DEFINE T == {v \in Nat : r <= AtMost(s, v)}
<1>2. T \in SUBSET Nat /\ T # {}
  <2>1. PICK b \in Nat : \A i \in DOMAIN s : s[i] <= b
    BY SamplesAreBounded
  <2>2. {i \in DOMAIN s : s[i] <= b} = 1..Len(s)
    BY <1>1, <2>1
  <2>3. AtMost(s, b) = Len(s)
    <3>1. Cardinality(1..Len(s)) = Len(s)
      BY <1>1, IntervalCount
    <3>2. QED
      BY <2>2, <3>1 DEF AtMost
  <2>4. b \in T
    BY <2>3
  <2>5. QED
    BY <2>4
<1> HIDE DEF T
<1>3. PICK v \in T : \A w \in T : v <= w
  BY <1>2, LeastNumber
<1>4. v \in Nat /\ r <= AtMost(s, v)
  BY DEF T
<1>5. Below(s, v) < r
  <2> SUFFICES ASSUME Below(s, v) >= r PROVE FALSE
    BY <1>1, <1>4, Counts
  <2> DEFINE L == {i \in DOMAIN s : s[i] < v}
             V == {s[i] : i \in L}
  <2>1. L # {}
    <3>1. L = {} => Below(s, v) = 0
      BY FS_EmptySet DEF Below
    <3>2. QED
      BY <3>1
  <2>2. V \in SUBSET (0..v) /\ V # {}
    <3>1. \A i \in L : s[i] \in 0..v
      BY <1>1, <1>4
    <3>2. QED
      BY <2>1, <3>1
  <2> DEFINE w == Max(V)
  <2>3. w \in V /\ \A x \in V : x <= w
    <3> HIDE DEF V
    <3>1. QED
      BY <1>4, <2>2, MaxIsGreatest
  <2>4. w \in Nat /\ w < v
    BY <1>1, <1>4, <2>3
  <2> HIDE DEF w
  <2>5. {i \in DOMAIN s : s[i] <= w} = L
    <3>1. \A i \in L : s[i] <= w
      BY <2>3
    <3>2. \A i \in DOMAIN s : s[i] <= w => s[i] < v
      BY <1>1, <1>4, <2>4
    <3>3. QED
      BY <3>1, <3>2
  <2>6. AtMost(s, w) = Below(s, v)
    BY <2>5 DEF AtMost, Below
  <2>7. w \in T
    BY <2>4, <2>6 DEF T
  <2>8. QED
    BY <1>3, <1>4, <2>4, <2>7
<1>6. v \in ToSet(s)
  <2> SUFFICES ASSUME v \notin ToSet(s) PROVE FALSE
    OBVIOUS
  <2>1. {i \in DOMAIN s : s[i] <= v} = {i \in DOMAIN s : s[i] < v}
    <3>1. \A i \in DOMAIN s : s[i] # v
      BY DEF ToSet
    <3>2. QED
      BY <1>1, <1>4, <3>1
  <2>2. AtMost(s, v) = Below(s, v)
    BY <2>1 DEF AtMost, Below
  <2>3. QED
    BY <1>4, <1>5, <2>2, Counts
<1>7. QED
  BY <1>4, <1>5, <1>6

LEMMA AtRankIs ==
  ASSUME NEW s \in Seq(Nat), NEW r \in 1..Len(s)
  PROVE  /\ AtRank(s, r) \in ToSet(s) /\ AtRank(s, r) \in Nat
         /\ Below(s, AtRank(s, r)) < r /\ r <= AtMost(s, AtRank(s, r))
<1>1. \E v \in ToSet(s) : Below(s, v) < r /\ r <= AtMost(s, v)
  BY RankHasSample
<1>2. /\ AtRank(s, r) \in ToSet(s)
      /\ Below(s, AtRank(s, r)) < r /\ r <= AtMost(s, AtRank(s, r))
  BY <1>1 DEF AtRank
<1>3. ToSet(s) \in SUBSET Nat
  BY DEF ToSet
<1>4. QED
  BY <1>2, <1>3

(* A greater rank has no smaller sample. *)
LEMMA RanksAreOrdered ==
  ASSUME NEW s \in Seq(Nat), NEW q \in 1..Len(s), NEW r \in 1..Len(s), q <= r
  PROVE  AtRank(s, q) <= AtRank(s, r)
<1> DEFINE v == AtRank(s, q)
           w == AtRank(s, r)
<1>1. v \in Nat /\ w \in Nat /\ Below(s, v) < q /\ r <= AtMost(s, w)
  BY AtRankIs
<1> HIDE DEF v, w
<1>2. /\ Below(s, v) \in Nat /\ AtMost(s, w) \in Nat
      /\ w < v => AtMost(s, w) <= Below(s, v)
  BY <1>1, Counts
<1>3. v <= w
  BY <1>1, <1>2
<1>4. QED
  BY <1>3 DEF v, w

LEMMA MaxOfSamples ==
  ASSUME NEW s \in Seq(Nat), s # <<>>
  PROVE  Max(ToSet(s)) \in Nat /\ \A v \in ToSet(s) : v <= Max(ToSet(s))
<1> DEFINE T == ToSet(s)
<1>1. PICK b \in Nat : \A i \in DOMAIN s : s[i] <= b
  BY SamplesAreBounded
<1>2. T \in SUBSET (0..b) /\ T # {}
  <2>1. \A i \in DOMAIN s : s[i] \in 0..b
    BY <1>1
  <2>2. 1 \in DOMAIN s
    OBVIOUS
  <2>3. QED
    BY <2>1, <2>2 DEF ToSet
<1> HIDE DEF T
<1>3. Max(T) \in T /\ \A v \in T : v <= Max(T)
  BY <1>2, MaxIsGreatest
<1>4. Max(T) \in Nat
  <2>1. \A m \in T : m \in Nat
    BY <1>2
  <2>2. QED
    BY <1>3, <2>1
<1>5. QED
  BY <1>3, <1>4 DEF T

-----------------------------------------------------------------------------
(* The latency gate. *)

(* What the replay measured, and the report that was made of it. *)
GateInv ==
  /\ phase \in {"replayed", "reported"} => ttfas \in Seq(Nat)
  /\ phase = "reported" =>
       LET stats == Stats(Samples(ttfas))
       IN  latency = [n |-> stats.n, p50 |-> stats.p50, p95 |-> stats.p95, max |-> stats.max,
                      passed |-> stats.n # 0 /\ stats.p95 <= 100 * MaxTtfa]

LEMMA SamplesTyped ==
  ASSUME NEW t \in Seq(Nat)
  PROVE  Samples(t) \in Seq(Nat)
<1> DEFINE s == [i \in DOMAIN t |-> IF t[i] # 0 THEN <<t[i]>> ELSE <<>>]
<1>1. \A i \in DOMAIN t : t[i] \in Nat
  OBVIOUS
<1>2. \A i \in DOMAIN t : s[i] \in Seq(Nat)
  BY <1>1
<1>3. s \in Seq(Seq(Nat))
  <2>1. DOMAIN t = 1..Len(t) /\ Len(t) \in Nat
    OBVIOUS
  <2> DEFINE Item(i) == IF t[i] # 0 THEN <<t[i]>> ELSE <<>>
  <2>2. \A i \in 1..Len(t) : Item(i) \in Seq(Nat)
    BY <1>2, <2>1
  <2> HIDE DEF Item
  <2>3. [i \in 1..Len(t) |-> Item(i)] \in Seq(Seq(Nat))
    BY <2>1, <2>2
  <2>4. QED
    BY <2>1, <2>3 DEF Item
<1>4. FlattenSeq(s) \in Seq(Nat)
  BY <1>3, FlattenType
<1>5. QED
  BY <1>4 DEF Samples, Where

LEMMA GateInit == Init => GateInv
BY DEF Init, GateInv

LEMMA GateNext == GateInv /\ [Next]_vars => GateInv'
<1> SUFFICES ASSUME GateInv, [Next]_vars PROVE GateInv'
  OBVIOUS
<1>1. CASE LoadGoldenSet
  BY <1>1 DEF LoadGoldenSet, GateInv
<1>2. CASE Generate
  BY <1>2 DEF Generate, GateInv
<1>3. CASE EvalPack
  BY <1>3 DEF EvalPack, GateInv
<1>4. CASE ReplayTurns
  BY <1>4, EvaluationAssumption DEF ReplayTurns, GateInv, EvaluationAssumption
<1>5. CASE Report
  BY <1>5 DEF Report, GateInv
<1>6. CASE Judge
  BY <1>6 DEF Judge, GateInv
<1>7. CASE UNCHANGED vars
  BY <1>7 DEF vars, GateInv
<1>8. QED
  BY <1>1, <1>2, <1>3, <1>4, <1>5, <1>6, <1>7 DEF Next

(* What rounding to hundredths does: it keeps the order, and the limit it  *)
(* is compared with is half a hundredth beyond the one that is meant.      *)
LEMMA HundredthsKeepOrder ==
  ASSUME NEW v \in Nat, NEW w \in Nat, v <= w
  PROVE  /\ Hundredths(v) \in Nat /\ Hundredths(w) \in Nat
         /\ Hundredths(v) <= Hundredths(w)
BY DEF Hundredths, RoundHalfEven

LEMMA HundredthsOfLimit ==
  ASSUME NEW v \in Nat
  PROVE  /\ Hundredths(v) <= 140000 => v <= 1400005
         /\ ~(Hundredths(v) <= 140000) => 1400005 <= v
BY DEF Hundredths, RoundHalfEven

(* The statistics of a replay with samples. *)
LEMMA HonestStats ==
  ASSUME NEW s \in Seq(Nat), s # <<>>
  PROVE  LET n     == Len(s)
             stats == Stats(s)
         IN /\ stats.n = n /\ n > 0
            /\ stats.p95 <= 100 * MaxTtfa => 100 * AtMost(s, 1000 * MaxTtfa + 5) >= 95 * n
            /\ ~(stats.p95 <= 100 * MaxTtfa) =>
                 AtMost(s, 1000 * MaxTtfa + 4) <= NearestRank(n, 95)
            /\ stats.p50 <= stats.p95 /\ stats.p95 <= stats.max
<1> DEFINE n   == Len(s)
           p50 == AtRank(s, Rank(n, 50))
           p95 == AtRank(s, Rank(n, 95))
           top == Max(ToSet(s))
           soon  == AtMost(s, 1400005)
           sooner == AtMost(s, 1400004)
<1>1. n \in Nat \ {0} /\ n > 0 /\ DOMAIN s = 1..n
      /\ 100 * MaxTtfa = 140000 /\ 1000 * MaxTtfa + 5 = 1400005
      /\ 1000 * MaxTtfa + 4 = 1400004
  BY DEF MaxTtfa
<1>2. Stats(s) = [n |-> n, p50 |-> Hundredths(p50), p95 |-> Hundredths(p95),
                  max |-> Hundredths(top)]
  BY DEF Stats, PercentileOf
<1> HIDE DEF n
<1>4. /\ Rank(n, 95) \in 1..n /\ NearestRank(n, 95) <= Rank(n, 95)
      /\ Rank(n, 95) <= NearestRank(n, 95) + 1
      /\ Rank(n, 50) \in 1..n /\ NearestRank(n, 50) <= Rank(n, 50)
      /\ Rank(n, 50) <= NearestRank(n, 50) + 1
  <2>1. 95 \in 1..100 /\ 50 \in 1..100
    OBVIOUS
  <2>2. QED
    BY <1>1, <2>1, RankIsNearestOrNext
<1>5. /\ NearestRank(n, 95) \in Nat /\ 100 * NearestRank(n, 95) >= 95 * n
      /\ NearestRank(n, 50) \in Nat /\ 100 * NearestRank(n, 50) <= 50 * n + 99
  BY <1>1 DEF NearestRank
<1>6. Rank(n, 50) <= Rank(n, 95)
  BY <1>1, <1>4, <1>5
<1>7. /\ p95 \in ToSet(s) /\ p95 \in Nat
      /\ Below(s, p95) < Rank(n, 95) /\ Rank(n, 95) <= AtMost(s, p95)
  BY <1>4, AtRankIs DEF n
<1>8. p50 <= p95 /\ p50 \in Nat
  BY <1>4, <1>6, RanksAreOrdered, AtRankIs DEF n
<1>9. p95 <= top /\ top \in Nat
  BY <1>7, MaxOfSamples
<1> HIDE DEF p95, p50, top, soon, sooner
<1>10. /\ soon \in Nat /\ sooner \in Nat /\ AtMost(s, p95) \in Nat /\ Below(s, p95) \in Nat
       /\ p95 <= 1400005 => AtMost(s, p95) <= soon
       /\ 1400004 < p95 => sooner <= Below(s, p95)
  BY <1>1, <1>7, Counts DEF soon, sooner
<1>11. Hundredths(p95) <= 140000 => 100 * soon >= 95 * n
  <2>1. Hundredths(p95) <= 140000 => p95 <= 1400005
    BY <1>7, HundredthsOfLimit
  <2>2. ASSUME p95 <= 1400005 PROVE 100 * soon >= 95 * n
    <3>1. /\ NearestRank(n, 95) <= Rank(n, 95) /\ Rank(n, 95) <= AtMost(s, p95)
          /\ AtMost(s, p95) <= soon /\ 100 * NearestRank(n, 95) >= 95 * n
      BY <1>4, <1>5, <1>7, <1>10, <2>2
    <3>2. /\ n \in Nat /\ NearestRank(n, 95) \in Nat /\ Rank(n, 95) \in Nat
          /\ AtMost(s, p95) \in Nat /\ soon \in Nat
      BY <1>1, <1>4, <1>5, <1>10
    <3>3. QED
      BY <3>1, <3>2
  <2>3. QED
    BY <2>1, <2>2
<1>12. ~(Hundredths(p95) <= 140000) => sooner <= NearestRank(n, 95)
  <2>1. ~(Hundredths(p95) <= 140000) => 1400004 < p95
    BY <1>7, HundredthsOfLimit
  <2>2. ASSUME 1400004 < p95 PROVE sooner <= NearestRank(n, 95)
    <3>1. /\ sooner <= Below(s, p95) /\ Below(s, p95) < Rank(n, 95)
          /\ Rank(n, 95) <= NearestRank(n, 95) + 1
      BY <1>4, <1>7, <1>10, <2>2
    <3>2. /\ NearestRank(n, 95) \in Nat /\ Rank(n, 95) \in Nat
          /\ Below(s, p95) \in Nat /\ sooner \in Nat
      BY <1>1, <1>4, <1>5, <1>10
    <3>3. QED
      BY <3>1, <3>2
  <2>3. QED
    BY <2>1, <2>2
<1>13. Hundredths(p50) <= Hundredths(p95) /\ Hundredths(p95) <= Hundredths(top)
  BY <1>7, <1>8, <1>9, HundredthsKeepOrder
<1>14. QED
  BY <1>1, <1>2, <1>11, <1>12, <1>13 DEF n, soon, sooner

(* What the colour of the latency gate means, up to half a hundredth of a  *)
(* millisecond: green that 95 % of the turns that spoke were in time, red  *)
(* that no more were in time than the nearest rank of the docstring asks   *)
(* for.  percentile, LatencyReport.stats with its rounding and             *)
(* check_latency_gate together, for every replay.                          *)
THEOREM TheLatencyGateIsHonest == Spec => []LatencyGateIsHonest
<1>1. GateInv => LatencyGateIsHonest
  <2> SUFFICES ASSUME GateInv, phase = "reported" PROVE LatencyGateIsHonest
    BY DEF LatencyGateIsHonest
  <2> DEFINE s == Samples(ttfas)
             stats == Stats(s)
  <2>1. s \in Seq(Nat)
    BY SamplesTyped DEF GateInv
  <2>2. latency = [n |-> stats.n, p50 |-> stats.p50, p95 |-> stats.p95, max |-> stats.max,
                   passed |-> stats.n # 0 /\ stats.p95 <= 100 * MaxTtfa]
    BY DEF GateInv
  <2> HIDE DEF s
  <2>3. CASE s = <<>>
    <3>1. stats = [n |-> 0, p50 |-> 0, p95 |-> 0, max |-> 0] /\ Len(s) = 0
      BY <2>3 DEF Stats
    <3>2. stats.n = 0 /\ stats.p50 = 0 /\ stats.p95 = 0 /\ stats.max = 0
      BY <3>1
    <3> HIDE DEF stats
    <3>3. /\ ~latency.passed
          /\ latency.p50 = 0 /\ latency.p95 = 0 /\ latency.max = 0
      BY <2>2, <3>2
    <3>4. latency.p50 <= latency.p95 /\ latency.p95 <= latency.max
      BY <3>3
    <3>5. QED
      BY <3>1, <3>3, <3>4 DEF LatencyGateIsHonest, s
  <2>4. CASE s # <<>>
    <3> DEFINE soon   == AtMost(s, 1000 * MaxTtfa + 5)
               sooner == AtMost(s, 1000 * MaxTtfa + 4)
               limit  == 100 * MaxTtfa
    <3>1. /\ stats.n = Len(s) /\ Len(s) > 0
          /\ stats.p95 <= limit => 100 * soon >= 95 * Len(s)
          /\ ~(stats.p95 <= limit) => sooner <= NearestRank(Len(s), 95)
          /\ stats.p50 <= stats.p95 /\ stats.p95 <= stats.max
      BY <2>1, <2>4, HonestStats
    <3> HIDE DEF stats
    <3>2. /\ latency.passed <=> stats.n # 0 /\ stats.p95 <= limit
          /\ latency.p50 = stats.p50 /\ latency.p95 = stats.p95 /\ latency.max = stats.max
      BY <2>2
    <3>3. /\ latency.passed => Len(s) > 0 /\ 100 * soon >= 95 * Len(s)
          /\ ~latency.passed => Len(s) = 0 \/ sooner <= NearestRank(Len(s), 95)
          /\ latency.p50 <= latency.p95 /\ latency.p95 <= latency.max
      <4>1. stats.n # 0
        BY <3>1
      <4> HIDE DEF soon, sooner, limit
      <4>2. QED
        BY <3>1, <3>2, <4>1
    <3>4. QED
      BY <3>3 DEF LatencyGateIsHonest, s
  <2>5. QED
    BY <2>3, <2>4
<1>2. QED
  BY GateInit, GateNext, <1>1, PTL DEF Spec

-----------------------------------------------------------------------------
(* Sums.  Total adds up what it picks from a set of indices, one by one. *)

Pick(T) == CHOOSE x \in T : TRUE

SumOver(f, S, h) ==
  h = [T \in S |-> IF T = {} THEN 0 ELSE f[Pick(T)] + h[T \ {Pick(T)}]]

LEMMA PickIsOne == ASSUME NEW T, T # {} PROVE Pick(T) \in T
BY DEF Pick

LEMMA OneLess ==
  ASSUME NEW S, IsFiniteSet(S), NEW T \in SUBSET S
  PROVE  /\ IsFiniteSet(T) /\ Cardinality(T) \in Nat
         /\ Cardinality(T) <= Cardinality(S) /\ Cardinality(S) \in Nat
         /\ T # {} => /\ Cardinality(T \ {Pick(T)}) = Cardinality(T) - 1
                      /\ Cardinality(T) > 0
         /\ T = {} => Cardinality(T) = 0
<1>1. IsFiniteSet(T) /\ Cardinality(T) <= Cardinality(S)
  BY FS_Subset
<1>2. Cardinality(T) \in Nat /\ Cardinality(S) \in Nat
  BY <1>1, FS_CardinalityType
<1>3. ASSUME T # {} PROVE Cardinality(T \ {Pick(T)}) = Cardinality(T) - 1 /\ Cardinality(T) # 0
  <2>1. Pick(T) \in T
    BY <1>3, PickIsOne
  <2>2. QED
    BY <1>1, <2>1, FS_RemoveElement, FS_EmptySet
<1>4. T = {} => Cardinality(T) = 0
  BY FS_EmptySet
<1>5. QED
  BY <1>1, <1>2, <1>3, <1>4

(* Induction over the subsets of a finite set, in the order of the sum. *)
LEMMA SubsetsBySize ==
  ASSUME NEW S, IsFiniteSet(S), NEW P, {} \in P,
         \A T \in SUBSET S : T # {} /\ T \ {Pick(T)} \in P => T \in P
  PROVE  \A T \in SUBSET S : T \in P
<1> DEFINE Q == {n \in Nat : \A T \in SUBSET S : Cardinality(T) <= n => T \in P}
<1>1. 0 \in Q
  <2>1. ASSUME NEW T \in SUBSET S, Cardinality(T) <= 0 PROVE T \in P
    <3>1. Cardinality(T) \in Nat /\ (T # {} => Cardinality(T) > 0)
      BY OneLess
    <3>2. T = {}
      BY <2>1, <3>1
    <3>3. QED
      BY <3>2
  <2>2. QED
    BY <2>1
<1>2. ASSUME NEW n \in Nat, n \in Q PROVE n + 1 \in Q
  <2>1. ASSUME NEW T \in SUBSET S, Cardinality(T) <= n + 1 PROVE T \in P
    <3>1. CASE T = {}
      BY <3>1
    <3>2. CASE T # {}
      <4>1. Cardinality(T \ {Pick(T)}) <= n
        BY <2>1, <3>2, OneLess
      <4>2. T \ {Pick(T)} \in P
        BY <1>2, <4>1
      <4>3. QED
        BY <3>2, <4>2
    <3>3. QED
      BY <3>1, <3>2
  <2>2. QED
    BY <2>1
<1> HIDE DEF Q
<1>3. \A n \in Nat : n \in Q
  BY <1>1, <1>2, NumbersBySuccessor
<1>4. ASSUME NEW T \in SUBSET S PROVE T \in P
  <2>1. Cardinality(T) \in Nat /\ Cardinality(T) <= Cardinality(T)
    BY OneLess
  <2>2. QED
    BY <1>3, <2>1 DEF Q
<1>5. QED
  BY <1>4

(* There is such a function on the subsets of each size. *)
LEMMA SumExists ==
  ASSUME NEW f, NEW S, IsFiniteSet(S)
  PROVE  \E h : SumOver(f, SUBSET S, h)
<1> DEFINE UpTo(n) == {T \in SUBSET S : Cardinality(T) <= n}
           Q == {n \in Nat : \E h : SumOver(f, UpTo(n), h)}
<1>1. 0 \in Q
  <2> DEFINE h == [T \in UpTo(0) |-> 0]
  <2>1. ASSUME NEW T \in UpTo(0) PROVE T = {}
    <3>1. Cardinality(T) \in Nat /\ (T # {} => Cardinality(T) > 0) /\ Cardinality(T) <= 0
      BY OneLess
    <3>2. QED
      BY <3>1
  <2>2. SumOver(f, UpTo(0), h)
    BY <2>1 DEF SumOver
  <2>3. QED
    BY <2>2
<1>2. ASSUME NEW n \in Nat, n \in Q PROVE n + 1 \in Q
  <2>1. PICK h : SumOver(f, UpTo(n), h)
    BY <1>2
  <2> DEFINE g == [T \in UpTo(n + 1) |->
                     IF T = {} THEN 0 ELSE f[Pick(T)] + h[T \ {Pick(T)}]]
  <2>2. ASSUME NEW T \in UpTo(n + 1), T # {} PROVE T \ {Pick(T)} \in UpTo(n)
    <3>1. Cardinality(T \ {Pick(T)}) <= n
      BY <2>2, OneLess
    <3>2. QED
      BY <3>1
  <2>3. ASSUME NEW T \in UpTo(n) PROVE T \in UpTo(n + 1)
    <3>1. Cardinality(T) \in Nat /\ Cardinality(T) <= n
      BY OneLess
    <3>2. Cardinality(T) <= n + 1
      BY <3>1
    <3>3. QED
      BY <3>2
  <2> HIDE DEF UpTo
  <2>4. ASSUME NEW T \in UpTo(n) PROVE g[T] = h[T]
    <3>1. h[T] = IF T = {} THEN 0 ELSE f[Pick(T)] + h[T \ {Pick(T)}]
      BY <2>1 DEF SumOver
    <3>2. QED
      BY <2>3, <3>1
  <2>5. \A T \in UpTo(n + 1) : T # {} => g[T \ {Pick(T)}] = h[T \ {Pick(T)}]
    BY <2>2, <2>4
  <2>6. g = [T \in UpTo(n + 1) |-> IF T = {} THEN 0 ELSE f[Pick(T)] + g[T \ {Pick(T)}]]
    BY <2>5
  <2>7. SumOver(f, UpTo(n + 1), g)
    BY <2>6 DEF SumOver
  <2>8. QED
    BY <2>7
<1> HIDE DEF Q
<1>3. \A n \in Nat : n \in Q
  BY <1>1, <1>2, NumbersBySuccessor
<1>4. Cardinality(S) \in Nat /\ UpTo(Cardinality(S)) = SUBSET S
  BY OneLess
<1>5. Cardinality(S) \in Q
  BY <1>3, <1>4
<1> HIDE DEF UpTo
<1>6. QED
  BY <1>4, <1>5 DEF Q

(* What Total is: the last of the partial sums. *)
LEMMA TotalIs ==
  ASSUME NEW f, IsFiniteSet(DOMAIN f)
  PROVE  \E h : /\ h[{}] = 0 /\ Total(f) = h[DOMAIN f]
                /\ \A T \in SUBSET DOMAIN f :
                     T # {} => h[T] = f[Pick(T)] + h[T \ {Pick(T)}]
<1> DEFINE h == CHOOSE g : SumOver(f, SUBSET DOMAIN f, g)
<1>1. Total(f) = h[DOMAIN f]
  BY DEF Total, FoldFunction, FoldFunctionOnSet, MapThenFoldSet, SumOver, Pick
<1>2. SumOver(f, SUBSET DOMAIN f, h)
  BY SumExists
<1> HIDE DEF h
<1>3. h[{}] = 0 /\ \A T \in SUBSET DOMAIN f : T # {} => h[T] = f[Pick(T)] + h[T \ {Pick(T)}]
  BY <1>2 DEF SumOver
<1>4. QED
  BY <1>1, <1>3

(* A sum of naturals is one, and 0 if they are all 0 only. *)
LEMMA TotalOfNaturals ==
  ASSUME NEW f, IsFiniteSet(DOMAIN f), \A x \in DOMAIN f : f[x] \in Nat
  PROVE  /\ Total(f) \in Nat
         /\ Total(f) = 0 <=> \A x \in DOMAIN f : f[x] = 0
<1> DEFINE S == DOMAIN f
<1>1. PICK h : /\ h[{}] = 0 /\ Total(f) = h[S]
               /\ \A T \in SUBSET S : T # {} => h[T] = f[Pick(T)] + h[T \ {Pick(T)}]
  BY TotalIs
<1> DEFINE P == {T \in SUBSET S : /\ h[T] \in Nat
                                  /\ h[T] = 0 <=> \A x \in T : f[x] = 0}
<1>2. {} \in P
  BY <1>1
<1>3. ASSUME NEW T \in SUBSET S, T # {}, T \ {Pick(T)} \in P PROVE T \in P
  <2> DEFINE x == Pick(T)
             r == h[T \ {Pick(T)}]
  <2>1. x \in T /\ f[x] \in Nat /\ r \in Nat
        /\ (r = 0 <=> \A y \in T \ {x} : f[y] = 0)
    BY <1>3, PickIsOne
  <2>2. h[T] = f[x] + r
    BY <1>1, <1>3
  <2> HIDE DEF x, r
  <2>3. h[T] \in Nat /\ (h[T] = 0 <=> f[x] = 0 /\ r = 0)
    BY <2>1, <2>2
  <2>4. QED
    BY <2>1, <2>3
<1> HIDE DEF P
<1>4. \A T \in SUBSET S : T \in P
  BY <1>2, <1>3, SubsetsBySize
<1>5. S \in P
  BY <1>4
<1>6. QED
  BY <1>1, <1>5 DEF P

(* An inequality between terms adds up, and so do the sums' types. *)
LEMMA TotalScales ==
  ASSUME NEW f, NEW g, DOMAIN g = DOMAIN f, IsFiniteSet(DOMAIN f), NEW a \in Int, NEW b \in Int,
         \A x \in DOMAIN f : f[x] \in Int /\ g[x] \in Int /\ a * f[x] <= b * g[x]
  PROVE  /\ Total(f) \in Int /\ Total(g) \in Int
         /\ a * Total(f) <= b * Total(g)
<1> DEFINE S == DOMAIN f
<1>1. PICK h : /\ h[{}] = 0 /\ Total(f) = h[S]
               /\ \A T \in SUBSET S : T # {} => h[T] = f[Pick(T)] + h[T \ {Pick(T)}]
  BY TotalIs
<1>2. PICK k : /\ k[{}] = 0 /\ Total(g) = k[S]
               /\ \A T \in SUBSET S : T # {} => k[T] = g[Pick(T)] + k[T \ {Pick(T)}]
  <2>1. IsFiniteSet(DOMAIN g)
    OBVIOUS
  <2>2. \E k : /\ k[{}] = 0 /\ Total(g) = k[DOMAIN g]
               /\ \A T \in SUBSET DOMAIN g :
                    T # {} => k[T] = g[Pick(T)] + k[T \ {Pick(T)}]
    BY <2>1, TotalIs, Zenon
  <2>3. QED
    BY <2>2
<1> DEFINE P == {T \in SUBSET S : h[T] \in Int /\ k[T] \in Int /\ a * h[T] <= b * k[T]}
<1>3. {} \in P
  BY <1>1, <1>2
<1>4. ASSUME NEW T \in SUBSET S, T # {}, T \ {Pick(T)} \in P PROVE T \in P
  <2> DEFINE x == Pick(T)
             q == h[T \ {Pick(T)}]
             r == k[T \ {Pick(T)}]
             u == f[x]
             v == g[x]
  <2>1. /\ u \in Int /\ v \in Int /\ q \in Int /\ r \in Int
        /\ a * u <= b * v /\ a * q <= b * r
    BY <1>4, PickIsOne
  <2>2. h[T] = u + q /\ k[T] = v + r
    BY <1>1, <1>2, <1>4
  <2> HIDE DEF x, q, r, u, v
  <2>3. /\ a * (u + q) = a * u + a * q /\ a * u \in Int /\ a * q \in Int
        /\ b * (v + r) = b * v + b * r /\ b * v \in Int /\ b * r \in Int
    BY <2>1
  <2>4. a * (u + q) <= b * (v + r)
    BY <2>1, <2>3
  <2>5. QED
    BY <2>1, <2>2, <2>4
<1> HIDE DEF P
<1>5. \A T \in SUBSET S : T \in P
  BY <1>3, <1>4, SubsetsBySize
<1>6. S \in P
  BY <1>5
<1>7. QED
  BY <1>1, <1>2, <1>6 DEF P

-----------------------------------------------------------------------------
(* Filters of sequences. *)

(* What of a sequence is in a set. *)
Kept(s, K) == Where(s, LAMBDA e : e \in K)

Keeping(S, K) == [e \in S |-> IF e \in K THEN <<e>> ELSE <<>>]

LEMMA KeptIsPicked ==
  ASSUME NEW S, NEW K, NEW s \in Seq(S)
  PROVE  /\ Kept(s, K) = Picked(s, Keeping(S, K))
         /\ Picker(Keeping(S, K), S, S)
<1>1. DOMAIN s = 1..Len(s) /\ \A i \in DOMAIN s : s[i] \in S
  OBVIOUS
<1>2. [i \in DOMAIN s |-> IF s[i] \in K THEN <<s[i]>> ELSE <<>>] = Picks(s, Keeping(S, K))
  BY <1>1 DEF Picks, Keeping
<1>3. Kept(s, K) = Picked(s, Keeping(S, K))
  BY <1>2 DEF Kept, Where, Picked
<1>4. \A e \in S : Keeping(S, K)[e] \in Seq(S)
  <2> TAKE e \in S
  <2>1. <<e>> \in Seq(S) /\ <<>> \in Seq(S)
    OBVIOUS
  <2>2. QED
    BY <2>1 DEF Keeping
<1>5. QED
  BY <1>3, <1>4 DEF Picker

LEMMA KeptType ==
  ASSUME NEW S, NEW K, NEW s \in Seq(S)
  PROVE  Kept(s, K) \in Seq(S)
BY KeptIsPicked, PickedType

LEMMA KeptAppend ==
  ASSUME NEW S, NEW K, NEW s \in Seq(S), NEW e \in S
  PROVE  Kept(Append(s, e), K) = IF e \in K THEN Append(Kept(s, K), e) ELSE Kept(s, K)
<1> DEFINE f == Keeping(S, K)
           q == Kept(s, K)
<1>1. Append(s, e) \in Seq(S)
  BY AppendProperties
<1>2. /\ q = Picked(s, f) /\ Picker(f, S, S)
      /\ Kept(Append(s, e), K) = Picked(Append(s, e), f)
  BY <1>1, KeptIsPicked
<1>3. q \in Seq(S)
  BY KeptType
<1>4. f[e] = IF e \in K THEN <<e>> ELSE <<>>
  BY DEF Keeping
<1> HIDE DEF f, q
<1>5. Picked(Append(s, e), f) = q \o f[e]
  BY <1>2, PickedAppend
<1>6. q \o <<e>> = Append(q, e) /\ q \o <<>> = q
  BY <1>3, AppendIsConcat, ConcatEmptySeq
<1>7. QED
  BY <1>2, <1>4, <1>5, <1>6 DEF q

LEMMA KeptEmpty == ASSUME NEW K PROVE Kept(<<>>, K) = <<>>
<1>1. <<>> \in Seq({}) 
  OBVIOUS
<1>2. Kept(<<>>, K) = Picked(<<>>, Keeping({}, K))
  BY <1>1, KeptIsPicked
<1>3. QED
  BY <1>2, PickedEmpty

LEMMA InjectiveAppend ==
  ASSUME NEW S, NEW s \in Seq(S), NEW e \in S
  PROVE  IsInjective(Append(s, e)) <=> IsInjective(s) /\ e \notin ToSet(s)
<1> DEFINE t == Append(s, e)
           n == Len(s)
<1>1. /\ n \in Nat /\ DOMAIN s = 1..n /\ DOMAIN t = 1..(n + 1)
      /\ \A i \in 1..n : t[i] = s[i]
      /\ t[n + 1] = e
  OBVIOUS
<1> HIDE DEF t, n
<1>2. ASSUME IsInjective(t) PROVE IsInjective(s) /\ e \notin ToSet(s)
  <2>1. IsInjective(s)
    BY <1>1, <1>2 DEF IsInjective
  <2>2. ASSUME NEW i \in 1..n, s[i] = e PROVE FALSE
    <3>1. t[i] = t[n + 1] /\ i \in DOMAIN t /\ n + 1 \in DOMAIN t /\ i # n + 1
      BY <1>1, <2>2
    <3>2. QED
      BY <1>2, <3>1 DEF IsInjective
  <2>3. QED
    BY <1>1, <2>1, <2>2 DEF ToSet
<1>3. ASSUME IsInjective(s), e \notin ToSet(s) PROVE IsInjective(t)
  <2>1. \A i \in 1..n : s[i] # e
    BY <1>1, <1>3 DEF ToSet
  <2>2. ASSUME NEW i \in 1..(n + 1), NEW j \in 1..(n + 1), t[i] = t[j] PROVE i = j
    <3>1. (i \in 1..n \/ i = n + 1) /\ (j \in 1..n \/ j = n + 1)
      BY <1>1
    <3>2. CASE i \in 1..n /\ j \in 1..n
      BY <1>1, <1>3, <2>2, <3>2 DEF IsInjective
    <3>3. CASE i = n + 1 \/ j = n + 1
      BY <1>1, <2>1, <2>2, <3>1, <3>3
    <3>4. QED
      BY <3>1, <3>2, <3>3
  <2>3. QED
    BY <1>1, <2>2 DEF IsInjective
<1>4. QED
  BY <1>2, <1>3 DEF t

(* Its elements, and that none is there twice that was not there twice. *)
LEMMA KeptElements ==
  ASSUME NEW S, NEW K, NEW s \in Seq(S)
  PROVE  /\ ToSet(Kept(s, K)) = ToSet(s) \cap K
         /\ IsInjective(s) => IsInjective(Kept(s, K))
<1> DEFINE P == {t \in Seq(S) : /\ ToSet(Kept(t, K)) = ToSet(t) \cap K
                                /\ IsInjective(t) => IsInjective(Kept(t, K))}
<1>1. <<>> \in P
  <2>1. <<>> \in Seq(S) /\ ToSet(<<>>) = {} /\ IsInjective(<<>>)
    BY DEF ToSet, IsInjective
  <2>2. QED
    BY <2>1, KeptEmpty
<1>2. ASSUME NEW t \in Seq(S), t \in P, NEW e \in S PROVE Append(t, e) \in P
  <2> DEFINE q == Kept(t, K)
             u == Append(t, e)
  <2>1. q \in Seq(S) /\ u \in Seq(S)
    BY KeptType, AppendProperties
  <2>2. Kept(u, K) = IF e \in K THEN Append(q, e) ELSE q
    BY KeptAppend
  <2>3. ToSet(u) = ToSet(t) \cup {e} /\ ToSet(Append(q, e)) = ToSet(q) \cup {e}
    BY <2>1, ToSetAppend
  <2>4. ToSet(q) = ToSet(t) \cap K /\ (IsInjective(t) => IsInjective(q))
    BY <1>2
  <2>5. IsInjective(u) => IsInjective(t) /\ e \notin ToSet(t)
    BY InjectiveAppend
  <2>6. IsInjective(q) /\ e \notin ToSet(q) => IsInjective(Append(q, e))
    BY <2>1, InjectiveAppend
  <2> HIDE DEF q, u
  <2>7. ToSet(Kept(u, K)) = ToSet(u) \cap K
    BY <2>2, <2>3, <2>4
  <2>8. IsInjective(u) => IsInjective(Kept(u, K))
    BY <2>2, <2>4, <2>5, <2>6
  <2>9. QED
    BY <2>1, <2>7, <2>8 DEF u
<1> HIDE DEF P
<1>3. \A t \in Seq(S) : t \in P
  BY <1>1, <1>2, SequencesByLength
<1>4. QED
  BY <1>3 DEF P

-----------------------------------------------------------------------------
(* The gates of a pack. *)

Generated(ts) == [turn : ToSet(ts), reply : Replies]

(* TurnsOf and RepliesOf, of sequences that may be those of the next state. *)
TurnsIn(ts, p)   == Where(ts, LAMBDA t : t.pack = p)
RepliesIn(gs, p) == Where(gs, LAMBDA g : g.turn.pack = p)

LEMMA TurnsInType ==
  ASSUME NEW ts, ts \in Seq(ToSet(ts)), NEW p
  PROVE  /\ TurnsIn(ts, p) \in Seq(ToSet(ts))
         /\ ToSet(TurnsIn(ts, p)) = {t \in ToSet(ts) : t.pack = p}
         /\ IsInjective(ts) => IsInjective(TurnsIn(ts, p))
<1> DEFINE S == ToSet(ts)
           K == {t \in S : t.pack = p}
<1>1. \A i \in DOMAIN ts : ts[i] \in S
  BY DEF ToSet
<1>2. TurnsIn(ts, p) = Kept(ts, K)
  BY <1>1 DEF TurnsIn, Kept, Where
<1>3. K \subseteq S
  OBVIOUS
<1> HIDE DEF K
<1>4. ToSet(Kept(ts, K)) = S \cap K /\ Kept(ts, K) \in Seq(S)
      /\ (IsInjective(ts) => IsInjective(Kept(ts, K)))
  BY KeptElements, KeptType
<1>5. QED
  BY <1>2, <1>3, <1>4 DEF K

LEMMA RepliesInIsKept ==
  ASSUME NEW ts, NEW gs \in Seq(Generated(ts)), NEW p
  PROVE  RepliesIn(gs, p) = Kept(gs, {g \in Generated(ts) : g.turn.pack = p})
<1>1. \A i \in DOMAIN gs : gs[i] \in Generated(ts)
  OBVIOUS
<1>2. QED
  BY <1>1 DEF RepliesIn, Kept, Where

LEMMA RepliesInType ==
  ASSUME NEW ts, NEW gs \in Seq(Generated(ts)), NEW p
  PROVE  /\ RepliesIn(gs, p) \in Seq(Generated(ts))
         /\ ToSet(RepliesIn(gs, p)) = {g \in ToSet(gs) : g.turn.pack = p}
<1> DEFINE K == {g \in Generated(ts) : g.turn.pack = p}
<1>1. RepliesIn(gs, p) = Kept(gs, K)
  BY RepliesInIsKept
<1>2. ToSet(gs) \subseteq Generated(ts)
  BY DEF ToSet
<1>3. ToSet(gs) \cap K = {g \in ToSet(gs) : g.turn.pack = p}
  BY <1>2
<1> HIDE DEF K
<1>4. ToSet(Kept(gs, K)) = ToSet(gs) \cap K /\ Kept(gs, K) \in Seq(Generated(ts))
  BY KeptElements, KeptType
<1>5. QED
  BY <1>1, <1>3, <1>4

LEMMA RepliesInAppend ==
  ASSUME NEW ts, NEW gs \in Seq(Generated(ts)), NEW g \in Generated(ts), NEW p
  PROVE  RepliesIn(Append(gs, g), p) =
           IF g.turn.pack = p THEN Append(RepliesIn(gs, p), g) ELSE RepliesIn(gs, p)
<1> DEFINE K == {x \in Generated(ts) : x.turn.pack = p}
<1>1. Append(gs, g) \in Seq(Generated(ts))
  BY AppendProperties
<1>2. /\ RepliesIn(gs, p) = Kept(gs, K)
      /\ RepliesIn(Append(gs, g), p) = Kept(Append(gs, g), K)
  BY <1>1, RepliesInIsKept
<1>3. g \in K <=> g.turn.pack = p
  OBVIOUS
<1> HIDE DEF K
<1>4. Kept(Append(gs, g), K) = IF g \in K THEN Append(Kept(gs, K), g) ELSE Kept(gs, K)
  BY KeptAppend
<1>5. QED
  BY <1>2, <1>3, <1>4

LEMMA RepliesInEmpty == ASSUME NEW p PROVE RepliesIn(<<>>, p) = <<>>
<1>1. <<>> \in Seq(Generated(<<>>))
  OBVIOUS
<1>2. RepliesIn(<<>>, p) = Kept(<<>>, {g \in Generated(<<>>) : g.turn.pack = p})
  BY <1>1, RepliesInIsKept
<1>3. QED
  BY <1>2, KeptEmpty

-----------------------------------------------------------------------------
(* The invariant of a run. *)

StartInv ==
  phase = "started" => turns = <<>> /\ generated = <<>> /\ packs = <<>>

InputInv == \E in \in Inputs : langpacks = in.langpacks /\ golden = in.golden

Marks(f) ==
  /\ IsFiniteSet(DOMAIN f) /\ \A d \in DOMAIN f : f[d] \in Nat
  /\ DOMAIN f # {} => Scales(Cardinality(DOMAIN f))

TurnsInv ==
  /\ turns \in Seq(ToSet(turns)) /\ IsInjective(turns)
  /\ \A t \in ToSet(turns) : t.pack \in Nat /\ Marks(t.labels)

(* The replies of a pack are to its first turns, in their order. *)
InOrder(ts, gs) ==
  /\ Len(gs) <= Len(ts)
  /\ \A k \in 1..Len(gs) : gs[k].turn = ts[k]

Usable(t, dirs) ==
  /\ t.pack \in DOMAIN dirs
  /\ LoadPack(dirs[t.pack]) # NoPack
  /\ t.level \in DOMAIN LoadPack(dirs[t.pack]).levels

GeneratedInv ==
  /\ generated \in Seq(Generated(turns))
  /\ IsInjective(generated)
  /\ \A p \in Nat : InOrder(TurnsIn(turns, p), RepliesIn(generated, p))
  /\ \A g \in ToSet(generated) : Usable(g.turn, langpacks)

(* A pack that is reported has all its replies, and the gate is theirs. *)
Settled(r, ts, gs, dirs) ==
  /\ r.pack \in Nat
  /\ Len(RepliesIn(gs, r.pack)) = Len(TurnsIn(ts, r.pack))
  /\ RepliesIn(gs, r.pack) # <<>>
  /\ r.gatePassed = GatePasses(Metrics(RepliesIn(gs, r.pack), LoadPack(dirs[r.pack])))

PacksInv ==
  /\ packs \in Seq(ToSet(packs))
  /\ \A i \in DOMAIN packs : Settled(packs[i], turns, generated, langpacks)

EvalInv == StartInv /\ InputInv /\ TurnsInv /\ GeneratedInv /\ PacksInv

LEMMA NoneInOrder ==
  ASSUME NEW ts, ts \in Seq(ToSet(ts)), NEW p
  PROVE  InOrder(TurnsIn(ts, p), RepliesIn(<<>>, p))
<1>1. TurnsIn(ts, p) \in Seq(ToSet(ts))
  BY TurnsInType
<1>2. Len(TurnsIn(ts, p)) \in Nat
  BY <1>1
<1>3. QED
  BY <1>2, RepliesInEmpty DEF InOrder

LEMMA EvalInit == Init => EvalInv
<1> SUFFICES ASSUME Init PROVE EvalInv
  OBVIOUS
<1>1. turns = <<>> /\ generated = <<>> /\ packs = <<>> /\ InputInv
  BY DEF Init, InputInv
<1>2. TurnsInv
  BY <1>1 DEF TurnsInv, IsInjective, ToSet
<1>3. GeneratedInv
  <2>1. <<>> \in Seq(Generated(turns)) /\ IsInjective(<<>>) /\ ToSet(<<>>) = {}
    BY DEF IsInjective, ToSet
  <2>2. QED
    BY <1>1, <1>2, <2>1, NoneInOrder DEF GeneratedInv, TurnsInv
<1>4. PacksInv
  BY <1>1 DEF PacksInv, ToSet
<1>5. QED
  BY <1>1, <1>2, <1>3, <1>4 DEF EvalInv, StartInv

(* The pack that is generated for. *)
LEMMA CurrentIsLeft ==
  ASSUME TurnsInv, PacksLeft # {}
  PROVE  /\ CurrentPack \in PacksLeft /\ CurrentPack \in Nat
         /\ \A i \in DOMAIN packs : packs[i].pack # CurrentPack
         /\ TurnsOf(CurrentPack) = TurnsIn(turns, CurrentPack)
         /\ TurnsOf(CurrentPack) # <<>>
         /\ RepliesOf(CurrentPack) = RepliesIn(generated, CurrentPack)
<1>1. \A p \in PacksLeft : p \in Nat /\ \E t \in ToSet(turns) : t.pack = p
  BY DEF PacksLeft, TurnsInv, ToSet
<1>2. CurrentPack \in PacksLeft
  BY <1>1, MinIsLeast DEF CurrentPack
<1>3. \A i \in DOMAIN packs : packs[i].pack # CurrentPack
  BY <1>2 DEF PacksLeft
<1>4. TurnsOf(CurrentPack) = TurnsIn(turns, CurrentPack)
      /\ RepliesOf(CurrentPack) = RepliesIn(generated, CurrentPack)
  BY DEF TurnsOf, TurnsIn, RepliesOf, RepliesIn
<1>5. ToSet(TurnsIn(turns, CurrentPack)) # {}
  <2>1. ToSet(TurnsIn(turns, CurrentPack)) = {t \in ToSet(turns) : t.pack = CurrentPack}
    BY TurnsInType DEF TurnsInv
  <2>2. QED
    BY <1>1, <1>2, <2>1
<1>6. TurnsOf(CurrentPack) # <<>>
  BY <1>4, <1>5 DEF ToSet
<1>7. QED
  BY <1>1, <1>2, <1>3, <1>4, <1>6

LEMMA LoadKeeps == EvalInv /\ LoadGoldenSet => EvalInv'
<1> SUFFICES ASSUME EvalInv, LoadGoldenSet PROVE EvalInv'
  OBVIOUS
<1>1. /\ generated = <<>> /\ packs = <<>> /\ turns = <<>>
      /\ generated' = <<>> /\ packs' = <<>> /\ phase' # "started"
      /\ langpacks' = langpacks /\ golden' = golden
  BY DEF LoadGoldenSet, EvalInv, StartInv
<1>2. StartInv' /\ InputInv'
  BY <1>1 DEF StartInv, InputInv, EvalInv
<1>3. TurnsInv'
  <2>1. CASE Loadable
    <3> DEFINE S == ToSet(golden)
               K == {l \in S : l.kind = "turn"}
    <3>1. turns' = Lines("turn") /\ IsInjective([i \in DOMAIN turns' |-> turns'[i].id])
      BY <2>1 DEF LoadGoldenSet, Loadable
    <3>2. golden \in Seq(S) /\ \A l \in K : l.pack \in Nat /\ Marks(l.labels)
      BY EvaluationAssumption DEF EvaluationAssumption, EvalInv, InputInv, Marks
    <3>3. Lines("turn") = Kept(golden, K)
      <4>1. \A i \in DOMAIN golden : golden[i] \in S
        BY DEF ToSet
      <4>2. QED
        BY <4>1 DEF Lines, Kept, Where
    <3> HIDE DEF K, S
    <3>4. ToSet(turns') = S \cap K /\ turns' \in Seq(S)
      BY <3>1, <3>2, <3>3, KeptElements, KeptType DEF S
    <3>5. turns' \in Seq(ToSet(turns'))
      <4>1. DOMAIN turns' = 1..Len(turns') /\ \A i \in 1..Len(turns') : turns'[i] \in ToSet(turns')
        BY <3>4 DEF ToSet
      <4>2. turns' = [i \in 1..Len(turns') |-> turns'[i]] /\ Len(turns') \in Nat
        BY <3>4
      <4>3. QED
        BY <4>1, <4>2, FunctionIsSeq
    <3>6. IsInjective(turns')
      BY <3>1 DEF IsInjective
    <3>7. QED
      BY <3>2, <3>4, <3>5, <3>6 DEF TurnsInv
  <2>2. CASE ~Loadable
    BY <2>2, <1>1 DEF LoadGoldenSet, EvalInv, TurnsInv
  <2>3. QED
    BY <2>1, <2>2
<1>4. GeneratedInv'
  <2>1. <<>> \in Seq(Generated(turns')) /\ IsInjective(<<>>) /\ ToSet(<<>>) = {}
    BY DEF IsInjective, ToSet
  <2>2. \A p \in Nat : InOrder(TurnsIn(turns', p), RepliesIn(<<>>, p))
    BY <1>3, NoneInOrder DEF TurnsInv
  <2>3. QED
    BY <1>1, <2>1, <2>2 DEF GeneratedInv
<1>5. PacksInv'
  BY <1>1 DEF PacksInv, ToSet
<1>6. QED
  BY <1>2, <1>3, <1>4, <1>5 DEF EvalInv

(* A reply more, to the next turn of the current pack. *)
LEMMA ReplyIsNext ==
  ASSUME TurnsInv, GeneratedInv, PacksLeft # {},
         Len(RepliesOf(CurrentPack)) < Len(TurnsOf(CurrentPack)),
         NEW g \in [turn : {TurnsOf(CurrentPack)[Len(RepliesOf(CurrentPack)) + 1]},
                    reply : Replies]
  PROVE  /\ g \in Generated(turns) /\ g.turn.pack = CurrentPack
         /\ g \notin ToSet(generated)
         /\ \A p \in Nat : InOrder(TurnsIn(turns, p), RepliesIn(Append(generated, g), p))
         /\ \A p : p # CurrentPack =>
              RepliesIn(Append(generated, g), p) = RepliesIn(generated, p)
<1> DEFINE cur  == CurrentPack
           todo == TurnsIn(turns, cur)
           done == RepliesIn(generated, cur)
           n    == Len(done)
<1>1. /\ cur \in Nat /\ TurnsOf(cur) = todo /\ RepliesOf(cur) = done
  BY CurrentIsLeft
<1>2. /\ todo \in Seq(ToSet(turns)) /\ IsInjective(todo)
      /\ ToSet(todo) = {t \in ToSet(turns) : t.pack = cur}
  BY TurnsInType DEF TurnsInv
<1>3. /\ generated \in Seq(Generated(turns))
      /\ InOrder(todo, done)
  BY <1>1 DEF GeneratedInv
<1>4. /\ done \in Seq(Generated(turns))
      /\ ToSet(done) = {x \in ToSet(generated) : x.turn.pack = cur}
  BY <1>3, RepliesInType
<1>5. n \in Nat /\ n + 1 \in DOMAIN todo /\ g.turn = todo[n + 1] /\ g.reply \in Replies
      /\ g = [turn |-> g.turn, reply |-> g.reply]
  <2>1. n < Len(todo) /\ n \in Nat /\ Len(todo) \in Nat /\ DOMAIN todo = 1..Len(todo)
    BY <1>1, <1>2, <1>4
  <2> HIDE DEF n, todo
  <2>2. n + 1 \in 1..Len(todo)
    BY <2>1
  <2>3. QED
    BY <1>1, <2>1, <2>2 DEF n
<1>6. g.turn \in ToSet(turns) /\ g.turn.pack = cur
  BY <1>2, <1>5 DEF ToSet
<1> HIDE DEF cur, todo, n
<1>7. g \in Generated(turns)
  BY <1>5, <1>6 DEF Generated
<1>8. ASSUME g \in ToSet(generated) PROVE FALSE
  <2>1. g \in ToSet(done)
    BY <1>4, <1>6, <1>8
  <2>2. PICK k \in 1..n : done[k] = g
    BY <1>4, <2>1 DEF ToSet, n
  <2>3. g.turn = todo[k] /\ k \in DOMAIN todo
    <3>1. Len(todo) \in Nat /\ DOMAIN todo = 1..Len(todo) /\ n <= Len(todo) /\ n = Len(done)
      BY <1>2, <1>3 DEF InOrder, n
    <3>2. done[k].turn = todo[k]
      BY <1>3, <2>2, <3>1 DEF InOrder
    <3>3. k \in 1..Len(todo)
      BY <1>5, <3>1
    <3>4. QED
      BY <2>2, <3>1, <3>2, <3>3
  <2>4. k = n + 1
    BY <1>2, <1>5, <2>3 DEF IsInjective
  <2>5. QED
    BY <1>5, <2>2, <2>4
<1>9. ASSUME NEW p
      PROVE  RepliesIn(Append(generated, g), p) =
               IF p = cur THEN Append(RepliesIn(generated, p), g) ELSE RepliesIn(generated, p)
  BY <1>3, <1>6, <1>7, RepliesInAppend
<1>10. ASSUME NEW p \in Nat
       PROVE  InOrder(TurnsIn(turns, p), RepliesIn(Append(generated, g), p))
  <2>1. CASE p # cur
    BY <1>9, <2>1 DEF GeneratedInv
  <2>2. CASE p = cur
    <3>1. RepliesIn(Append(generated, g), cur) = Append(done, g)
      BY <1>9
    <3>2. /\ Len(Append(done, g)) = n + 1
          /\ \A k \in 1..n : Append(done, g)[k] = done[k]
          /\ Append(done, g)[n + 1] = g
      BY <1>4, <1>7 DEF n
    <3>3. \A k \in 1..(n + 1) : Append(done, g)[k].turn = todo[k]
      <4> TAKE k \in 1..(n + 1)
      <4>1. k \in 1..n \/ k = n + 1
        BY <1>5
      <4>2. CASE k \in 1..n
        BY <1>3, <3>2, <4>2 DEF InOrder, n
      <4>3. CASE k = n + 1
        BY <1>5, <3>2, <4>3
      <4>4. QED
        BY <4>1, <4>2, <4>3
    <3>4. n + 1 <= Len(todo)
      BY <1>2, <1>5
    <3>5. InOrder(todo, Append(done, g))
      BY <3>2, <3>3, <3>4 DEF InOrder
    <3>6. QED
      BY <2>2, <3>1, <3>5 DEF todo
  <2>3. QED
    BY <2>1, <2>2
<1>11. QED
  BY <1>6, <1>7, <1>8, <1>9, <1>10 DEF cur

LEMMA GenerateKeeps == EvalInv /\ Generate => EvalInv'
<1> SUFFICES ASSUME EvalInv, Generate PROVE EvalInv'
  OBVIOUS
<1> DEFINE cur  == CurrentPack
<1>1. /\ langpacks' = langpacks /\ golden' = golden /\ turns' = turns /\ packs' = packs
      /\ PacksLeft # {} /\ phase = "generating"
      /\ phase' \in {"generating", "raised"}
  BY DEF Generate
<1>2. StartInv' /\ InputInv' /\ TurnsInv'
  BY <1>1 DEF StartInv, InputInv, TurnsInv, EvalInv
<1>3. CASE generated' = generated
  BY <1>1, <1>2, <1>3 DEF EvalInv, GeneratedInv, PacksInv
<1>4. CASE generated' # generated
  <2> DEFINE todo == TurnsOf(cur)
             turn == todo[Len(RepliesOf(cur)) + 1]
  <2>1. /\ Len(RepliesOf(cur)) < Len(todo)
        /\ Pack # NoPack /\ turn.level \in DOMAIN Pack.levels
        /\ \E r \in Replies : generated' = Append(generated, [turn |-> turn, reply |-> r])
    BY <1>4 DEF Generate
  <2>2. PICK g \in [turn : {turn}, reply : Replies] : generated' = Append(generated, g)
    BY <2>1
  <2>3. /\ g \in Generated(turns) /\ g.turn.pack = cur /\ g \notin ToSet(generated)
        /\ \A p \in Nat : InOrder(TurnsIn(turns, p), RepliesIn(Append(generated, g), p))
        /\ \A p : p # cur => RepliesIn(Append(generated, g), p) = RepliesIn(generated, p)
    <3>1. TurnsInv /\ GeneratedInv /\ PacksLeft # {}
      BY <1>1 DEF EvalInv
    <3>2. QED
      BY <2>1, <3>1, ReplyIsNext
  <2>4. g.turn = turn
    OBVIOUS
  <2> HIDE DEF todo, turn
  <2>5. Usable(g.turn, langpacks)
    BY <2>1, <2>3, <2>4 DEF Usable, Pack
  <2>6. /\ generated' \in Seq(Generated(turns)) /\ IsInjective(generated')
        /\ ToSet(generated') = ToSet(generated) \cup {g}
    <3>1. generated \in Seq(Generated(turns)) /\ IsInjective(generated)
      BY DEF EvalInv, GeneratedInv
    <3>2. Append(generated, g) \in Seq(Generated(turns))
      BY <2>3, <3>1, AppendProperties
    <3>3. IsInjective(Append(generated, g))
      BY <2>3, <3>1, InjectiveAppend
    <3>4. ToSet(Append(generated, g)) = ToSet(generated) \cup {g}
      BY <2>3, <3>1, ToSetAppend
    <3>5. QED
      BY <2>2, <3>2, <3>3, <3>4
  <2>7. GeneratedInv'
    <3>1. \A x \in ToSet(generated') : Usable(x.turn, langpacks)
      BY <2>5, <2>6 DEF EvalInv, GeneratedInv
    <3>2. QED
      BY <1>1, <2>2, <2>3, <2>6, <3>1 DEF GeneratedInv
  <2>8. PacksInv'
    <3>1. \A i \in DOMAIN packs : packs[i].pack # cur
      BY <1>1, CurrentIsLeft DEF EvalInv
    <3>2. ASSUME NEW i \in DOMAIN packs PROVE Settled(packs[i], turns, generated', langpacks)
      <4>1. RepliesIn(generated', packs[i].pack) = RepliesIn(generated, packs[i].pack)
        BY <2>2, <2>3, <3>1
      <4>2. Settled(packs[i], turns, generated, langpacks)
        BY DEF EvalInv, PacksInv
      <4>3. QED
        BY <4>1, <4>2 DEF Settled
    <3>3. QED
      BY <1>1, <3>2 DEF EvalInv, PacksInv
  <2>9. QED
    BY <1>2, <2>7, <2>8 DEF EvalInv
<1>5. QED
  BY <1>3, <1>4

LEMMA EvalPackKeeps == EvalInv /\ EvalPack => EvalInv'
<1> SUFFICES ASSUME EvalInv, EvalPack PROVE EvalInv'
  OBVIOUS
<1> DEFINE cur  == CurrentPack
           done == RepliesOf(cur)
           r == [pack |-> cur, nTurns |-> Len(TurnsOf(cur)),
                 metrics |-> Metrics(done, Pack), gatePassed |-> GatePasses(Metrics(done, Pack))]
<1>1. /\ langpacks' = langpacks /\ golden' = golden /\ turns' = turns
      /\ generated' = generated /\ phase' = phase
      /\ PacksLeft # {} /\ phase = "generating"
      /\ Len(done) = Len(TurnsOf(cur)) /\ packs' = Append(packs, r)
  BY DEF EvalPack
<1>2. StartInv' /\ InputInv' /\ TurnsInv' /\ GeneratedInv'
  BY <1>1 DEF StartInv, InputInv, TurnsInv, GeneratedInv, EvalInv
<1>3. /\ cur \in Nat /\ TurnsOf(cur) = TurnsIn(turns, cur) /\ TurnsOf(cur) # <<>>
      /\ done = RepliesIn(generated, cur)
  BY <1>1, CurrentIsLeft DEF EvalInv
<1>4. done \in Seq(Generated(turns)) /\ ToSet(done) = {x \in ToSet(generated) : x.turn.pack = cur}
  BY <1>3, RepliesInType DEF EvalInv, GeneratedInv
<1>5. done # <<>>
  <2>1. TurnsIn(turns, cur) \in Seq(ToSet(turns))
    BY TurnsInType DEF EvalInv, TurnsInv
  <2>2. Len(TurnsOf(cur)) # 0
    BY <1>3, <2>1
  <2>3. QED
    BY <1>1, <2>2
<1>6. Pack = LoadPack(langpacks[cur])
  <2>1. done[1] \in ToSet(done)
    BY <1>4, <1>5 DEF ToSet
  <2>2. Usable(done[1].turn, langpacks) /\ done[1].turn.pack = cur
    BY <1>4, <2>1 DEF EvalInv, GeneratedInv
  <2>3. cur \in DOMAIN langpacks
    BY <2>2 DEF Usable
  <2>4. QED
    BY <2>3 DEF Pack
<1>7. Settled(r, turns, generated, langpacks)
  <2>1. r.pack = cur /\ r.gatePassed = GatePasses(Metrics(done, Pack))
    OBVIOUS
  <2> HIDE DEF r, cur
  <2>2. QED
    BY <1>1, <1>3, <1>5, <1>6, <2>1 DEF Settled
<1> HIDE DEF r, cur, done
<1>8. PacksInv'
  <2> DEFINE S == ToSet(packs) \cup {r}
  <2>1. packs \in Seq(S)
    <3>1. packs \in Seq(ToSet(packs)) /\ ToSet(packs) \subseteq S
      BY DEF EvalInv, PacksInv
    <3> HIDE DEF S
    <3>2. QED
      BY <3>1
  <2>2. /\ packs' \in Seq(S) /\ ToSet(packs') = S
        /\ DOMAIN packs' = 1..(Len(packs) + 1) /\ DOMAIN packs = 1..Len(packs)
        /\ Len(packs) \in Nat
        /\ \A i \in 1..Len(packs) : packs'[i] = packs[i]
        /\ packs'[Len(packs) + 1] = r
    <3>1. r \in S /\ ToSet(packs) \cup {r} = ToSet(packs) \cup {r}
      OBVIOUS
    <3>2. packs \in Seq(ToSet(packs))
      BY DEF EvalInv, PacksInv
    <3> HIDE DEF S
    <3>3. ToSet(Append(packs, r)) = ToSet(packs) \cup {r}
      BY <2>1, <3>1, ToSetAppend
    <3>4. QED
      BY <1>1, <2>1, <3>1, <3>3 DEF S
  <2>3. ASSUME NEW i \in DOMAIN packs' PROVE Settled(packs'[i], turns, generated, langpacks)
    <3>1. i \in 1..Len(packs) \/ i = Len(packs) + 1
      BY <2>2
    <3>2. QED
      BY <1>7, <2>2, <3>1 DEF EvalInv, PacksInv
  <2>4. packs' \in Seq(ToSet(packs'))
    BY <2>2
  <2>5. QED
    BY <1>1, <2>3, <2>4 DEF PacksInv
<1>9. QED
  BY <1>2, <1>8 DEF EvalInv

LEMMA EvalNext == EvalInv /\ [Next]_vars => EvalInv'
<1> SUFFICES ASSUME EvalInv, [Next]_vars PROVE EvalInv'
  OBVIOUS
<1>1. CASE LoadGoldenSet
  BY <1>1, LoadKeeps
<1>2. CASE Generate
  BY <1>2, GenerateKeeps
<1>3. CASE EvalPack
  BY <1>3, EvalPackKeeps
<1>4. ASSUME UNCHANGED <<langpacks, golden, turns, generated, packs>>,
             phase' = "started" => phase = "started"
      PROVE  EvalInv'
  BY <1>4 DEF EvalInv, StartInv, InputInv, TurnsInv, GeneratedInv, PacksInv
<1>5. CASE ReplayTurns
  BY <1>4, <1>5 DEF ReplayTurns
<1>6. CASE Report
  BY <1>4, <1>6 DEF Report
<1>7. CASE Judge
  BY <1>4, <1>7 DEF Judge
<1>8. CASE UNCHANGED vars
  BY <1>4, <1>8 DEF vars
<1>9. QED
  BY <1>1, <1>2, <1>3, <1>5, <1>6, <1>7, <1>8 DEF Next

(* A rate against a limit of c ten-thousandths: what its rounding forgives *)
(* is half of one of them.                                                 *)
LEMMA RateAgainstLimit ==
  ASSUME NEW num \in Nat, NEW den \in Nat, den = 0 => num = 0, NEW c \in Nat
  PROVE  /\ Rate(num, den) <= c => 20000 * num <= 2 * (c * den) + den
         /\ 10000 * num <= c * den => Rate(num, den) <= c
<1>1. CASE den = 0
  <2>1. Rate(num, den) = 0 /\ num = 0 /\ c * den = 0
    BY <1>1 DEF Rate
  <2>2. QED
    BY <1>1, <2>1
<1>2. CASE den # 0
  <2> DEFINE r == RoundHalfEven(10000 * num, den)
             x == den * r
             y == c * den
  <2>1. /\ r \in Nat /\ 2 * x <= 2 * (10000 * num) + den
        /\ 2 * (10000 * num) <= 2 * x + den
    BY <1>2, RoundingError
  <2>2. Rate(num, den) = r
    BY <1>2 DEF Rate
  <2> HIDE DEF r
  <2>3. /\ x \in Nat /\ y \in Nat
        /\ r <= c => x <= y
        /\ r >= c + 1 => x >= y + den
    <3>1. ASSUME NEW a \in Nat, NEW b \in Nat, a <= b PROVE den * a <= den * b
      <4>1. PICK d \in Nat : b = a + d
        <5>1. b - a \in Nat /\ b = a + (b - a)
          BY <3>1
        <5>2. QED
          BY <5>1
      <4>2. den * b = den * a + den * d /\ den * d \in Nat /\ den * a \in Nat
        BY <4>1
      <4>3. QED
        BY <4>2
    <3>2. den * (c + 1) = y + den /\ den * c = y
      OBVIOUS
    <3>3. QED
      BY <2>1, <3>1, <3>2
  <2> HIDE DEF x, y
  <2>4. r <= c => 20000 * num <= 2 * y + den
    BY <2>1, <2>3
  <2>5. 10000 * num <= y => ~(r >= c + 1)
    BY <1>2, <2>1, <2>3
  <2>6. QED
    BY <2>1, <2>2, <2>4, <2>5 DEF y
<1>3. QED
  BY <1>1, <1>2

(* The first list is part of every level's ceiling.                        *)
LEMMA FirstListIsAllowed ==
  ASSUME NEW dir, LoadPack(dir) # NoPack, dir.levels \in Seq(ToSet(dir.levels)),
         NEW c \in DOMAIN LoadPack(dir).levels
  PROVE  dir.levels[1].words \subseteq LoadPack(dir).levels[c].vocabularyCeiling
<1> DEFINE files == dir.levels
           codes == [i \in DOMAIN files |-> files[i].code]
           K     == {i \in DOMAIN codes : codes[i] = c}
           last  == LastWith(codes, c)
<1>1. LoadPack(dir).levels = Levels(files)
  BY DEF LoadPack
<1>2. c \in ToSet(codes)
  BY <1>1 DEF Levels
<1>3. /\ K # {} /\ K \in SUBSET (0..Len(files)) /\ Len(files) \in Nat
      /\ DOMAIN files = 1..Len(files)
  BY <1>2 DEF ToSet
<1>4. last \in K
  BY <1>3, MaxIsGreatest DEF LastWith
<1>5. last \in 1..Len(files)
  BY <1>3, <1>4
<1> HIDE DEF K, last, files
<1>6. 1 \in 1..last
  BY <1>3, <1>5
<1>7. files[1].words \subseteq CeilingUpTo(files, last)
  BY <1>6 DEF CeilingUpTo
<1>8. Levels(files)[c].vocabularyCeiling = CeilingUpTo(files, last)
  BY <1>2 DEF Levels, last
<1>9. QED
  BY <1>1, <1>7, <1>8 DEF files

(* So that what a reply is charged with does not change when the words of  *)
(* the first list are taken out of it.                                     *)
LEMMA BeyondIsTheCount ==
  ASSUME InputInv, NEW g, Usable(g.turn, langpacks)
  PROVE  Beyond(g) = ViolationCount(g.reply, LevelOf(LoadPack(langpacks[g.turn.pack]), g))
<1> DEFINE dir   == langpacks[g.turn.pack]
           first == dir.levels[1].words
           level == LoadPack(dir).levels[g.turn.level]
           cut   == [w \in DOMAIN g.reply \ first |-> g.reply[w]]
<1>1. first \subseteq level.vocabularyCeiling
  <2>1. g.turn.pack \in DOMAIN langpacks /\ LoadPack(dir) # NoPack
        /\ g.turn.level \in DOMAIN LoadPack(dir).levels
    BY DEF Usable
  <2>2. dir.levels \in Seq(ToSet(dir.levels))
    BY <2>1, EvaluationAssumption DEF EvaluationAssumption, InputInv
  <2>3. QED
    BY <2>1, <2>2, FirstListIsAllowed
<1>2. Beyond(g) = ViolationCount(cut, level)
  BY DEF Beyond
<1>3. LevelOf(LoadPack(dir), g) = level
  BY DEF LevelOf
<1> HIDE DEF first, level
<1>4. [w \in DOMAIN cut \ level.vocabularyCeiling |-> cut[w]]
        = [w \in DOMAIN g.reply \ level.vocabularyCeiling |-> g.reply[w]]
  BY <1>1
<1>5. ViolationCount(cut, level) = ViolationCount(g.reply, level)
  BY <1>4 DEF ViolationCount
<1>6. QED
  BY <1>2, <1>3, <1>5

LEMMA ReplyCounts ==
  ASSUME NEW reply \in Replies, NEW level
  PROVE  /\ Tokens(reply) \in Nat /\ ViolationCount(reply, level) \in Nat
         /\ Tokens(reply) = 0 => ViolationCount(reply, level) = 0
<1> DEFINE over == [w \in DOMAIN reply \ level.vocabularyCeiling |-> reply[w]]
<1>1. IsFiniteSet(DOMAIN reply) /\ \A w \in DOMAIN reply : reply[w] \in Nat
  BY EvaluationAssumption DEF EvaluationAssumption
<1>2. IsFiniteSet(DOMAIN over) /\ \A w \in DOMAIN over : over[w] \in Nat
  <2>1. DOMAIN over \subseteq DOMAIN reply
    OBVIOUS
  <2>2. QED
    BY <1>1, <2>1, FS_Subset
<1>3. /\ Total(reply) \in Nat
      /\ Total(reply) = 0 => \A w \in DOMAIN reply : reply[w] = 0
  BY <1>1, TotalOfNaturals
<1>4. /\ Total(over) \in Nat
      /\ (\A w \in DOMAIN over : over[w] = 0) => Total(over) = 0
  BY <1>2, TotalOfNaturals
<1>5. (\A w \in DOMAIN reply : reply[w] = 0) => \A w \in DOMAIN over : over[w] = 0
  OBVIOUS
<1> HIDE DEF over
<1>6. QED
  BY <1>3, <1>4, <1>5 DEF Tokens, ViolationCount, over

(* The measures of a pack's replies, as naturals.                          *)
TokensIn(gens) == Total([k \in DOMAIN gens |-> Tokens(gens[k].reply)])

ViolationsIn(gens, pack) ==
  Total([k \in DOMAIN gens |-> ViolationCount(gens[k].reply, LevelOf(pack, gens[k]))])

LeaksIn(gens, pack) == Cardinality({k \in DOMAIN gens : Leaked(pack, gens[k])})

LEMMA PackCounts ==
  ASSUME NEW ts, NEW gens \in Seq(Generated(ts)), gens # <<>>, NEW pack
  PROVE  /\ TokensIn(gens) \in Nat /\ ViolationsIn(gens, pack) \in Nat
         /\ LeaksIn(gens, pack) \in Nat
         /\ TokensIn(gens) = 0 => ViolationsIn(gens, pack) = 0
         /\ Len(gens) \in Nat \ {0}
<1> DEFINE t == [k \in DOMAIN gens |-> Tokens(gens[k].reply)]
           v == [k \in DOMAIN gens |-> ViolationCount(gens[k].reply, LevelOf(pack, gens[k]))]
           L == {k \in DOMAIN gens : Leaked(pack, gens[k])}
<1>1. DOMAIN gens = 1..Len(gens) /\ Len(gens) \in Nat \ {0}
      /\ \A k \in DOMAIN gens : gens[k] \in Generated(ts)
  OBVIOUS
<1>2. \A k \in DOMAIN gens : gens[k].reply \in Replies
  BY <1>1 DEF Generated
<1>3. /\ IsFiniteSet(DOMAIN gens)
      /\ IsFiniteSet(L) /\ Cardinality(L) \in Nat
  BY <1>1, Counted
<1>4. /\ DOMAIN t = DOMAIN gens /\ DOMAIN v = DOMAIN gens
      /\ \A k \in DOMAIN gens : /\ t[k] \in Nat /\ v[k] \in Nat
                                /\ t[k] = 0 => v[k] = 0
  BY <1>2, ReplyCounts
<1> HIDE DEF t, v, L
<1>5. /\ Total(t) \in Nat /\ Total(v) \in Nat
      /\ Total(t) = 0 => \A k \in DOMAIN gens : t[k] = 0
      /\ (\A k \in DOMAIN gens : v[k] = 0) => Total(v) = 0
  BY <1>3, <1>4, TotalOfNaturals
<1>6. Total(t) = 0 => Total(v) = 0
  BY <1>4, <1>5
<1>7. QED
  BY <1>1, <1>3, <1>5, <1>6 DEF TokensIn, ViolationsIn, LeaksIn, t, v, L

(* A pack that is reported, and what its gate says.                        *)
LEMMA SettledIsWithinLimits ==
  ASSUME EvalInv, NEW r, Settled(r, turns, generated, langpacks)
  PROVE  WithinLimits(r)
<1> DEFINE p    == r.pack
           gens == RepliesIn(generated, p)
           ts   == TurnsIn(turns, p)
           pack == LoadPack(langpacks[p])
           tokens   == TokensIn(gens)
           violated == ViolationsIn(gens, pack)
           leaks    == LeaksIn(gens, pack)
<1>1. RepliesOf(p) = gens /\ TurnsOf(p) = ts
  BY DEF RepliesOf, RepliesIn, TurnsOf, TurnsIn
<1>2. /\ p \in Nat /\ Len(gens) = Len(ts) /\ gens # <<>>
      /\ r.gatePassed = GatePasses(Metrics(gens, pack))
  BY DEF Settled
<1>3. /\ gens \in Seq(Generated(turns))
      /\ ToSet(gens) = {g \in ToSet(generated) : g.turn.pack = p}
      /\ InOrder(ts, gens)
  <2>1. generated \in Seq(Generated(turns)) /\ InOrder(ts, gens)
    BY <1>2 DEF EvalInv, GeneratedInv
  <2>2. QED
    BY <2>1, RepliesInType
<1>4. ts \in Seq(ToSet(turns))
  BY TurnsInType DEF EvalInv, TurnsInv
<1>5. [k \in DOMAIN gens |-> gens[k].turn] = ts
  <2>1. /\ DOMAIN gens = 1..Len(gens) /\ DOMAIN ts = 1..Len(ts)
        /\ ts = [k \in 1..Len(ts) |-> ts[k]]
    BY <1>3, <1>4
  <2> HIDE DEF gens, ts
  <2>2. QED
    BY <1>2, <1>3, <2>1 DEF InOrder
<1>6. ASSUME NEW k \in DOMAIN gens
      PROVE  Beyond(gens[k]) = ViolationCount(gens[k].reply, LevelOf(pack, gens[k]))
  <2>1. gens[k] \in ToSet(gens)
    BY DEF ToSet
  <2>2. Usable(gens[k].turn, langpacks) /\ gens[k].turn.pack = p
    BY <1>3, <2>1 DEF EvalInv, GeneratedInv
  <2>3. QED
    BY <2>2, BeyondIsTheCount DEF EvalInv
<1>7. Total([k \in DOMAIN gens |-> Beyond(gens[k])]) = violated
  <2>1. [k \in DOMAIN gens |-> Beyond(gens[k])]
          = [k \in DOMAIN gens |-> ViolationCount(gens[k].reply, LevelOf(pack, gens[k]))]
    BY <1>6
  <2>2. QED
    BY <2>1 DEF ViolationsIn
<1> HIDE DEF gens, ts, p, pack
<1>8. /\ tokens \in Nat /\ violated \in Nat /\ leaks \in Nat
      /\ tokens = 0 => violated = 0
      /\ Len(gens) \in Nat \ {0}
  BY <1>2, <1>3, PackCounts
<1>9. r.gatePassed <=> Rate(violated, tokens) <= 500 /\ Rate(leaks, Len(gens)) <= 200
  BY <1>2 DEF GatePasses, Metrics, Sum, Count, TokensIn, ViolationsIn, LeaksIn
<1>10. WithinLimits(r) <=>
         /\ r.gatePassed => 20000 * violated <= 1001 * tokens /\ 20000 * leaks <= 401 * Len(gens)
         /\ (violated * 20 <= tokens /\ leaks * 50 <= Len(gens)) => r.gatePassed
  BY <1>1, <1>5, <1>7 DEF WithinLimits, Sum, Count, TokensIn, LeaksIn, p, pack
<1> HIDE DEF tokens, violated, leaks
<1>11. /\ Rate(violated, tokens) <= 500 => 20000 * violated <= 2 * (500 * tokens) + tokens
       /\ 10000 * violated <= 500 * tokens => Rate(violated, tokens) <= 500
  BY <1>8, RateAgainstLimit
<1>12. /\ Rate(leaks, Len(gens)) <= 200 => 20000 * leaks <= 2 * (200 * Len(gens)) + Len(gens)
       /\ 10000 * leaks <= 200 * Len(gens) => Rate(leaks, Len(gens)) <= 200
  BY <1>8, RateAgainstLimit
<1>13. QED
  BY <1>8, <1>9, <1>10, <1>11, <1>12

(* What a green gate of a pack lets through. *)
THEOREM GreenIsWithinLimits == Spec => []GreenMeansWithinLimits
<1>1. EvalInv => GreenMeansWithinLimits
  <2> SUFFICES ASSUME EvalInv PROVE GreenMeansWithinLimits
    OBVIOUS
  <2>1. ASSUME NEW i \in DOMAIN packs PROVE WithinLimits(packs[i])
    BY SettledIsWithinLimits DEF EvalInv, PacksInv
  <2>2. QED
    BY <2>1 DEF GreenMeansWithinLimits, EvalInv, GeneratedInv
<1>2. QED
  BY EvalInit, EvalNext, <1>1, PTL DEF Spec

-----------------------------------------------------------------------------
(* The judge: what was scored is what an answer was cut to. *)
JudgedInv ==
  /\ phase = "started" => answers = <<>> /\ judged = <<>>
  /\ IsFiniteSet(DOMAIN answers) /\ DOMAIN judged = DOMAIN answers
  /\ \A t \in DOMAIN answers :
       /\ Parsable(answers[t]) /\ judged[t] = Scores(answers[t])
       /\ \A d \in DOMAIN answers[t] : answers[t][d] \in Int

LEMMA JudgedInit == Init => JudgedInv
<1> SUFFICES ASSUME Init PROVE JudgedInv
  OBVIOUS
<1>1. answers = <<>> /\ judged = <<>> /\ DOMAIN answers = {}
  BY DEF Init
<1>2. QED
  BY <1>1, FS_EmptySet DEF JudgedInv

LEMMA JudgedNext == JudgedInv /\ [Next]_vars => JudgedInv'
<1> SUFFICES ASSUME JudgedInv, [Next]_vars PROVE JudgedInv'
  OBVIOUS
<1>1. CASE Judge
  <2>1. CASE UNCHANGED <<answers, judged>>
    BY <1>1, <2>1 DEF Judge, JudgedInv
  <2>2. CASE ~UNCHANGED <<answers, judged>>
    <3>1. PICK id \in {turns[i].id : i \in DOMAIN turns}, raw \in JudgeAnswers :
            /\ Parsable(raw)
            /\ answers' = With(answers, id, raw) /\ judged' = With(judged, id, Scores(raw))
            /\ id \notin DOMAIN judged
      BY <1>1, <2>2 DEF Judge
    <3>2. /\ DOMAIN answers' = DOMAIN answers \cup {id}
          /\ DOMAIN judged' = DOMAIN judged \cup {id}
          /\ \A t \in DOMAIN answers : answers'[t] = answers[t] /\ judged'[t] = judged[t]
          /\ answers'[id] = raw /\ judged'[id] = Scores(raw)
      BY <3>1 DEF With, JudgedInv
    <3>3. IsFiniteSet(DOMAIN answers')
      BY <3>2, FS_AddElement DEF JudgedInv
    <3>4. \A d \in DOMAIN raw : raw[d] \in Int
      BY EvaluationAssumption DEF EvaluationAssumption
    <3>5. phase' # "started"
      BY <1>1, <2>2 DEF Judge
    <3>6. QED
      BY <3>1, <3>2, <3>3, <3>4, <3>5 DEF JudgedInv
  <2>3. QED
    BY <2>1, <2>2
<1>2. ASSUME UNCHANGED <<answers, judged>>, phase' = "started" => phase = "started"
      PROVE  JudgedInv'
  BY <1>2 DEF JudgedInv
<1>3. CASE LoadGoldenSet
  BY <1>2, <1>3 DEF LoadGoldenSet
<1>4. CASE Generate
  BY <1>2, <1>4 DEF Generate
<1>5. CASE EvalPack
  BY <1>2, <1>5 DEF EvalPack
<1>6. CASE ReplayTurns
  BY <1>2, <1>6 DEF ReplayTurns
<1>7. CASE Report
  BY <1>2, <1>7 DEF Report
<1>8. CASE UNCHANGED vars
  BY <1>2, <1>8 DEF vars
<1>9. QED
  BY <1>1, <1>3, <1>4, <1>5, <1>6, <1>7, <1>8 DEF Next

(* Where n divides Scale, dividing by it is exact.                         *)
LEMMA ScaleDivides ==
  ASSUME NEW n \in Nat \ {0}, Scales(n)
  PROVE  Scale \div n \in Nat \ {0} /\ n * (Scale \div n) = Scale
<1>1. Scale \in Nat \ {0}
  BY DimensionsAssumption DEF DimensionsAssumption
<1>2. PICK q \in 1..Scale : n * q = Scale
  BY DEF Scales
<1> DEFINE d == Scale \div n
           r == Scale % n
<1>3. d \in Nat /\ r \in Nat /\ r < n /\ Scale = n * d + r
  BY <1>1
<1>4. q \in Nat \ {0}
  BY <1>1, <1>2
<1> HIDE DEF d, r
<1>5. q <= d
  <2> SUFFICES ASSUME d + 1 <= q PROVE FALSE
    BY <1>3, <1>4
  <2>1. PICK e \in Nat : q = d + 1 + e
    <3>1. q - (d + 1) \in Nat /\ q = d + 1 + (q - (d + 1))
      BY <1>3, <1>4
    <3>2. QED
      BY <3>1
  <2>2. n * q = n * d + n + n * e /\ n * e \in Nat /\ n * d \in Nat
    BY <1>3, <2>1
  <2>3. QED
    BY <1>2, <1>3, <2>2
<1>6. d <= q
  <2> SUFFICES ASSUME q + 1 <= d PROVE FALSE
    BY <1>3, <1>4
  <2>1. PICK e \in Nat : d = q + 1 + e
    <3>1. d - (q + 1) \in Nat /\ d = q + 1 + (d - (q + 1))
      BY <1>3, <1>4
    <3>2. QED
      BY <3>1
  <2>2. n * d = n * q + n + n * e /\ n * e \in Nat /\ n * q \in Nat
    BY <1>4, <2>1
  <2>3. QED
    BY <1>2, <1>3, <2>2
<1>7. d = q
  BY <1>3, <1>4, <1>5, <1>6
<1>8. QED
  BY <1>2, <1>4, <1>7 DEF d

(* A composite is a sum of marks, scaled up.                               *)
LEMMA CompositeType ==
  ASSUME NEW f, Marks(f)
  PROVE  Composite(f) \in Nat
<1>1. Total(f) \in Nat
  BY TotalOfNaturals DEF Marks
<1> DEFINE c == Cardinality(DOMAIN f)
           q == Scale \div c
<1>2. ASSUME DOMAIN f # {} PROVE c \in Nat \ {0} /\ Scales(c)
  BY <1>2, FS_CardinalityType, FS_EmptySet DEF Marks
<1>3. DOMAIN f # {} => q \in Nat
  BY <1>2, ScaleDivides
<1>4. Composite(f) = IF DOMAIN f = {} THEN 0 ELSE Total(f) * q
  BY DEF Composite
<1> HIDE DEF q
<1>5. DOMAIN f # {} => Total(f) * q \in Nat
  BY <1>1, <1>3
<1>6. CASE DOMAIN f = {}
  BY <1>4, <1>6
<1>7. CASE DOMAIN f # {}
  BY <1>4, <1>5, <1>7, Zenon
<1>8. QED
  BY <1>6, <1>7

(* It is the average of the marks, in parts of 1/Scale and exactly: for    *)
(* any rubric and any labels of it.  RubricScore.composite and the human   *)
(* composite of validate.                                                  *)
LEMMA CompositeIsTheAverage ==
  ASSUME NEW f, Marks(f), DOMAIN f # {}
  PROVE  Cardinality(DOMAIN f) * Composite(f) = Scale * Total(f)
<1> DEFINE c == Cardinality(DOMAIN f)
           q == Scale \div c
           t == Total(f)
<1>1. t \in Nat
  BY TotalOfNaturals DEF Marks
<1>2. c \in Nat \ {0} /\ Scales(c)
  BY FS_CardinalityType, FS_EmptySet DEF Marks
<1>3. q \in Nat /\ c * q = Scale
  BY <1>2, ScaleDivides
<1>4. Composite(f) = t * q
  BY DEF Composite
<1> HIDE DEF c, q, t
<1>5. c * (t * q) = (c * q) * t
  BY <1>1, <1>2, <1>3
<1>6. c * Composite(f) = Scale * t
  BY <1>3, <1>4, <1>5
<1>7. QED
  BY <1>6 DEF c, t

(* Cutting off a fraction does not raise a mark.                           *)
LEMMA TruncatedIsBelow ==
  ASSUME NEW n \in Int, Truncated(n) \in 0..4
  PROVE  /\ Truncated(n) >= 3 => n >= 30
         /\ n >= 0 => 10 * Truncated(n) <= n
BY DEF Truncated

LEMMA ScoresAreMarks ==
  ASSUME NEW raw, Parsable(raw)
  PROVE  /\ DOMAIN Scores(raw) = Dimensions /\ Marks(Scores(raw))
         /\ \A d \in Dimensions : Scores(raw)[d] = Truncated(raw[d]) /\ Truncated(raw[d]) \in 0..4
BY DimensionsAssumption DEF Parsable, Scores, Marks, DimensionsAssumption

(* All raw marks are at least 3 if all that is left of them is.            *)
LEMMA LowestIsHigh ==
  ASSUME JudgedInv, JudgeGatesPass(judged), NEW t \in DOMAIN answers, NEW d \in Dimensions
  PROVE  /\ answers[t][d] \in Int /\ judged[t][d] \in Nat
         /\ answers[t][d] >= 30 /\ 10 * judged[t][d] <= answers[t][d]
<1> DEFINE K == {judged[t][e] : e \in Dimensions}
<1>1. /\ Parsable(answers[t]) /\ judged[t] = Scores(answers[t])
      /\ t \in DOMAIN judged
  BY DEF JudgedInv
<1>2. \A e \in Dimensions : judged[t][e] = Truncated(answers[t][e]) /\ judged[t][e] \in 0..4
  BY <1>1, ScoresAreMarks
<1>3. answers[t][d] \in Int
  BY <1>1 DEF JudgedInv, Parsable
<1>4. K \in SUBSET Nat /\ judged[t][d] \in K
  BY <1>2
<1>5. 10 * Min(K) >= 28
  BY <1>1 DEF JudgeGatesPass, LowestScore
<1> HIDE DEF K
<1>6. Min(K) \in Nat /\ Min(K) <= judged[t][d]
  <2>1. Min(K) \in K /\ \A x \in K : Min(K) <= x
    BY <1>4, MinIsLeast
  <2>2. QED
    BY <1>4, <2>1
<1>7. judged[t][d] \in 0..4 /\ judged[t][d] >= 3
  BY <1>2, <1>5, <1>6
<1>8. QED
  BY <1>2, <1>3, <1>7, TruncatedIsBelow

LEMMA JudgeGateIsEarned == JudgedInv => HighMarksAreEarned
<1> SUFFICES ASSUME JudgedInv, JudgeGatesPass(judged) PROVE HighMarksAreEarned
  BY DEF HighMarksAreEarned
<1> DEFINE S(t) == Total(judged[t])
           R == [t \in DOMAIN answers |-> Total([d \in Dimensions |-> answers[t][d]])]
           C == [t \in DOMAIN judged |-> Composite(judged[t])]
           D == Cardinality(Dimensions)
           N == Cardinality(DOMAIN answers)
           q == Scale \div D
<1>1. D \in Nat \ {0} /\ IsFiniteSet(Dimensions) /\ Dimensions # {} /\ Scale \in Nat \ {0}
      /\ q \in Nat \ {0} /\ D * q = Scale
  <2>1. /\ IsFiniteSet(Dimensions) /\ Dimensions # {} /\ Scale \in Nat \ {0}
        /\ Scales(D)
    BY DimensionsAssumption DEF DimensionsAssumption
  <2>2. D \in Nat \ {0}
    BY <2>1, FS_CardinalityType, FS_EmptySet
  <2> HIDE DEF D
  <2>3. Scale \div D \in Nat \ {0} /\ D * (Scale \div D) = Scale
    BY <2>1, <2>2, ScaleDivides
  <2>4. QED
    BY <2>1, <2>2, <2>3 DEF q
<1>2. DOMAIN C = DOMAIN answers /\ DOMAIN R = DOMAIN C /\ IsFiniteSet(DOMAIN answers) /\ N \in Nat
      /\ DOMAIN judged = DOMAIN answers
  BY FS_CardinalityType DEF JudgedInv
<1>3. ASSUME NEW t \in DOMAIN answers
      PROVE  /\ R[t] \in Int /\ S(t) \in Int /\ 10 * S(t) <= R[t]
             /\ C[t] = S(t) * q
  <2> DEFINE raw == [d \in Dimensions |-> answers[t][d]]
  <2>1. DOMAIN judged[t] = Dimensions
    BY ScoresAreMarks DEF JudgedInv
  <2>2. \A d \in Dimensions : judged[t][d] \in Int /\ raw[d] \in Int /\ 10 * judged[t][d] <= 1 * raw[d]
    BY LowestIsHigh
  <2>3. DOMAIN raw = Dimensions
    OBVIOUS
  <2>4. R[t] = Total(raw)
    OBVIOUS
  <2> HIDE DEF raw, R
  <2>5. Total(judged[t]) \in Int /\ Total(raw) \in Int /\ 10 * Total(judged[t]) <= 1 * Total(raw)
    <3> DEFINE f == judged[t]
    <3>1. DOMAIN f = Dimensions /\ \A d \in DOMAIN f : f[d] \in Int /\ raw[d] \in Int /\ 10 * f[d] <= 1 * raw[d]
      BY <2>1, <2>2
    <3> HIDE DEF f
    <3>2. /\ DOMAIN raw = DOMAIN f /\ IsFiniteSet(DOMAIN f) /\ 10 \in Int /\ 1 \in Int
      BY <1>1, <2>3, <3>1
    <3> HIDE DEF D, S, C, N
    <3>3. Total(f) \in Int /\ Total(raw) \in Int /\ 10 * Total(f) <= 1 * Total(raw)
      BY <3>1, <3>2, TotalScales
    <3>4. QED
      BY <3>3 DEF f
  <2>6. C[t] = S(t) * q
    BY <1>1, <1>2, <2>1 DEF Composite
  <2>7. QED
    BY <2>4, <2>5, <2>6
<1>4. 10 * Total(C) >= 32 * Scale * N
  BY <1>2 DEF JudgeGatesPass
<1> HIDE DEF R, C, S, N, D, q
<1>5. \A t \in DOMAIN C : C[t] \in Int /\ R[t] \in Int /\ 10 * C[t] <= q * R[t]
  <2> TAKE t \in DOMAIN C
  <2> DEFINE u == S(t)
             v == R[t]
  <2>1. /\ v \in Int /\ u \in Int /\ 10 * u <= v
        /\ C[t] = u * q
    BY <1>2, <1>3
  <2> HIDE DEF u, v
  <2>2. PICK e \in Nat : v = 10 * u + e
    <3>1. v - 10 * u \in Nat /\ v = 10 * u + (v - 10 * u)
      BY <2>1
    <3>2. QED
      BY <3>1
  <2>3. q * v = 10 * (u * q) + q * e /\ q * e \in Nat /\ u * q \in Int
    BY <1>1, <2>1, <2>2
  <2>4. 10 * (u * q) <= q * v
    BY <2>3
  <2>5. QED
    BY <2>1, <2>3, <2>4 DEF v
<1>6. /\ Total(C) \in Int /\ Total(R) \in Int
      /\ 10 * Total(C) <= q * Total(R)
  <2>1. 10 \in Int /\ q \in Int
    BY <1>1
  <2>2. DOMAIN R = DOMAIN C /\ IsFiniteSet(DOMAIN C)
    BY <1>2
  <2>3. QED
    BY <1>5, <2>1, <2>2, TotalScales
<1>7. Total(R) >= 32 * D * N
  <2> DEFINE x == Total(R)
             y == 32 * D * N
  <2>1. x \in Int /\ y \in Int
    BY <1>1, <1>2, <1>6
  <2>2. 32 * Scale * N = q * y
    <3>1. 32 * (D * q) * N = q * (32 * D * N)
      BY <1>1, <1>2
    <3>2. QED
      BY <1>1, <3>1
  <2>3. q * y <= q * x
    <3>1. q * y \in Int /\ q * x \in Int /\ 10 * Total(C) \in Int
      BY <1>1, <1>6, <2>1
    <3>2. QED
      BY <1>4, <1>6, <2>2, <3>1
  <2> HIDE DEF x, y
  <2>4. ASSUME x + 1 <= y PROVE FALSE
    <3>1. PICK e \in Nat : y = x + 1 + e
      <4>1. y - (x + 1) \in Nat /\ y = x + 1 + (y - (x + 1))
        BY <2>1, <2>4
      <4>2. QED
        BY <4>1
    <3>2. q * y = q * x + q + q * e /\ q * e \in Nat /\ q * x \in Int
      BY <1>1, <2>1, <3>1
    <3>3. QED
      BY <1>1, <2>3, <3>2
  <2>5. QED
    BY <2>1, <2>4 DEF x, y
<1>8. \A t \in DOMAIN answers : \A d \in Dimensions : answers[t][d] >= 30
  BY LowestIsHigh
<1>9. QED
  BY <1>7, <1>8 DEF HighMarksAreEarned, R, D, N

-----------------------------------------------------------------------------
(* Agreement with the humans. *)

(* Two series that are in the same order, ties and all. *)
SameOrder(a, b) ==
  /\ Len(a) = Len(b)
  /\ \A i, j \in 1..Len(a) : /\ a[i] < a[j] => b[i] < b[j]
                             /\ a[i] = a[j] => b[i] = b[j]

(* They have the same ranks. *)
LEMMA SameRanks ==
  ASSUME NEW a \in Seq(Nat), NEW b \in Seq(Nat), SameOrder(a, b)
  PROVE  Ranks(a) = Ranks(b)
<1>1. /\ DOMAIN a = 1..Len(a) /\ DOMAIN b = 1..Len(a)
      /\ \A i \in 1..Len(a) : a[i] \in Nat /\ b[i] \in Nat
  BY DEF SameOrder
<1>2. ASSUME NEW i \in 1..Len(a), NEW j \in 1..Len(a)
      PROVE  (a[j] < a[i] <=> b[j] < b[i]) /\ (a[j] <= a[i] <=> b[j] <= b[i])
  <2>1. /\ a[i] \in Nat /\ a[j] \in Nat /\ b[i] \in Nat /\ b[j] \in Nat
        /\ a[i] < a[j] => b[i] < b[j]
        /\ a[j] < a[i] => b[j] < b[i]
        /\ a[i] = a[j] => b[i] = b[j]
    BY <1>1 DEF SameOrder
  <2> DEFINE u == a[i]
             v == a[j]
             x == b[i]
             y == b[j]
  <2> HIDE DEF u, v, x, y
  <2>2. /\ u \in Nat /\ v \in Nat /\ x \in Nat /\ y \in Nat
        /\ (u < v => x < y) /\ (v < u => y < x) /\ (u = v => x = y)
    BY <2>1 DEF u, v, x, y
  <2>3. (v < u <=> y < x) /\ (v <= u <=> y <= x)
    BY <2>2
  <2>4. QED
    BY <2>3 DEF u, v, x, y
<1>3. ASSUME NEW i \in 1..Len(a)
      PROVE  Below(a, a[i]) = Below(b, b[i]) /\ AtMost(a, a[i]) = AtMost(b, b[i])
  <2>1. {j \in DOMAIN a : a[j] < a[i]} = {j \in DOMAIN b : b[j] < b[i]}
    BY <1>1, <1>2
  <2>2. {j \in DOMAIN a : a[j] <= a[i]} = {j \in DOMAIN b : b[j] <= b[i]}
    BY <1>1, <1>2
  <2>3. QED
    BY <2>1, <2>2 DEF Below, AtMost
<1>4. QED
  BY <1>1, <1>3 DEF Ranks

(* A greater value has a greater rank. *)
LEMMA RanksFollowValues ==
  ASSUME NEW a \in Seq(Nat), NEW i \in 1..Len(a), NEW j \in 1..Len(a), a[i] < a[j]
  PROVE  /\ Ranks(a)[i] \in Nat /\ Ranks(a)[j] \in Nat
         /\ Ranks(a)[i] < Ranks(a)[j]
<1>1. DOMAIN a = 1..Len(a) /\ Len(a) \in Nat /\ a[i] \in Nat /\ a[j] \in Nat
  OBVIOUS
<1> DEFINE v == a[i]
           w == a[j]
<1>2. /\ Ranks(a)[i] = Below(a, v) + 1 + AtMost(a, v)
      /\ Ranks(a)[j] = Below(a, w) + 1 + AtMost(a, w)
  BY <1>1 DEF Ranks
<1>3. Below(a, v) < AtMost(a, v)
  <2> DEFINE B == {k \in 1..Len(a) : a[k] < v}
             A == {k \in 1..Len(a) : a[k] <= v}
  <2>1. /\ \A k \in 1..Len(a) : a[k] \in Nat
        /\ Below(a, v) = Cardinality(B) /\ AtMost(a, v) = Cardinality(A)
    BY <1>1 DEF Below, AtMost
  <2>2. B \in SUBSET A /\ B \in SUBSET (A \ {i}) /\ i \in A /\ A \in SUBSET (1..Len(a))
    BY <1>1, <2>1
  <2> HIDE DEF A, B
  <2>3. IsFiniteSet(A) /\ Cardinality(A) \in Nat
    BY <1>1, <2>2, Counted
  <2>4. IsFiniteSet(A \ {i}) /\ Cardinality(A \ {i}) = Cardinality(A) - 1
    BY <2>2, <2>3, FS_RemoveElement
  <2>5. Cardinality(B) <= Cardinality(A \ {i})
    BY <2>2, <2>4, FS_Subset
  <2>6. Cardinality(B) \in Nat
    BY <1>1, <2>2, Counted
  <2>7. QED
    BY <2>1, <2>3, <2>4, <2>5, <2>6
<1> HIDE DEF v, w
<1>4. v \in Nat /\ w \in Nat /\ v < w /\ v <= w
  BY <1>1 DEF v, w
<1>5. /\ Below(a, v) \in Nat /\ AtMost(a, v) \in Nat
      /\ Below(a, w) \in Nat /\ AtMost(a, w) \in Nat
      /\ AtMost(a, v) <= Below(a, w) /\ AtMost(a, v) <= AtMost(a, w)
  BY <1>4, Counts
<1>6. QED
  BY <1>2, <1>3, <1>5

(* A series that is not constant varies, and is in full agreement with     *)
(* itself.                                                                 *)
LEMMA SameRanksReachTarget ==
  ASSUME NEW a \in Seq(Nat), NEW b \in Seq(Nat), SameOrder(a, b),
         NEW i \in 1..Len(a), NEW j \in 1..Len(a), a[i] < a[j]
  PROVE  ReachesTarget(a, b)
<1> DEFINE n == Len(a)
           r == Ranks(a)
           d == Deviations(r)
           q == [k \in DOMAIN d |-> d[k] * d[k]]
           c == Covariance(d, d)
<1>1. n \in Nat /\ DOMAIN a = 1..n /\ IsFiniteSet(1..n) /\ i \in 1..n /\ j \in 1..n
  BY FS_Interval
<1>2. i # j /\ n >= 2
  <2>1. a[i] \in Nat
    OBVIOUS
  <2>2. i # j
    BY <2>1
  <2>3. QED
    BY <1>1, <2>2
<1>3. /\ DOMAIN r = 1..n
      /\ \A k \in 1..n : r[k] \in Nat
      /\ r[i] < r[j] /\ r[i] \in Nat /\ r[j] \in Nat
  <2>1. ASSUME NEW k \in 1..n PROVE r[k] \in Nat
    <3>1. r[k] = Below(a, a[k]) + 1 + AtMost(a, a[k]) /\ a[k] \in Nat
      BY <1>1 DEF Ranks
    <3>2. Below(a, a[k]) \in Nat /\ AtMost(a, a[k]) \in Nat
      BY <3>1, Counts
    <3>3. QED
      BY <3>1, <3>2
  <2>2. DOMAIN r = 1..n
    BY <1>1 DEF Ranks
  <2> HIDE DEF n
  <2>3. QED
    BY <2>1, <2>2, RanksFollowValues DEF n
<1> HIDE DEF r
<1>4. r \in Seq(Nat) /\ Len(r) = n
  <2>1. r = [k \in 1..n |-> r[k]]
    BY <1>3 DEF r, Ranks
  <2>2. QED
    BY <1>1, <1>3, <2>1, FunctionIsSeq
<1> HIDE DEF n
<1>5. Total(r) \in Nat
  BY <1>1, <1>3, TotalOfNaturals
<1>6. /\ DOMAIN d = 1..n
      /\ \A k \in 1..n : d[k] = r[k] * n - Total(r) /\ d[k] \in Int
  BY <1>1, <1>3, <1>4, <1>5 DEF Deviations
<1>7. d[i] # d[j]
  <2> DEFINE x == r[i]
             y == r[j]
             t == Total(r)
  <2>1. x \in Nat /\ y \in Nat /\ x < y /\ t \in Nat /\ n \in Nat /\ n >= 2
    BY <1>1, <1>2, <1>3, <1>5
  <2>2. d[i] = x * n - t /\ d[j] = y * n - t
    BY <1>1, <1>6
  <2> HIDE DEF x, y, t, d
  <2>3. PICK e \in Nat : y = x + 1 + e
    <3>1. y - x - 1 \in Nat /\ y = x + 1 + (y - x - 1)
      BY <2>1
    <3>2. QED
      BY <3>1
  <2>4. y * n = x * n + n + e * n /\ e * n \in Nat /\ x * n \in Nat
    BY <2>1, <2>3
  <2>5. QED
    BY <2>1, <2>2, <2>4
<1> HIDE DEF d
<1>8. /\ DOMAIN q = 1..n /\ \A k \in 1..n : q[k] \in Nat /\ (q[k] = 0 => d[k] = 0)
  <2>1. ASSUME NEW z \in Int PROVE z * z \in Nat /\ (z * z = 0 => z = 0)
    <3>1. CASE z >= 0
      BY <3>1
    <3>2. CASE z < 0
      <4>1. z * z = (-z) * (-z) /\ -z \in Nat /\ -z # 0
        BY <3>2
      <4>2. QED
        BY <4>1
    <3>3. QED
      BY <3>1, <3>2
  <2>2. QED
    BY <1>6, <2>1
<1>9. c = Total(q)
  BY DEF Covariance
<1> HIDE DEF q
<1>10. c \in Nat /\ c # 0
  <2>1. /\ Total(q) \in Nat
        /\ Total(q) = 0 => \A k \in 1..n : q[k] = 0
    BY <1>1, <1>8, TotalOfNaturals
  <2>2. q[i] # 0 \/ q[j] # 0
    BY <1>1, <1>7, <1>8
  <2>3. QED
    BY <1>1, <1>9, <2>1, <2>2
<1> HIDE DEF c
<1>11. 100 * c * c >= 49 * c * c
  <2> DEFINE cc == c * c
  <2>1. cc \in Nat /\ 100 * c * c = 100 * cc /\ 49 * c * c = 49 * cc
    BY <1>10
  <2> HIDE DEF cc
  <2>2. QED
    BY <2>1
<1>12. Deviations(Ranks(b)) = d /\ Deviations(Ranks(a)) = d
  BY SameRanks DEF d, r
<1>13. QED
  BY <1>2, <1>10, <1>11, <1>12 DEF ReachesTarget, c, n

-----------------------------------------------------------------------------

(* The labelled turns, and the two series that are compared. *)
LEMMA PairedType ==
  ASSUME TurnsInv, JudgedInv
  PROVE  /\ Paired(turns, judged) \in Seq(ToSet(turns))
         /\ \A t \in Labelled : Human(t) \in Nat /\ Judged(t) \in Nat
<1> DEFINE S == ToSet(turns)
           K == {t \in S : DOMAIN t.labels # {} /\ t.id \in DOMAIN judged}
<1>1. \A i \in DOMAIN turns : turns[i] \in S
  BY DEF ToSet
<1>2. Paired(turns, judged) = Kept(turns, K)
  BY <1>1 DEF Paired, Kept, Where
<1> HIDE DEF K
<1>3. turns \in Seq(S)
  BY DEF TurnsInv
<1>4. Kept(turns, K) \in Seq(S) /\ ToSet(Kept(turns, K)) = S \cap K
  BY <1>3, KeptType, KeptElements
<1>5. ASSUME NEW t \in Labelled PROVE Human(t) \in Nat /\ Judged(t) \in Nat
  <2>1. t \in S /\ t.id \in DOMAIN judged
    BY <1>2, <1>4 DEF Labelled, K
  <2>2. Marks(t.labels)
    BY <2>1 DEF TurnsInv
  <2>3. Marks(judged[t.id])
    <3>1. t.id \in DOMAIN answers /\ judged[t.id] = Scores(answers[t.id]) /\ Parsable(answers[t.id])
      BY <2>1 DEF JudgedInv
    <3>2. QED
      BY <3>1, ScoresAreMarks
  <2>4. QED
    BY <2>2, <2>3, CompositeType DEF Human, Judged
<1>6. QED
  BY <1>2, <1>4, <1>5

LEMMA AgreementIsEnough == TurnsInv /\ JudgedInv => AgreementPasses
<1> SUFFICES ASSUME TurnsInv, JudgedInv, Alike = Apart, Apart # {},
                    \A t, u \in Labelled : Human(t) = Human(u) => Judged(t) = Judged(u)
             PROVE  Validate(turns, judged).passed
  BY DEF AgreementPasses
<1> DEFINE p == Paired(turns, judged)
           a == HumanComposites(turns, judged)
           b == JudgeComposites(turns, judged)
<1>1. /\ p \in Seq(ToSet(turns)) /\ Labelled = ToSet(p)
      /\ DOMAIN p = 1..Len(p) /\ Len(p) \in Nat
  BY PairedType DEF Labelled
<1>2. /\ a = [i \in 1..Len(p) |-> Human(p[i])]
      /\ b = [i \in 1..Len(p) |-> Judged(p[i])]
  BY <1>1 DEF HumanComposites, JudgeComposites, Human, Judged
<1>3. \A i \in 1..Len(p) : p[i] \in Labelled
  BY <1>1 DEF ToSet
<1>4. \A i \in 1..Len(p) : Human(p[i]) \in Nat /\ Judged(p[i]) \in Nat
  BY <1>3, PairedType
<1>5. Validate(turns, judged).passed = ReachesTarget(a, b)
  BY DEF Validate
<1> HIDE DEF a, b, p
<1>6. a \in Seq(Nat) /\ Len(a) = Len(p) /\ b \in Seq(Nat) /\ Len(b) = Len(p)
  <2>1. /\ a = [i \in 1..Len(p) |-> a[i]] /\ \A i \in 1..Len(p) : a[i] \in Nat
        /\ b = [i \in 1..Len(p) |-> b[i]] /\ \A i \in 1..Len(p) : b[i] \in Nat
    BY <1>2, <1>4
  <2>2. QED
    BY <1>1, <2>1, FunctionIsSeq
<1>7. SameOrder(a, b)
  <2>1. ASSUME NEW i \in 1..Len(p), NEW j \in 1..Len(p), Human(p[i]) < Human(p[j])
        PROVE  Judged(p[i]) < Judged(p[j])
    <3>1. <<p[i], p[j]>> \in Apart
      BY <1>3, <2>1 DEF Apart
    <3>2. <<p[i], p[j]>> \in Alike
      BY <3>1
    <3>3. QED
      BY <3>2 DEF Alike
  <2>2. \A i, j \in 1..Len(p) : Human(p[i]) = Human(p[j]) => Judged(p[i]) = Judged(p[j])
    BY <1>3
  <2>3. QED
    BY <1>2, <1>6, <2>1, <2>2 DEF SameOrder
<1>8. PICK i \in 1..Len(p), j \in 1..Len(p) : Human(p[i]) < Human(p[j])
  <2>1. PICK x \in Labelled \X Labelled : Human(x[1]) < Human(x[2])
    BY DEF Apart
  <2>2. x[1] \in ToSet(p) /\ x[2] \in ToSet(p)
    BY <1>1, <2>1
  <2>3. QED
    BY <1>1, <2>1, <2>2 DEF ToSet
<1>9. a[i] < a[j]
  BY <1>2, <1>8
<1>10. ReachesTarget(a, b)
  BY <1>6, <1>7, <1>9, SameRanksReachTarget
<1>11. QED
  BY <1>5, <1>10

-----------------------------------------------------------------------------
(* The order of the golden set: sums, ranks and filters from the other end. *)

(* The sums over the parts of S, with a chosen index of each part first. *)
PartSums(f, S, h) ==
  h[{}] = 0 /\ \A T \in SUBSET S : T # {} => h[T] = f[Pick(T)] + h[T \ {Pick(T)}]

AnyIndexFirst(f, S, h) ==
  \A T \in SUBSET S : h[T] \in Int /\ \A x \in T : h[T] = f[x] + h[T \ {x}]

(* The order of a sum does not matter: any index may be the first. *)
LEMMA AnyFirst ==
  ASSUME NEW S, IsFiniteSet(S), NEW f, \A x \in S : f[x] \in Int,
         NEW h, PartSums(f, S, h)
  PROVE  AnyIndexFirst(f, S, h)
<1>0. h[{}] = 0 /\ \A T \in SUBSET S : T # {} => h[T] = f[Pick(T)] + h[T \ {Pick(T)}]
  BY DEF PartSums
<1> DEFINE Right(T) == h[T] \in Int /\ \A x \in T : h[T] = f[x] + h[T \ {x}]
           Q == {n \in Nat : \A T \in SUBSET S : Cardinality(T) <= n => Right(T)}
<1>1. 0 \in Q
  <2>1. ASSUME NEW T \in SUBSET S, Cardinality(T) <= 0 PROVE Right(T)
    <3>1. Cardinality(T) \in Nat /\ (T # {} => Cardinality(T) > 0)
      BY OneLess
    <3>2. T = {}
      BY <2>1, <3>1
    <3>3. QED
      BY <1>0, <3>2
  <2> HIDE DEF Right
  <2>2. QED
    BY <2>1
<1>2. ASSUME NEW n \in Nat, n \in Q PROVE n + 1 \in Q
  <2> HIDE DEF Right
  <2>2. \A T \in SUBSET S : Cardinality(T) <= n => Right(T)
    BY <1>2
  <2>1. ASSUME NEW T \in SUBSET S, Cardinality(T) <= n + 1 PROVE Right(T)
    <3>1. CASE T = {}
      <4>1. h[T] \in Int
        BY <1>0, <3>1
      <4>2. QED
        BY <3>1, <4>1 DEF Right
    <3>2. CASE T # {}
      <4> DEFINE y == Pick(T)
                 R == T \ {y}
      <4>1. /\ y \in T /\ IsFiniteSet(T) /\ Cardinality(T) \in Nat
            /\ Cardinality(R) = Cardinality(T) - 1 /\ h[T] = f[y] + h[R]
            /\ R \in SUBSET S /\ f[y] \in Int
        BY <1>0, <3>2, OneLess, PickIsOne
      <4> HIDE DEF y
      <4>2. Right(R)
        <5>1. Cardinality(R) <= n
          BY <2>1, <4>1
        <5>2. QED
          BY <2>2, <4>1, <5>1
      <4>3. ASSUME NEW x \in T PROVE h[T] = f[x] + h[T \ {x}]
        <5>1. CASE x = y
          BY <4>1, <5>1
        <5>2. CASE x # y
          <6> DEFINE U == T \ {x}
                     V == R \ {x}
          <6>1. x \in R /\ y \in U /\ V = U \ {y} /\ U \in SUBSET S /\ V \in SUBSET S /\ f[x] \in Int
            BY <4>1, <5>2
          <6>2. Cardinality(U) = Cardinality(T) - 1
            BY <4>1, FS_RemoveElement
          <6>3. Right(U)
            <7>1. Cardinality(U) <= n
              BY <2>1, <4>1, <6>2
            <7>2. QED
              BY <2>2, <6>1, <7>1
          <6>4. h[R] = f[x] + h[V] /\ h[U] = f[y] + h[V]
            BY <4>2, <6>1, <6>3 DEF Right
          <6>5. Cardinality(V) = Cardinality(R) - 1 /\ IsFiniteSet(R)
            BY <4>1, <6>1, FS_RemoveElement
          <6>6. Right(V)
            <7>1. Cardinality(V) <= n
              BY <2>1, <4>1, <6>5
            <7>2. QED
              BY <2>2, <6>1, <7>1
          <6> DEFINE a == f[x]
                     b == f[y]
                     c == h[V]
          <6>7. a \in Int /\ b \in Int /\ c \in Int /\ h[T] = b + (a + c) /\ h[U] = b + c
            BY <4>1, <6>1, <6>4, <6>6 DEF Right
          <6> HIDE DEF a, b, c
          <6>8. b + (a + c) = a + (b + c)
            BY <6>7
          <6>9. QED
            BY <6>7, <6>8 DEF a
        <5>3. QED
          BY <5>1, <5>2
      <4>4. h[T] \in Int
        BY <4>1, <4>2 DEF Right
      <4>5. QED
        BY <4>3, <4>4 DEF Right
    <3>3. QED
      BY <3>1, <3>2
  <2>3. QED
    BY <2>1
<1> HIDE DEF Q
<1>3. \A n \in Nat : n \in Q
  BY <1>1, <1>2, NumbersBySuccessor
<1>4. ASSUME NEW T \in SUBSET S PROVE Right(T)
  <2>1. Cardinality(T) \in Nat /\ Cardinality(T) <= Cardinality(T)
    BY OneLess
  <2> HIDE DEF Right
  <2>2. QED
    BY <1>3, <2>1 DEF Q
<1>5. QED
  BY <1>4 DEF AnyIndexFirst

(* Places counted from the other end. *)
Mirror(n, T) == {j \in 1..n : n - j + 1 \in T}

(* Counting from the other end twice is counting from this one.            *)
LEMMA MirrorOf ==
  ASSUME NEW n \in Nat, NEW T \in SUBSET (1..n)
  PROVE  /\ Mirror(n, T) \in SUBSET (1..n) /\ Mirror(n, {}) = {} /\ Mirror(n, 1..n) = 1..n
         /\ \A x \in T : /\ n - x + 1 \in Mirror(n, T) /\ n - (n - x + 1) + 1 = x
                         /\ Mirror(n, T \ {x}) = Mirror(n, T) \ {n - x + 1}
<1>1. \A j \in 1..n : n - j + 1 \in 1..n /\ n - (n - j + 1) + 1 = j
  OBVIOUS
<1>2. Mirror(n, T) \in SUBSET (1..n) /\ Mirror(n, {}) = {} /\ Mirror(n, 1..n) = 1..n
  BY <1>1 DEF Mirror
<1>3. ASSUME NEW x \in T
      PROVE  /\ n - x + 1 \in Mirror(n, T) /\ n - (n - x + 1) + 1 = x
             /\ Mirror(n, T \ {x}) = Mirror(n, T) \ {n - x + 1}
  <2>1. x \in 1..n /\ n - x + 1 \in 1..n /\ n - (n - x + 1) + 1 = x
    BY <1>1
  <2>2. \A j \in 1..n : n - j + 1 = x <=> j = n - x + 1
    BY <2>1
  <2>3. n - x + 1 \in Mirror(n, T)
    BY <2>1 DEF Mirror
  <2> DEFINE y == n - x + 1
  <2> HIDE DEF y
  <2>4. Mirror(n, T \ {x}) = Mirror(n, T) \ {y}
    <3>1. \A j \in 1..n : n - j + 1 = x <=> j = y
      BY <2>2 DEF y
    <3>2. QED
      BY <3>1 DEF Mirror
  <2>5. QED
    BY <2>1, <2>3, <2>4 DEF y
<1>4. QED
  BY <1>2, <1>3

(* A series and the same from its end. *)
Reversed(n, f, g) ==
  DOMAIN f = 1..n /\ DOMAIN g = 1..n /\ \A i \in 1..n : g[i] = f[n - i + 1]

IntReversed(n, f, g) == Reversed(n, f, g) /\ \A i \in 1..n : f[i] \in Int

(* A sum is the same from its end.                                         *)
LEMMA TotalReversed ==
  ASSUME NEW n \in Nat, NEW f, NEW g, Reversed(n, f, g), \A i \in 1..n : f[i] \in Int
  PROVE  Total(g) = Total(f) /\ Total(f) \in Int
<1> DEFINE S == 1..n
<1>1. /\ DOMAIN f = S /\ DOMAIN g = S /\ IsFiniteSet(S)
      /\ \A i \in S : n - i + 1 \in S /\ g[i] = f[n - i + 1] /\ g[i] \in Int /\ f[i] \in Int
  BY FS_Interval DEF Reversed
<1> HIDE DEF S
<1>2. PICK h : PartSums(f, S, h) /\ Total(f) = h[S]
  <2>3. IsFiniteSet(DOMAIN f)
    BY <1>1
  <2>1. \E h : /\ h[{}] = 0 /\ Total(f) = h[DOMAIN f]
               /\ \A T \in SUBSET DOMAIN f : T # {} => h[T] = f[Pick(T)] + h[T \ {Pick(T)}]
    BY <2>3, TotalIs, Zenon
  <2>2. QED
    BY <1>1, <2>1 DEF PartSums
<1>3. PICK k : PartSums(g, S, k) /\ Total(g) = k[S]
  <2>3. IsFiniteSet(DOMAIN g)
    BY <1>1
  <2>1. \E k : /\ k[{}] = 0 /\ Total(g) = k[DOMAIN g]
               /\ \A T \in SUBSET DOMAIN g : T # {} => k[T] = g[Pick(T)] + k[T \ {Pick(T)}]
    BY <2>3, TotalIs, Zenon
  <2>2. QED
    BY <1>1, <2>1 DEF PartSums
<1>4. AnyIndexFirst(f, S, h)
  <2>1. \A x \in S : f[x] \in Int
    BY <1>1
  <2>2. QED
    BY <1>1, <1>2, <2>1, AnyFirst, Zenon
<1>5. AnyIndexFirst(g, S, k)
  <2>1. \A x \in S : g[x] \in Int
    BY <1>1
  <2>2. QED
    BY <1>1, <1>3, <2>1, AnyFirst, Zenon
<1> DEFINE P == {T \in SUBSET S : k[Mirror(n, T)] = h[T]}
<1>6. {} \in P
  BY <1>2, <1>3, MirrorOf DEF PartSums
<1>7. ASSUME NEW T \in SUBSET S, T # {}, T \ {Pick(T)} \in P PROVE T \in P
  <2> DEFINE x == Pick(T)
             y == n - x + 1
             M == Mirror(n, T)
  <2>1. x \in T /\ T \in SUBSET (1..n)
    BY <1>7, PickIsOne DEF S
  <2> HIDE DEF x
  <2>2. M \in SUBSET S /\ y \in M /\ n - y + 1 = x /\ Mirror(n, T \ {x}) = M \ {y}
    <3>1. /\ Mirror(n, T) \in SUBSET (1..n)
          /\ \A z \in T : /\ n - z + 1 \in Mirror(n, T) /\ n - (n - z + 1) + 1 = z
                          /\ Mirror(n, T \ {z}) = Mirror(n, T) \ {n - z + 1}
      BY <2>1, MirrorOf, Zenon
    <3>2. QED
      BY <2>1, <3>1, Zenon DEF S, M, y
  <2>8. T \ {x} \in P
    BY <1>7 DEF x
  <2> HIDE DEF y, M
  <2>3. y \in S
    BY <2>2
  <2>4. k[M] = g[y] + k[M \ {y}] /\ h[T] = f[x] + h[T \ {x}]
    BY <1>4, <1>5, <2>1, <2>2 DEF AnyIndexFirst
  <2>5. g[y] = f[x]
    BY <1>1, <2>2, <2>3
  <2>6. k[M \ {y}] = h[T \ {x}]
    BY <2>2, <2>8
  <2>7. k[M] = h[T]
    BY <2>4, <2>5, <2>6
  <2>9. QED
    BY <2>7 DEF M
<1> HIDE DEF P
<1>8. \A T \in SUBSET S : T \in P
  BY <1>1, <1>6, <1>7, SubsetsBySize
<1>9. k[Mirror(n, S)] = h[S]
  BY <1>8 DEF P
<1>10. Mirror(n, S) = S
  BY MirrorOf DEF S
<1>12. h[S] \in Int
  BY <1>4 DEF AnyIndexFirst
<1>11. QED
  BY <1>2, <1>3, <1>9, <1>10, <1>12

(* As many places from either end.                                         *)
LEMMA MirrorCounts ==
  ASSUME NEW n \in Nat, NEW T \in SUBSET (1..n)
  PROVE  Cardinality(Mirror(n, T)) = Cardinality(T)
<1> DEFINE M == Mirror(n, T)
           f == [j \in T |-> n - j + 1]
<1>1. /\ \A x \in T : x \in Int /\ n - x + 1 \in M
      /\ \A y \in M : y \in 1..n /\ n - y + 1 \in T
  BY MirrorOf DEF Mirror
<1>2. \A y \in M : n - (n - y + 1) + 1 = y
  BY <1>1
<1> HIDE DEF M
<1>3. f \in [T -> M]
  BY <1>1
<1>4. \A a, b \in T : f[a] = f[b] => a = b
  BY <1>1
<1>5. \A y \in M : \E x \in T : f[x] = y
  BY <1>1, <1>2
<1> HIDE DEF f
<1>6. f \in Bijection(T, M)
  BY <1>3, <1>4, <1>5 DEF Bijection, Injection, Surjection, IsInjective
<1>7. ExistsBijection(T, M)
  BY <1>6 DEF ExistsBijection
<1>8. IsFiniteSet(T)
  BY Counted
<1>9. QED
  BY <1>7, <1>8, FS_Bijection DEF M

(* The ranks from the end, and what is made of them. *)
LEMMA RanksReversed ==
  ASSUME NEW n \in Nat, NEW a \in Seq(Nat), NEW b \in Seq(Nat), Reversed(n, a, b)
  PROVE  /\ Reversed(n, Ranks(a), Ranks(b))
         /\ \A i \in 1..n : Ranks(a)[i] \in Nat
<1>1. /\ DOMAIN a = 1..n /\ DOMAIN b = 1..n
      /\ \A i \in 1..n : a[i] \in Nat /\ b[i] = a[n - i + 1] /\ n - i + 1 \in 1..n
  BY DEF Reversed
<1>2. ASSUME NEW v \in Nat PROVE Below(b, v) = Below(a, v) /\ AtMost(b, v) = AtMost(a, v)
  <2> DEFINE B == {i \in 1..n : a[i] < v}
             A == {i \in 1..n : a[i] <= v}
  <2>1. Mirror(n, B) = {i \in 1..n : b[i] < v} /\ Mirror(n, A) = {i \in 1..n : b[i] <= v}
    BY <1>1 DEF Mirror
  <2>2. B \in SUBSET (1..n) /\ A \in SUBSET (1..n)
    OBVIOUS
  <2>3. /\ Below(b, v) = Cardinality(Mirror(n, B)) /\ Below(a, v) = Cardinality(B)
        /\ AtMost(b, v) = Cardinality(Mirror(n, A)) /\ AtMost(a, v) = Cardinality(A)
    BY <1>1, <2>1 DEF Below, AtMost
  <2> HIDE DEF A, B
  <2>4. QED
    BY <2>2, <2>3, MirrorCounts
<1>3. ASSUME NEW i \in 1..n PROVE Ranks(b)[i] = Ranks(a)[n - i + 1]
  <2> DEFINE j == n - i + 1
  <2>1. j \in 1..n /\ b[i] = a[j] /\ b[i] \in Nat
    BY <1>1
  <2> HIDE DEF j
  <2>2. /\ Ranks(b)[i] = Below(b, b[i]) + 1 + AtMost(b, b[i])
        /\ Ranks(a)[j] = Below(a, a[j]) + 1 + AtMost(a, a[j])
    BY <1>1, <2>1 DEF Ranks
  <2>3. QED
    BY <1>2, <2>1, <2>2 DEF j
<1>4. ASSUME NEW i \in 1..n PROVE Ranks(a)[i] \in Nat
  <2>1. Ranks(a)[i] = Below(a, a[i]) + 1 + AtMost(a, a[i]) /\ a[i] \in Nat
    BY <1>1 DEF Ranks
  <2>2. Below(a, a[i]) \in Nat /\ AtMost(a, a[i]) \in Nat
    BY <2>1, Counts
  <2>3. QED
    BY <2>1, <2>2
<1>5. QED
  BY <1>1, <1>3, <1>4 DEF Reversed, Ranks

(* The deviations from the mean turn round with the ranks ...              *)
LEMMA DeviationsReversed ==
  ASSUME NEW n \in Nat, NEW r, NEW s, Reversed(n, r, s), Len(r) = n, Len(s) = n,
         \A i \in 1..n : r[i] \in Nat
  PROVE  /\ Reversed(n, Deviations(r), Deviations(s))
         /\ \A i \in 1..n : Deviations(r)[i] \in Int
<1>1. Total(s) = Total(r) /\ Total(r) \in Int
  BY TotalReversed
<1>2. /\ DOMAIN r = 1..n /\ DOMAIN s = 1..n
      /\ \A i \in 1..n : s[i] = r[n - i + 1] /\ n - i + 1 \in 1..n
  BY DEF Reversed
<1>3. \A i \in 1..n : /\ Deviations(r)[i] = r[i] * n - Total(r)
                      /\ Deviations(s)[i] = s[i] * n - Total(r)
  BY <1>1, <1>2 DEF Deviations
<1>4. \A i \in 1..n : r[i] * n - Total(r) \in Int
  BY <1>1
<1>5. DOMAIN Deviations(r) = 1..n /\ DOMAIN Deviations(s) = 1..n
  BY <1>2 DEF Deviations
<1>6. \A i \in 1..n : Deviations(s)[i] = Deviations(r)[n - i + 1]
  BY <1>2, <1>3
<1>7. QED
  BY <1>3, <1>4, <1>5, <1>6 DEF Reversed

(* ... the sum of their products is the same ...                           *)
LEMMA CovarianceReversed ==
  ASSUME NEW n \in Nat, NEW c, NEW u, IntReversed(n, c, u), NEW d, NEW v, IntReversed(n, d, v)
  PROVE  Covariance(u, v) = Covariance(c, d)
<1> DEFINE p == [i \in DOMAIN c |-> c[i] * d[i]]
           q == [i \in DOMAIN u |-> u[i] * v[i]]
<1>1. /\ DOMAIN c = 1..n /\ DOMAIN u = 1..n
      /\ \A i \in 1..n : u[i] = c[n - i + 1] /\ v[i] = d[n - i + 1] /\ n - i + 1 \in 1..n
      /\ \A i \in 1..n : c[i] \in Int /\ d[i] \in Int
  BY DEF Reversed, IntReversed
<1>2. DOMAIN p = 1..n /\ DOMAIN q = 1..n
  BY <1>1
<1>3. \A i \in 1..n : p[i] \in Int
  BY <1>1
<1>4. \A i \in 1..n : q[i] = p[n - i + 1]
  BY <1>1
<1>5. Covariance(c, d) = Total(p) /\ Covariance(u, v) = Total(q)
  BY DEF Covariance
<1> HIDE DEF p, q
<1>6. Reversed(n, p, q)
  BY <1>2, <1>4 DEF Reversed
<1>7. QED
  BY <1>3, <1>5, <1>6, TotalReversed

(* ... and so is the verdict.                                              *)
LEMMA TargetReversed ==
  ASSUME NEW n \in Nat, NEW a \in Seq(Nat), NEW b \in Seq(Nat), NEW x \in Seq(Nat), NEW y \in Seq(Nat),
         Reversed(n, a, x), Reversed(n, b, y)
  PROVE  ReachesTarget(x, y) <=> ReachesTarget(a, b)
<1> DEFINE da == Deviations(Ranks(a))
           db == Deviations(Ranks(b))
           dx == Deviations(Ranks(x))
           dy == Deviations(Ranks(y))
<1>1. /\ DOMAIN a = 1..n /\ DOMAIN b = 1..n /\ DOMAIN x = 1..n /\ DOMAIN y = 1..n
      /\ Len(a) = n /\ Len(b) = n /\ Len(x) = n /\ Len(y) = n
  BY LenProperties DEF Reversed
<1>2. Reversed(n, da, dx) /\ \A i \in 1..n : da[i] \in Int
  <2>1. Reversed(n, Ranks(a), Ranks(x)) /\ \A i \in 1..n : Ranks(a)[i] \in Nat
    BY RanksReversed
  <2>2. Len(Ranks(a)) = n /\ Len(Ranks(x)) = n
    BY <1>1 DEF Ranks
  <2>3. QED
    BY <2>1, <2>2, DeviationsReversed
<1>3. Reversed(n, db, dy) /\ \A i \in 1..n : db[i] \in Int
  <2>1. Reversed(n, Ranks(b), Ranks(y)) /\ \A i \in 1..n : Ranks(b)[i] \in Nat
    BY RanksReversed
  <2>2. Len(Ranks(b)) = n /\ Len(Ranks(y)) = n
    BY <1>1 DEF Ranks
  <2>3. QED
    BY <2>1, <2>2, DeviationsReversed
<1> HIDE DEF da, db, dx, dy
<1>8. \A c, u : IntReversed(n, c, u) =>
        \A d, v : IntReversed(n, d, v) => Covariance(u, v) = Covariance(c, d)
  BY CovarianceReversed
<1>9. IntReversed(n, da, dx) /\ IntReversed(n, db, dy)
  BY <1>2, <1>3 DEF IntReversed
<1>10. \A d, v : IntReversed(n, d, v) => Covariance(dx, v) = Covariance(da, d)
  BY <1>8, <1>9
<1>11. \A d, v : IntReversed(n, d, v) => Covariance(dy, v) = Covariance(db, d)
  BY <1>8, <1>9
<1>4. Covariance(dx, dy) = Covariance(da, db)
  BY <1>9, <1>10
<1>5. Covariance(dx, dx) = Covariance(da, da)
  BY <1>9, <1>10
<1>6. Covariance(dy, dy) = Covariance(db, db)
  BY <1>9, <1>11
<1>7. QED
  BY <1>1, <1>4, <1>5, <1>6 DEF ReachesTarget, da, db, dx, dy

-----------------------------------------------------------------------------
(* Filters, and the file read from its end. *)
(* What was last is first.                                                 *)
LEMMA ReverseAppend ==
  ASSUME NEW S, NEW s \in Seq(S), NEW e \in S
  PROVE  Reverse(s) \in Seq(S) /\ Reverse(Append(s, e)) = <<e>> \o Reverse(s)
<1> DEFINE n == Len(s)
           t == Append(s, e)
<1>1. /\ n \in Nat /\ Len(t) = n + 1 /\ t[n + 1] = e
      /\ \A i \in 1..n : s[i] \in S /\ t[i] = s[i] /\ n - i + 1 \in 1..n
  OBVIOUS
<1> HIDE DEF n, t
<1>2. Reverse(s) = [i \in 1..n |-> s[n - i + 1]]
  BY DEF Reverse, n
<1> DEFINE r == Reverse(s)
<1>3. r \in Seq(S) /\ Len(r) = n /\ \A i \in 1..n : r[i] = s[n - i + 1]
  <2>1. r = [i \in 1..n |-> r[i]] /\ \A i \in 1..n : r[i] \in S
    BY <1>1, <1>2
  <2> HIDE DEF r
  <2>2. r \in Seq(S) /\ Len(r) = n
    BY <1>1, <2>1, FunctionIsSeq
  <2>3. QED
    BY <1>2, <2>2 DEF r
<1>4. Reverse(t) = [i \in 1..(n + 1) |-> t[n + 1 - i + 1]]
  BY <1>1 DEF Reverse
<1> HIDE DEF r
<1> DEFINE u == <<e>> \o r
<1>5. /\ <<e>> \in Seq(S) /\ Len(<<e>>) = 1 /\ <<e>>[1] = e
  OBVIOUS
<1>6. /\ u \in Seq(S) /\ Len(u) = n + 1 /\ u[1] = e
      /\ \A i \in 1..(n + 1) : i > 1 => u[i] = r[i - 1]
  <2> DEFINE o == <<e>>
  <2>1. o \in Seq(S) /\ Len(o) = 1 /\ o[1] = e
    BY <1>5
  <2> HIDE DEF o, u
  <2>2. \A a \in Seq(S) : \A b \in Seq(S) :
          /\ a \o b \in Seq(S) /\ Len(a \o b) = Len(a) + Len(b)
          /\ \A i \in 1..Len(a) : (a \o b)[i] = a[i]
          /\ \A i \in 1..Len(a \o b) : i > Len(a) => (a \o b)[i] = b[i - Len(a)]
    BY ConcatElements
  <2>3. u = o \o r
    BY DEF u, o
  <2>4. /\ u \in Seq(S) /\ Len(u) = Len(o) + Len(r)
        /\ \A i \in 1..Len(o) : u[i] = o[i]
        /\ \A i \in 1..Len(u) : i > Len(o) => u[i] = r[i - Len(o)]
    BY <1>3, <2>1, <2>2, <2>3, Zenon
  <2>5. QED
    BY <1>1, <1>3, <2>1, <2>4
<1>7. DOMAIN u = 1..(n + 1) /\ u = [i \in 1..(n + 1) |-> u[i]]
  BY <1>1, <1>6
<1> HIDE DEF u
<1>8. \A i \in 1..(n + 1) : t[n + 1 - i + 1] = u[i]
  <2>1. ASSUME NEW i \in 1..(n + 1), i > 1 PROVE t[n + 1 - i + 1] = u[i]
    <3>1. /\ i - 1 \in 1..n /\ n - (i - 1) + 1 = n + 1 - i + 1
          /\ n - (i - 1) + 1 \in 1..n
      BY <1>1, <2>1
    <3>2. r[i - 1] = s[n - (i - 1) + 1] /\ t[n - (i - 1) + 1] = s[n - (i - 1) + 1]
      BY <1>1, <1>3, <3>1
    <3>3. QED
      BY <1>6, <2>1, <3>1, <3>2
  <2>2. t[n + 1 - 1 + 1] = u[1]
    BY <1>1, <1>6
  <2>3. QED
    BY <1>1, <2>1, <2>2
<1>9. Reverse(t) = u
  BY <1>4, <1>7, <1>8
<1>10. QED
  BY <1>3, <1>9 DEF r, t, u

(* Filtering and turning round commute.                                    *)
LEMMA KeptReversed ==
  ASSUME NEW S, NEW K
  PROVE  \A s \in Seq(S) : Kept(Reverse(s), K) = Reverse(Kept(s, K))
<1>0. \A f : Picker(f, S, S) =>
        \A a \in Seq(S) : \A b \in Seq(S) : Picked(a \o b, f) = Picked(a, f) \o Picked(b, f)
  BY PickedConcat
<1> DEFINE P == {s \in Seq(S) : Kept(Reverse(s), K) = Reverse(Kept(s, K))}
<1>1. <<>> \in P
  <2>1. Reverse(<<>>) = <<>>
    BY DEF Reverse
  <2>2. QED
    BY <2>1, KeptEmpty
<1>2. ASSUME NEW s \in Seq(S), s \in P, NEW e \in S PROVE Append(s, e) \in P
  <2> DEFINE f == Keeping(S, K)
             r == Reverse(s)
             q == Kept(s, K)
             k == Kept(r, K)
             t == Append(s, e)
  <2>1. t \in Seq(S) /\ k = Reverse(q)
    BY <1>2, AppendProperties
  <2>2. r \in Seq(S) /\ Reverse(t) = <<e>> \o r
    BY ReverseAppend
  <2>3. Kept(t, K) = IF e \in K THEN Append(q, e) ELSE q
    BY KeptAppend
  <2>4. q \in Seq(S)
    BY KeptType
  <2> HIDE DEF r, q, t
  <2>5. k = Picked(r, f) /\ Picker(f, S, S) /\ k \in Seq(S)
    BY <2>2, KeptIsPicked, KeptType
  <2>6. f[e] = IF e \in K THEN <<e>> ELSE <<>>
    BY DEF Keeping
  <2> HIDE DEF k
  <2>7. <<e>> \in Seq(S) /\ <<e>> \o r \in Seq(S)
    BY <2>2, ConcatProperties
  <2> DEFINE o == <<e>>
             w == o \o r
  <2> HIDE DEF o
  <2>8. Kept(w, K) = Picked(w, f)
    <3> HIDE DEF w, f
    <3>1. w \in Seq(S)
      BY <2>7 DEF w, o
    <3>2. QED
      BY <3>1, KeptIsPicked DEF f
  <2> HIDE DEF f
  <2>9. Picked(w, f) = Picked(o, f) \o Picked(r, f)
    <3>1. o \in Seq(S)
      BY <2>7 DEF o
    <3>2. \A a \in Seq(S) : \A b \in Seq(S) : Picked(a \o b, f) = Picked(a, f) \o Picked(b, f)
      BY <1>0, <2>5, Zenon
    <3>3. QED
      BY <2>2, <3>1, <3>2, Zenon DEF w
  <2>10. Picked(o, f) = f[e]
    BY <2>5, PickedOne DEF o
  <2>11. Kept(Reverse(t), K) = f[e] \o k
    BY <2>2, <2>5, <2>8, <2>9, <2>10 DEF w, o
  <2>12. CASE e \in K
    <3>1. Reverse(Append(q, e)) = <<e>> \o Reverse(q)
      BY <2>4, ReverseAppend
    <3>2. QED
      BY <2>1, <2>3, <2>6, <2>11, <2>12, <3>1 DEF t
  <2>13. CASE e \notin K
    <3>1. <<>> \o k = k
      BY <2>5, ConcatEmptySeq
    <3>2. QED
      BY <2>1, <2>3, <2>6, <2>11, <2>13, <3>1 DEF t
  <2>14. QED
    BY <2>12, <2>13
<1> HIDE DEF P
<1>3. \A s \in Seq(S) : s \in P
  BY <1>1, <1>2, SequencesByLength
<1> USE DEF P
<1>4. QED
  BY <1>3

(* The golden set read from its end gives the same verdict. *)
LEMMA OrderMakesNoDifference == TurnsInv /\ JudgedInv => OrderIsImmaterial
<1> SUFFICES ASSUME TurnsInv, JudgedInv PROVE OrderIsImmaterial
  OBVIOUS
<1> DEFINE S == ToSet(turns)
           K == {t \in S : DOMAIN t.labels # {} /\ t.id \in DOMAIN judged}
           back == Reverse(turns)
           p == Paired(turns, judged)
           q == Paired(back, judged)
           n == Len(p)
<1>1. turns \in Seq(S) /\ back \in Seq(S)
  <2>1. turns \in Seq(S) /\ DOMAIN turns = 1..Len(turns) /\ Len(turns) \in Nat
    BY DEF TurnsInv
  <2>2. \A i \in 1..Len(turns) : turns[i] \in S /\ Len(turns) - i + 1 \in 1..Len(turns)
    BY <2>1 DEF ToSet
  <2>3. back = [i \in 1..Len(turns) |-> back[i]] /\ \A i \in 1..Len(turns) : back[i] \in S
    BY <2>1, <2>2 DEF Reverse
  <2> HIDE DEF back, S
  <2>4. QED
    BY <2>1, <2>3, FunctionIsSeq
<1>2. \A s \in Seq(S) : Paired(s, judged) = Kept(s, K)
  <2> SUFFICES ASSUME NEW s \in Seq(S) PROVE Paired(s, judged) = Kept(s, K)
    OBVIOUS
  <2>1. \A i \in DOMAIN s : s[i] \in S
    OBVIOUS
  <2>2. QED
    BY <2>1 DEF Paired, Kept, Where
<1>3. p \in Seq(S) /\ Labelled = ToSet(p) /\ \A t \in Labelled : Human(t) \in Nat /\ Judged(t) \in Nat
  BY PairedType DEF Labelled
<1>4. q = Reverse(p)
  <2> HIDE DEF K, back, S
  <2>1. p = Kept(turns, K) /\ q = Kept(back, K)
    BY <1>1, <1>2
  <2>2. Kept(Reverse(turns), K) = Reverse(Kept(turns, K))
    BY <1>1, KeptReversed
  <2>3. QED
    BY <2>1, <2>2 DEF back
<1> HIDE DEF p, q, K, back
<1>5. /\ n \in Nat /\ DOMAIN p = 1..n /\ DOMAIN q = 1..n
      /\ \A i \in 1..n : q[i] = p[n - i + 1] /\ n - i + 1 \in 1..n /\ p[i] \in Labelled
  BY <1>3, <1>4 DEF Reverse, ToSet
<1>6. Len(q) = n
  <2>1. q = [i \in 1..n |-> q[i]] /\ \A i \in 1..n : q[i] \in Labelled
    BY <1>4, <1>5 DEF Reverse
  <2>2. QED
    BY <1>5, <2>1, FunctionIsSeq
<1> DEFINE a == HumanComposites(turns, judged)
           b == JudgeComposites(turns, judged)
           x == HumanComposites(back, judged)
           y == JudgeComposites(back, judged)
<1>7. /\ a = [i \in 1..n |-> Human(p[i])] /\ b = [i \in 1..n |-> Judged(p[i])]
      /\ x = [i \in 1..n |-> Human(q[i])] /\ y = [i \in 1..n |-> Judged(q[i])]
  BY <1>5 DEF HumanComposites, JudgeComposites, Human, Judged, p, q
<1> HIDE DEF n
<1>8. /\ \A i \in 1..n : Human(p[i]) \in Nat /\ Judged(p[i]) \in Nat
      /\ \A i \in 1..n : Human(q[i]) \in Nat /\ Judged(q[i]) \in Nat
  BY <1>3, <1>5
<1> HIDE DEF a, b, x, y
<1>9. a \in Seq(Nat) /\ b \in Seq(Nat) /\ x \in Seq(Nat) /\ y \in Seq(Nat)
  <2>1. /\ a = [i \in 1..n |-> a[i]] /\ \A i \in 1..n : a[i] \in Nat
        /\ b = [i \in 1..n |-> b[i]] /\ \A i \in 1..n : b[i] \in Nat
    BY <1>7, <1>8
  <2>2. /\ x = [i \in 1..n |-> x[i]] /\ \A i \in 1..n : x[i] \in Nat
        /\ y = [i \in 1..n |-> y[i]] /\ \A i \in 1..n : y[i] \in Nat
    BY <1>7, <1>8
  <2>3. QED
    BY <1>5, <2>1, <2>2, FunctionIsSeq
<1>10. Reversed(n, a, x) /\ Reversed(n, b, y)
  BY <1>5, <1>7 DEF Reversed
<1>11. ReachesTarget(x, y) <=> ReachesTarget(a, b)
  BY <1>5, <1>9, <1>10, TargetReversed
<1> DEFINE c == [i \in 1..n |-> Cardinality(Agreements(p[i], judged[p[i].id]))]
           d == [i \in 1..n |-> Cardinality(Agreements(q[i], judged[q[i].id]))]
<1>12. Total(d) = Total(c)
  <2>1. ASSUME NEW t \in Labelled PROVE Cardinality(Agreements(t, judged[t.id])) \in Int
    <3>1. t \in ToSet(turns)
      BY <1>3, <2>1 DEF ToSet
    <3>2. IsFiniteSet(DOMAIN t.labels)
      BY <3>1 DEF TurnsInv, Marks
    <3>3. Agreements(t, judged[t.id]) \subseteq DOMAIN t.labels
      BY DEF Agreements
    <3>4. QED
      BY <3>2, <3>3, FS_Subset, FS_CardinalityType
  <2>2. \A i \in 1..n : c[i] \in Int
    BY <1>5, <2>1
  <2>3. Reversed(n, c, d)
    BY <1>5 DEF Reversed
  <2> HIDE DEF c, d
  <2>4. QED
    BY <1>5, <2>2, <2>3, TotalReversed
<1>13. /\ Validate(turns, judged) = [n |-> n, exact |-> Total(c), passed |-> ReachesTarget(a, b)]
       /\ Validate(back, judged) = [n |-> Len(q), exact |-> Total(d), passed |-> ReachesTarget(x, y)]
  BY <1>5 DEF Validate, a, b, x, y, p, q, n
<1>14. ReachesTarget(x, y) = ReachesTarget(a, b)
  BY <1>11, Zenon DEF ReachesTarget
<1>15. QED
  BY <1>6, <1>12, <1>13, <1>14 DEF OrderIsImmaterial, back

-----------------------------------------------------------------------------
(* More of sums: over a part of the indices, of combinations, of tables.    *)

SumOf(f, U) == Total([x \in U |-> f[x]])

(* One index less, whichever. *)
LEMMA SumSteps ==
  ASSUME NEW S, IsFiniteSet(S), NEW f, \A x \in S : f[x] \in Int
  PROVE  /\ SumOf(f, {}) = 0
         /\ \A U \in SUBSET S :
              SumOf(f, U) \in Int /\ \A x \in U : SumOf(f, U) = f[x] + SumOf(f, U \ {x})
<1>1. ASSUME NEW U \in SUBSET S
      PROVE  \E h : PartSums(f, U, h) /\ AnyIndexFirst(f, U, h) /\ SumOf(f, U) = h[U]
  <2> DEFINE g == [x \in U |-> f[x]]
  <2>1. IsFiniteSet(U) /\ DOMAIN g = U /\ \A x \in U : g[x] = f[x] /\ f[x] \in Int
    BY OneLess
  <2> HIDE DEF g
  <2>2. PICK h : /\ h[{}] = 0 /\ Total(g) = h[U]
                 /\ \A T \in SUBSET U : T # {} => h[T] = g[Pick(T)] + h[T \ {Pick(T)}]
    <3>3. IsFiniteSet(DOMAIN g)
      BY <2>1
    <3>1. \E h : /\ h[{}] = 0 /\ Total(g) = h[DOMAIN g]
                 /\ \A T \in SUBSET DOMAIN g : T # {} => h[T] = g[Pick(T)] + h[T \ {Pick(T)}]
      BY <3>3, TotalIs, Zenon
    <3>2. QED
      BY <2>1, <3>1
  <2>3. \A T \in SUBSET U : T # {} => h[T] = f[Pick(T)] + h[T \ {Pick(T)}]
    <3>1. \A T \in SUBSET U : T # {} => Pick(T) \in U
      BY PickIsOne
    <3>2. QED
      BY <2>1, <2>2, <3>1
  <2>4. PartSums(f, U, h)
    BY <2>2, <2>3 DEF PartSums
  <2>5. AnyIndexFirst(f, U, h)
    <3>1. \A x \in U : f[x] \in Int
      BY <2>1
    <3>2. QED
      BY <2>1, <2>4, <3>1, AnyFirst, Zenon
  <2>6. QED
    BY <2>2, <2>4, <2>5 DEF SumOf, g
<1>2. ASSUME NEW U \in SUBSET S, NEW R \in SUBSET U, NEW h, NEW k,
             PartSums(f, U, h), PartSums(f, R, k)
      PROVE  k[R] = h[R]
  <2> DEFINE P == {T \in SUBSET R : k[T] = h[T]}
  <2>1. {} \in P
    BY <1>2 DEF PartSums
  <2>2. ASSUME NEW T \in SUBSET R, T # {}, T \ {Pick(T)} \in P PROVE T \in P
    <3>1. /\ h[T] = f[Pick(T)] + h[T \ {Pick(T)}]
          /\ k[T] = f[Pick(T)] + k[T \ {Pick(T)}]
      BY <1>2, <2>2 DEF PartSums
    <3>2. QED
      BY <2>2, <3>1
  <2>3. IsFiniteSet(R)
    BY OneLess
  <2> HIDE DEF P
  <2>4. \A T \in SUBSET R : T \in P
    BY <2>1, <2>2, <2>3, SubsetsBySize
  <2>5. QED
    BY <2>4 DEF P
<1>3. SumOf(f, {}) = 0
  <2>1. PICK h : PartSums(f, {}, h) /\ SumOf(f, {}) = h[{}]
    BY <1>1
  <2>2. QED
    BY <2>1 DEF PartSums
<1>4. ASSUME NEW U \in SUBSET S
      PROVE  SumOf(f, U) \in Int /\ \A x \in U : SumOf(f, U) = f[x] + SumOf(f, U \ {x})
  <2>1. PICK h : PartSums(f, U, h) /\ AnyIndexFirst(f, U, h) /\ SumOf(f, U) = h[U]
    BY <1>1
  <2>2. SumOf(f, U) \in Int
    BY <2>1 DEF AnyIndexFirst
  <2>3. ASSUME NEW x \in U PROVE SumOf(f, U) = f[x] + SumOf(f, U \ {x})
    <3> DEFINE R == U \ {x}
    <3>1. R \in SUBSET U /\ R \in SUBSET S
      OBVIOUS
    <3>2. h[U] = f[x] + h[R]
      BY <2>1 DEF AnyIndexFirst
    <3> HIDE DEF R
    <3>3. PICK k : PartSums(f, R, k) /\ SumOf(f, R) = k[R]
      BY <1>1, <3>1
    <3>4. k[R] = h[R]
      BY <1>2, <2>1, <3>1, <3>3
    <3>5. SumOf(f, U) = f[x] + SumOf(f, R)
      BY <2>1, <3>2, <3>3, <3>4
    <3>6. QED
      BY <3>5 DEF R
  <2>4. QED
    BY <2>2, <2>3
<1>5. QED
  BY <1>3, <1>4

IntOn(S, f) == \A x \in S : f[x] \in Int

StepByStep(S, f) ==
  /\ SumOf(f, {}) = 0
  /\ \A U \in SUBSET S :
       SumOf(f, U) \in Int /\ \A x \in U : SumOf(f, U) = f[x] + SumOf(f, U \ {x})

(* SumSteps, said of every series at once.                                 *)
LEMMA SumsGoOn ==
  ASSUME NEW S, IsFiniteSet(S)
  PROVE  \A f : IntOn(S, f) => StepByStep(S, f)
BY SumSteps DEF IntOn, StepByStep

(* The sum of a combination is the combination of the sums.                *)
LEMMA SumCombines ==
  ASSUME NEW S, IsFiniteSet(S)
  PROVE  \A f : IntOn(S, f) => \A g : IntOn(S, g) =>
           \A a \in Int : \A b \in Int :
             /\ SumOf(f, S) \in Int /\ SumOf(g, S) \in Int
             /\ SumOf([x \in S |-> a * f[x] + b * g[x]], S) = a * SumOf(f, S) + b * SumOf(g, S)
<1> SUFFICES ASSUME NEW f, IntOn(S, f), NEW g, IntOn(S, g), NEW a \in Int, NEW b \in Int
             PROVE  /\ SumOf(f, S) \in Int /\ SumOf(g, S) \in Int
                    /\ SumOf([x \in S |-> a * f[x] + b * g[x]], S)
                         = a * SumOf(f, S) + b * SumOf(g, S)
  OBVIOUS
<1> DEFINE e == [x \in S |-> a * f[x] + b * g[x]]
<1>1. \A x \in S : f[x] \in Int /\ g[x] \in Int /\ e[x] = a * f[x] + b * g[x] /\ e[x] \in Int
  BY DEF IntOn
<1> HIDE DEF e
<1>2. /\ SumOf(f, {}) = 0
      /\ \A U \in SUBSET S : SumOf(f, U) \in Int /\ \A x \in U : SumOf(f, U) = f[x] + SumOf(f, U \ {x})
  <2>1. IntOn(S, f)
    BY <1>1 DEF IntOn
  <2>2. StepByStep(S, f)
    BY <2>1, SumsGoOn, Zenon
  <2>3. QED
    BY <2>2 DEF StepByStep
<1>3. /\ SumOf(g, {}) = 0
      /\ \A U \in SUBSET S : SumOf(g, U) \in Int /\ \A x \in U : SumOf(g, U) = g[x] + SumOf(g, U \ {x})
  <2>1. IntOn(S, g)
    BY <1>1 DEF IntOn
  <2>2. StepByStep(S, g)
    BY <2>1, SumsGoOn, Zenon
  <2>3. QED
    BY <2>2 DEF StepByStep
<1>4. /\ SumOf(e, {}) = 0
      /\ \A U \in SUBSET S : SumOf(e, U) \in Int /\ \A x \in U : SumOf(e, U) = e[x] + SumOf(e, U \ {x})
  <2>1. IntOn(S, e)
    BY <1>1 DEF IntOn
  <2>2. StepByStep(S, e)
    BY <2>1, SumsGoOn, Zenon
  <2>3. QED
    BY <2>2 DEF StepByStep
<1> DEFINE P == {U \in SUBSET S : SumOf(e, U) = a * SumOf(f, U) + b * SumOf(g, U)}
<1>5. {} \in P
  BY <1>2, <1>3, <1>4
<1>6. ASSUME NEW U \in SUBSET S, U # {}, U \ {Pick(U)} \in P PROVE U \in P
  <2> DEFINE x == Pick(U)
             R == U \ {x}
             u == f[x]
             v == g[x]
             q == SumOf(f, R)
             r == SumOf(g, R)
  <2>1. x \in U /\ x \in S /\ R \in SUBSET S
    BY <1>6, PickIsOne
  <2>2. SumOf(e, R) = a * q + b * r
    BY <1>6
  <2> HIDE DEF P, x
  <2>3. /\ SumOf(f, U) = u + q /\ SumOf(g, U) = v + r /\ SumOf(e, U) = e[x] + SumOf(e, R)
        /\ q \in Int /\ r \in Int /\ u \in Int /\ v \in Int /\ e[x] = a * u + b * v
    BY <1>1, <1>2, <1>3, <1>4, <2>1
  <2> HIDE DEF R, u, v, q, r
  <2>4. SumOf(e, U) = (a * u + b * v) + (a * q + b * r)
    BY <2>2, <2>3
  <2>5. a * (u + q) = a * u + a * q /\ b * (v + r) = b * v + b * r
    BY <2>3
  <2>6. a * u \in Int /\ a * q \in Int /\ b * v \in Int /\ b * r \in Int
    BY <2>3
  <2>7. SumOf(e, U) = a * (u + q) + b * (v + r)
    BY <2>4, <2>5, <2>6
  <2>8. QED
    BY <2>3, <2>7 DEF P
<1> HIDE DEF P
<1>7. \A U \in SUBSET S : U \in P
  BY <1>5, <1>6, SubsetsBySize
<1>8. SumOf(e, S) = a * SumOf(f, S) + b * SumOf(g, S)
  BY <1>7 DEF P
<1>9. QED
  BY <1>2, <1>3, <1>8 DEF e

(* Counting is adding ones. *)
LEMMA SumOfOnes ==
  ASSUME NEW S, IsFiniteSet(S), NEW T \in SUBSET S
  PROVE  SumOf([x \in S |-> IF x \in T THEN 1 ELSE 0], S) = Cardinality(T)
<1> DEFINE e == [x \in S |-> IF x \in T THEN 1 ELSE 0]
<1>1. \A x \in S : e[x] \in Int /\ e[x] = IF x \in T THEN 1 ELSE 0
  OBVIOUS
<1> HIDE DEF e
<1>2. /\ SumOf(e, {}) = 0
      /\ \A U \in SUBSET S : SumOf(e, U) \in Int /\ \A x \in U : SumOf(e, U) = e[x] + SumOf(e, U \ {x})
  <2>1. IntOn(S, e)
    BY <1>1 DEF IntOn
  <2>2. StepByStep(S, e)
    BY <2>1, SumsGoOn, Zenon
  <2>3. QED
    BY <2>2 DEF StepByStep
<1> DEFINE P == {U \in SUBSET S : SumOf(e, U) = Cardinality(U \cap T)}
<1>3. {} \in P
  <2>1. {} \cap T = {}
    OBVIOUS
  <2>2. QED
    BY <1>2, <2>1, FS_EmptySet
<1>4. ASSUME NEW U \in SUBSET S, U # {}, U \ {Pick(U)} \in P PROVE U \in P
  <2> DEFINE x == Pick(U)
             R == U \ {x}
             V == U \cap T
  <2>1. x \in U /\ x \in S /\ R \in SUBSET S /\ R \cap T = V \ {x} /\ (x \in V <=> x \in T)
        /\ V \in SUBSET S
    BY <1>4, PickIsOne
  <2>2. SumOf(e, R) = Cardinality(V \ {x})
    BY <1>4, <2>1
  <2> HIDE DEF P, x, V
  <2>3. SumOf(e, U) = e[x] + SumOf(e, R)
    BY <1>2, <2>1
  <2>4. IsFiniteSet(V) /\ Cardinality(V) \in Nat
    BY <2>1, OneLess
  <2>5. Cardinality(V \ {x}) = IF x \in V THEN Cardinality(V) - 1 ELSE Cardinality(V)
    BY <2>4, FS_RemoveElement
  <2>6. e[x] = IF x \in V THEN 1 ELSE 0
    BY <1>1, <2>1
  <2> HIDE DEF R
  <2>7. SumOf(e, U) = Cardinality(V)
    BY <2>2, <2>3, <2>4, <2>5, <2>6
  <2>8. QED
    BY <2>7 DEF P, V
<1> HIDE DEF P
<1>5. \A U \in SUBSET S : U \in P
  BY <1>3, <1>4, SubsetsBySize
<1>6. S \cap T = T
  OBVIOUS
<1>7. QED
  BY <1>5, <1>6 DEF P, e

(* A table adds up by rows as by columns. *)
Table(S, g) == \A x \in S : IntOn(S, g[x])

Rows(S, g) == [x \in S |-> SumOf(g[x], S)]

Flip(S, g) == [y \in S |-> [x \in S |-> g[x][y]]]

(* Adding the rows up comes to what adding the columns up does.            *)
LEMMA SumByColumns ==
  ASSUME NEW S, IsFiniteSet(S)
  PROVE  \A g : Table(S, g) =>
           /\ Table(S, Flip(S, g)) /\ IntOn(S, Rows(S, g)) /\ SumOf(Rows(S, g), S) \in Int
           /\ SumOf(Rows(S, Flip(S, g)), S) = SumOf(Rows(S, g), S)
<1> SUFFICES ASSUME NEW g, Table(S, g)
             PROVE  /\ Table(S, Flip(S, g)) /\ IntOn(S, Rows(S, g)) /\ SumOf(Rows(S, g), S) \in Int
                    /\ SumOf(Rows(S, Flip(S, g)), S) = SumOf(Rows(S, g), S)
  OBVIOUS
<1> DEFINE f == Flip(S, g)
           r == Rows(S, g)
<1>0. \A x, y \in S : g[x][y] \in Int /\ f[y][x] = g[x][y]
  BY DEF Table, IntOn, Flip
<1>1. Table(S, f)
  BY <1>0 DEF Table, IntOn
<1>20. \A h : IntOn(S, h) =>
         /\ SumOf(h, {}) = 0
         /\ \A U \in SUBSET S : SumOf(h, U) \in Int /\ \A x \in U : SumOf(h, U) = h[x] + SumOf(h, U \ {x})
  BY SumsGoOn DEF StepByStep
<1>2. IntOn(S, r)
  <2>1. \A x \in S : SumOf(g[x], S) \in Int
    BY <1>20 DEF Table
  <2>2. QED
    BY <2>1 DEF IntOn, Rows
<1>3. /\ SumOf(r, {}) = 0
      /\ \A U \in SUBSET S : SumOf(r, U) \in Int /\ \A x \in U : SumOf(r, U) = r[x] + SumOf(r, U \ {x})
  BY <1>2, <1>20, Zenon
<1>4. \A x \in S : r[x] = SumOf(g[x], S)
  BY DEF Rows
<1> DEFINE c(U) == [y \in S |-> SumOf(f[y], U)]
           P == {U \in SUBSET S : SumOf(r, U) = SumOf(c(U), S)}
<1>5. \A y \in S : /\ SumOf(f[y], {}) = 0
                   /\ \A U \in SUBSET S : /\ SumOf(f[y], U) \in Int
                                          /\ \A x \in U : SumOf(f[y], U) = f[y][x] + SumOf(f[y], U \ {x})
  BY <1>1, <1>20 DEF Table
<1> HIDE DEF f, r
<1>6. {} \in P
  <2>1. c({}) = [y \in S |-> IF y \in {} THEN 1 ELSE 0]
    BY <1>5
  <2>2. SumOf([y \in S |-> IF y \in {} THEN 1 ELSE 0], S) = Cardinality({})
    BY SumOfOnes
  <2>3. QED
    BY <1>3, <2>1, <2>2, FS_EmptySet
<1>7. ASSUME NEW U \in SUBSET S, U # {}, U \ {Pick(U)} \in P PROVE U \in P
  <2> DEFINE x == Pick(U)
             R == U \ {x}
             p == g[x]
             q == c(R)
             e == [y \in S |-> 1 * p[y] + 1 * q[y]]
  <2>1. x \in U /\ x \in S /\ R \in SUBSET S
    BY <1>7, PickIsOne
  <2>2. SumOf(r, R) = SumOf(q, S)
    BY <1>7
  <2> HIDE DEF P, x
  <2>3. SumOf(r, U) = SumOf(p, S) + SumOf(q, S)
    BY <1>3, <1>4, <2>1, <2>2
  <2>4. IntOn(S, p)
    BY <2>1 DEF Table
  <2>5. IntOn(S, q)
    BY <1>5, <2>1 DEF IntOn
  <2>6. c(U) = e
    <3>1. \A y \in S : SumOf(f[y], U) = 1 * p[y] + 1 * q[y]
      <4>1. ASSUME NEW y \in S PROVE SumOf(f[y], U) = 1 * p[y] + 1 * q[y]
        <5>1. SumOf(f[y], U) = f[y][x] + SumOf(f[y], R) /\ SumOf(f[y], R) \in Int
          BY <1>5, <2>1
        <5>2. f[y][x] = p[y] /\ p[y] \in Int /\ q[y] = SumOf(f[y], R)
          BY <1>0, <2>1
        <5>3. QED
          BY <5>1, <5>2
      <4>2. QED
        BY <4>1
    <3> HIDE DEF p, q, R
    <3>2. QED
      BY <3>1
  <2> HIDE DEF p, q, R, c
  <2>7. /\ SumOf(p, S) \in Int /\ SumOf(q, S) \in Int
        /\ SumOf(e, S) = 1 * SumOf(p, S) + 1 * SumOf(q, S)
    <3>1. \A a \in Int : \A b \in Int :
             /\ SumOf(p, S) \in Int /\ SumOf(q, S) \in Int
             /\ SumOf([y \in S |-> a * p[y] + b * q[y]], S) = a * SumOf(p, S) + b * SumOf(q, S)
      BY <2>4, <2>5, SumCombines, Zenon
    <3>2. QED
      BY <3>1
  <2>8. SumOf(r, U) = SumOf(c(U), S)
    BY <2>3, <2>6, <2>7
  <2>9. QED
    BY <2>8 DEF P
<1> HIDE DEF P
<1>8. \A U \in SUBSET S : U \in P
  BY <1>6, <1>7, SubsetsBySize
<1>9. SumOf(r, S) = SumOf(c(S), S)
  BY <1>8 DEF P
<1>10. c(S) = Rows(S, f)
  BY DEF Rows
<1>11. QED
  BY <1>1, <1>2, <1>3, <1>9, <1>10 DEF f, r

SumsOf(S, g) == SumOf(Rows(S, g), S)

(* A sum of integers is one.                                               *)
LEMMA SumsAdd ==
  ASSUME NEW S, IsFiniteSet(S)
  PROVE  \A f : IntOn(S, f) => SumOf(f, S) \in Int
<1>1. \A f : IntOn(S, f) => StepByStep(S, f)
  BY SumsGoOn
<1>2. QED
  BY <1>1 DEF StepByStep

(* A sum over triples of indices, and the same with the indices turned.     *)
Cube(S, g) == \A x \in S : Table(S, g[x])

CubeSum(S, g) == SumOf([x \in S |-> SumsOf(S, g[x])], S)

Turned(S, g) == [x \in S |-> [y \in S |-> [z \in S |-> g[y][z][x]]]]

(* Each turn is two exchanges of rows and columns.                         *)
LEMMA TurnedSum ==
  ASSUME NEW S, IsFiniteSet(S)
  PROVE  \A g : Cube(S, g) =>
           /\ Cube(S, Turned(S, g)) /\ CubeSum(S, g) \in Int
           /\ CubeSum(S, Turned(S, g)) = CubeSum(S, g)
<1> SUFFICES ASSUME NEW g, Cube(S, g)
             PROVE  /\ Cube(S, Turned(S, g)) /\ CubeSum(S, g) \in Int
                    /\ CubeSum(S, Turned(S, g)) = CubeSum(S, g)
  OBVIOUS
<1>1. \A x, y, z \in S : g[x][y][z] \in Int
  BY DEF Cube, Table, IntOn
<1>2. \A f : Table(S, f) => /\ Table(S, Flip(S, f)) /\ IntOn(S, Rows(S, f)) /\ SumsOf(S, f) \in Int
                            /\ SumsOf(S, Flip(S, f)) = SumsOf(S, f)
  BY SumByColumns DEF SumsOf
<1>3. \A f : IntOn(S, f) => SumOf(f, S) \in Int
  BY SumsAdd
<1> DEFINE t == Turned(S, g)
<1>4. Cube(S, t)
  BY <1>1 DEF Turned, Cube, Table, IntOn
<1>5. \A x, y, z \in S : t[x][y][z] = g[y][z][x]
  BY DEF Turned
<1>6. CubeSum(S, g) \in Int
  <2>1. \A x \in S : SumsOf(S, g[x]) \in Int
    BY <1>2 DEF Cube
  <2> DEFINE e == [x \in S |-> SumsOf(S, g[x])]
  <2>2. IntOn(S, e)
    BY <2>1 DEF IntOn
  <2> HIDE DEF e
  <2>3. SumOf(e, S) \in Int
    BY <1>3, <2>2
  <2>4. QED
    BY <2>3 DEF CubeSum, e
(* The sum over the last index of g is that over the first of t. *)
<1> DEFINE u == [x \in S |-> [y \in S |-> SumOf(t[x][y], S)]]
           v == [y \in S |-> [x \in S |-> [z \in S |-> g[y][z][x]]]]
<1>7. \A y, x \in S : u[x][y] = SumOf(v[y][x], S)
  <2>1. \A x, y \in S : t[x][y] = v[y][x]
    BY DEF Turned
  <2>2. QED
    BY <2>1
<1>8. Table(S, u)
  <2>1. \A x, y \in S : SumOf(t[x][y], S) \in Int
    BY <1>3, <1>4 DEF Cube, Table
  <2>2. \A x, y \in S : u[x][y] = SumOf(t[x][y], S)
    OBVIOUS
  <2> HIDE DEF u, t
  <2>3. QED
    BY <2>1, <2>2 DEF Table, IntOn
<1>9. CubeSum(S, t) = SumsOf(S, u)
  <2>1. \A x \in S : Rows(S, t[x]) = u[x]
    BY DEF Rows
  <2> HIDE DEF t
  <2>2. \A x \in S : SumsOf(S, t[x]) = SumOf(u[x], S)
    BY <2>1 DEF SumsOf
  <2> HIDE DEF u
  <2>3. [x \in S |-> SumsOf(S, t[x])] = Rows(S, u)
    BY <2>2 DEF Rows
  <2>4. QED
    BY <2>3 DEF CubeSum, SumsOf
<1> HIDE DEF t
<1>10. ASSUME NEW y \in S PROVE SumOf(Flip(S, u)[y], S) = SumsOf(S, g[y])
  <2>1. Table(S, g[y])
    BY DEF Cube
  <2>2. v[y] = Flip(S, g[y])
    BY DEF Flip
  <2>3. \A x \in S : Flip(S, u)[y][x] = SumOf(v[y][x], S)
    <3> HIDE DEF u, v
    <3>1. QED
      BY <1>7 DEF Flip
  <2>4. Flip(S, u)[y] = [x \in S |-> Flip(S, u)[y][x]]
    BY DEF Flip
  <2> HIDE DEF u, v
  <2>5. Flip(S, u)[y] = Rows(S, v[y])
    BY <2>3, <2>4 DEF Rows
  <2>6. SumsOf(S, v[y]) = SumsOf(S, g[y])
    BY <1>2, <2>1, <2>2
  <2>7. QED
    BY <2>5, <2>6 DEF SumsOf
<1> HIDE DEF u, v
<1>11. Rows(S, Flip(S, u)) = [y \in S |-> SumsOf(S, g[y])]
  BY <1>10 DEF Rows
<1>12. SumsOf(S, Flip(S, u)) = SumsOf(S, u)
  BY <1>2, <1>8
<1>13. CubeSum(S, t) = CubeSum(S, g)
  BY <1>9, <1>11, <1>12 DEF CubeSum, SumsOf
<1>14. QED
  BY <1>4, <1>6, <1>13 DEF t

-----------------------------------------------------------------------------
(* Two orders on three.  Way says which way a pair is ordered.              *)
Way(u, v) == IF v < u THEN 1 ELSE IF u < v THEN -1 ELSE 0

Ways(S, f) == [x \in S |-> [y \in S |-> Way(f[x], f[y])]]

(* What one order has of its own at a corner, less what the two have in     *)
(* common across it, with what they have in common on the side opposite.    *)
Excess(s, t, x, y, z) ==
  s[x][y] * s[x][z] - s[x][y] * t[x][z] - s[x][z] * t[x][y] + s[y][z] * t[y][z]

Sign == {-1, 0, 1}

(* Which ways three can be ordered. *)
Coherent(p, q, r) ==
  /\ p \in Sign /\ q \in Sign /\ r \in Sign
  /\ p >= 0 /\ q >= 0 => r >= 0 /\ (p = 1 \/ q = 1 => r = 1)
  /\ p <= 0 /\ q <= 0 => r <= 0 /\ (p = -1 \/ q = -1 => r = -1)

(* Numbers are ordered coherently.                                         *)
LEMMA WaysCohere ==
  ASSUME NEW u \in Nat, NEW v \in Nat, NEW w \in Nat
  PROVE  /\ Coherent(Way(u, v), Way(v, w), Way(u, w))
         /\ Way(v, u) = -Way(u, v) /\ Way(u, u) = 0 /\ Way(u, v) \in Sign
BY DEF Coherent, Way, Sign

(* Over the three turns of a triple the excesses are together not negative: *)
(* what two orders of three have in common across its corners is at most   *)
(* what one has of its own and what they have in common along its sides.   *)
LEMMA ThreeInTwoOrders ==
  ASSUME NEW p, NEW q, NEW r, Coherent(p, q, r), NEW i, NEW j, NEW k, Coherent(i, j, k)
  PROVE  (p * r - p * k - r * i + q * j)
           + (q * (-p) - q * (-i) - (-p) * j + (-r) * (-k))
           + ((-r) * (-q) - (-r) * (-j) - (-q) * (-k) + p * i) >= 0
<1>1. /\ p \in Sign /\ q \in Sign /\ r \in Sign /\ i \in Sign /\ j \in Sign /\ k \in Sign
  BY DEF Coherent
<1>2. CASE p = 1
  <2>1. CASE q = 1
    BY <1>1, <1>2, <2>1 DEF Coherent, Sign
  <2>2. CASE q = 0
    BY <1>1, <1>2, <2>2 DEF Coherent, Sign
  <2>3. CASE q = -1
    <3>1. CASE r = 1
      BY <1>1, <1>2, <2>3, <3>1 DEF Coherent, Sign
    <3>2. CASE r = 0
      BY <1>1, <1>2, <2>3, <3>2 DEF Coherent, Sign
    <3>3. CASE r = -1
      BY <1>1, <1>2, <2>3, <3>3 DEF Coherent, Sign
    <3>4. QED
      BY <1>1, <3>1, <3>2, <3>3 DEF Sign
  <2>4. QED
    BY <1>1, <2>1, <2>2, <2>3 DEF Sign
<1>3. CASE p = 0
  <2>1. CASE q = 1
    BY <1>1, <1>3, <2>1 DEF Coherent, Sign
  <2>2. CASE q = 0
    BY <1>1, <1>3, <2>2 DEF Coherent, Sign
  <2>3. CASE q = -1
    BY <1>1, <1>3, <2>3 DEF Coherent, Sign
  <2>4. QED
    BY <1>1, <2>1, <2>2, <2>3 DEF Sign
<1>4. CASE p = -1
  <2>1. CASE q = 1
    <3>1. CASE r = 1
      BY <1>1, <1>4, <2>1, <3>1 DEF Coherent, Sign
    <3>2. CASE r = 0
      BY <1>1, <1>4, <2>1, <3>2 DEF Coherent, Sign
    <3>3. CASE r = -1
      BY <1>1, <1>4, <2>1, <3>3 DEF Coherent, Sign
    <3>4. QED
      BY <1>1, <3>1, <3>2, <3>3 DEF Sign
  <2>2. CASE q = 0
    BY <1>1, <1>4, <2>2 DEF Coherent, Sign
  <2>3. CASE q = -1
    BY <1>1, <1>4, <2>3 DEF Coherent, Sign
  <2>4. QED
    BY <1>1, <2>1, <2>2, <2>3 DEF Sign
<1>5. QED
  BY <1>1, <1>2, <1>3, <1>4 DEF Sign

Weighted(S, f, g, h, m, a, b, c, d) ==
  \A e : (\A x \in S : e[x] = a * f[x] + b * g[x] + c * h[x] + d * m[x]) =>
          SumOf(e, S) = a * SumOf(f, S) + b * SumOf(g, S) + c * SumOf(h, S) + d * SumOf(m, S)

(* SumCombines for four series.                                            *)
LEMMA FourCombine ==
  ASSUME NEW S, IsFiniteSet(S), NEW f, IntOn(S, f), NEW g, IntOn(S, g), NEW h, IntOn(S, h),
         NEW m, IntOn(S, m), NEW a \in Int, NEW b \in Int, NEW c \in Int, NEW d \in Int
  PROVE  Weighted(S, f, g, h, m, a, b, c, d)
<1> SUFFICES ASSUME NEW e, \A x \in S : e[x] = a * f[x] + b * g[x] + c * h[x] + d * m[x]
             PROVE  SumOf(e, S) = a * SumOf(f, S) + b * SumOf(g, S) + c * SumOf(h, S) + d * SumOf(m, S)
  BY DEF Weighted
<1> DEFINE u == [x \in S |-> a * f[x] + b * g[x]]
           v == [x \in S |-> c * h[x] + d * m[x]]
           w == [x \in S |-> 1 * u[x] + 1 * v[x]]
<1>0. \A o : IntOn(S, o) => \A p : IntOn(S, p) => \A i \in Int : \A j \in Int :
        /\ SumOf(o, S) \in Int /\ SumOf(p, S) \in Int
        /\ SumOf([x \in S |-> i * o[x] + j * p[x]], S) = i * SumOf(o, S) + j * SumOf(p, S)
  BY SumCombines
<1>1. \A x \in S : f[x] \in Int /\ g[x] \in Int /\ h[x] \in Int /\ m[x] \in Int
  BY DEF IntOn
<1>2. \A x \in S : a * f[x] \in Int /\ b * g[x] \in Int /\ c * h[x] \in Int /\ d * m[x] \in Int
  BY <1>1
<1>3. IntOn(S, u) /\ IntOn(S, v)
  BY <1>2 DEF IntOn
<1>4. SumOf(u, S) = a * SumOf(f, S) + b * SumOf(g, S) /\ SumOf(f, S) \in Int /\ SumOf(g, S) \in Int
  BY <1>0
<1>5. SumOf(v, S) = c * SumOf(h, S) + d * SumOf(m, S) /\ SumOf(h, S) \in Int /\ SumOf(m, S) \in Int
  BY <1>0
<1>6. \A x \in S : e[x] = w[x]
  BY <1>2
<1> HIDE DEF u, v
<1>7. SumOf(w, S) = 1 * SumOf(u, S) + 1 * SumOf(v, S)
  <2>1. \A i \in Int : \A j \in Int :
          SumOf([x \in S |-> i * u[x] + j * v[x]], S) = i * SumOf(u, S) + j * SumOf(v, S)
    BY <1>0, <1>3
  <2>2. QED
    BY <2>1
<1> HIDE DEF w
<1>8. SumOf(e, S) = SumOf(w, S)
  BY <1>6 DEF SumOf
<1> DEFINE sf == a * SumOf(f, S)
           sg == b * SumOf(g, S)
           sh == c * SumOf(h, S)
           sm == d * SumOf(m, S)
<1>9. sf \in Int /\ sg \in Int /\ sh \in Int /\ sm \in Int
  BY <1>4, <1>5
<1>10. SumOf(e, S) = 1 * (sf + sg) + 1 * (sh + sm)
  BY <1>4, <1>5, <1>7, <1>8
<1> HIDE DEF sf, sg, sh, sm
<1>11. SumOf(e, S) = sf + sg + sh + sm
  BY <1>9, <1>10
<1>12. QED
  BY <1>11 DEF sf, sg, sh, sm

(* A sum of naturals is one.                                               *)
LEMMA SumOfMany ==
  ASSUME NEW S, IsFiniteSet(S)
  PROVE  \A f : (\A x \in S : f[x] \in Nat) => SumOf(f, S) \in Nat
<1> SUFFICES ASSUME NEW f, \A x \in S : f[x] \in Nat PROVE SumOf(f, S) \in Nat
  OBVIOUS
<1> DEFINE g == [x \in S |-> f[x]]
<1>1. DOMAIN g = S /\ IsFiniteSet(DOMAIN g) /\ \A x \in DOMAIN g : g[x] \in Nat
  OBVIOUS
<1> HIDE DEF g
<1>2. Total(g) \in Nat
  BY <1>1, TotalOfNaturals
<1>3. QED
  BY <1>2 DEF SumOf, g

(* If a cube and its two turns never add up below zero, its sum is not below zero. *)
LEMMA TurnsAreNotNegative ==
  ASSUME NEW S, IsFiniteSet(S), NEW g, Cube(S, g),
         \A x, y, z \in S : g[x][y][z] + g[y][z][x] + g[z][x][y] >= 0
  PROVE  CubeSum(S, g) >= 0
<1> DEFINE t == Turned(S, g)
           u == Turned(S, t)
           e == [x \in S |-> [y \in S |-> [z \in S |-> g[x][y][z] + t[x][y][z] + u[x][y][z]]]]
<1>0. \A f : Cube(S, f) => Cube(S, Turned(S, f)) /\ CubeSum(S, f) \in Int
                           /\ CubeSum(S, Turned(S, f)) = CubeSum(S, f)
  BY TurnedSum
<1>1. /\ Cube(S, t) /\ Cube(S, u) /\ CubeSum(S, g) \in Int
      /\ CubeSum(S, t) = CubeSum(S, g) /\ CubeSum(S, u) = CubeSum(S, g)
  BY <1>0
<1>2. \A x, y, z \in S : t[x][y][z] = g[y][z][x] /\ u[x][y][z] = g[z][x][y]
  BY DEF Turned
<1> HIDE DEF t, u
<1>3. \A x, y, z \in S : g[x][y][z] \in Int /\ t[x][y][z] \in Int /\ u[x][y][z] \in Int
  BY <1>1 DEF Cube, Table, IntOn
<1>4. \A x, y, z \in S : e[x][y][z] = g[x][y][z] + t[x][y][z] + u[x][y][z]
  OBVIOUS
<1> HIDE DEF e
<1>5. \A x, y, z \in S : e[x][y][z] \in Nat
  BY <1>2, <1>3, <1>4
<1>6. \A x, y \in S : SumOf(e[x][y], S) \in Nat
  BY <1>5, SumOfMany
<1>7. \A x \in S : SumsOf(S, e[x]) \in Nat
  <2>1. \A x \in S : \A y \in S : Rows(S, e[x])[y] \in Nat
    BY <1>6 DEF Rows
  <2>2. \A f : (\A x \in S : f[x] \in Nat) => SumOf(f, S) \in Nat
    BY SumOfMany
  <2>3. QED
    BY <2>1, <2>2 DEF SumsOf
<1>8. CubeSum(S, e) \in Nat
  <2> DEFINE r == [x \in S |-> SumsOf(S, e[x])]
  <2>1. \A x \in S : r[x] \in Nat
    BY <1>7
  <2> HIDE DEF r
  <2>2. SumOf(r, S) \in Nat
    BY <2>1, SumOfMany
  <2>3. QED
    BY <2>2 DEF CubeSum, r
(* Line by line, then table by table, then all of it. *)
<1>9. \A f : IntOn(S, f) => \A h : IntOn(S, h) => \A k : IntOn(S, k) =>
         \A m : (\A x \in S : m[x] = f[x] + h[x] + k[x]) =>
           SumOf(m, S) = SumOf(f, S) + SumOf(h, S) + SumOf(k, S)
  <2> SUFFICES ASSUME NEW f, NEW h, NEW k, NEW m, IntOn(S, f), IntOn(S, h), IntOn(S, k),
                      \A x \in S : m[x] = f[x] + h[x] + k[x]
               PROVE  SumOf(m, S) = SumOf(f, S) + SumOf(h, S) + SumOf(k, S)
    OBVIOUS
  <2>1. \A x \in S : m[x] = 1 * f[x] + 1 * h[x] + 1 * k[x] + 0 * k[x]
    BY DEF IntOn
  <2>2. Weighted(S, f, h, k, k, 1, 1, 1, 0)
    <3>1. 0 \in Int /\ 1 \in Int
      OBVIOUS
    <3>2. QED
      BY <3>1, FourCombine, Zenon
  <2>3. SumOf(m, S) = 1 * SumOf(f, S) + 1 * SumOf(h, S) + 1 * SumOf(k, S) + 0 * SumOf(k, S)
    BY <2>1, <2>2, Zenon DEF Weighted
  <2>4. SumOf(f, S) \in Int /\ SumOf(h, S) \in Int /\ SumOf(k, S) \in Int
    BY SumsAdd
  <2>5. QED
    BY <2>3, <2>4
<1>10. \A f : IntOn(S, f) => SumOf(f, S) \in Int
  BY SumsAdd
<1>11. \A x, y \in S : SumOf(e[x][y], S) = SumOf(g[x][y], S) + SumOf(t[x][y], S) + SumOf(u[x][y], S)
  <2>1. ASSUME NEW x \in S, NEW y \in S
        PROVE  SumOf(e[x][y], S) = SumOf(g[x][y], S) + SumOf(t[x][y], S) + SumOf(u[x][y], S)
    <3> DEFINE gg == g[x][y]
               tt == t[x][y]
               uu == u[x][y]
               ee == e[x][y]
    <3>1. IntOn(S, gg) /\ IntOn(S, tt) /\ IntOn(S, uu)
      BY <1>1 DEF Cube, Table
    <3>2. \A z \in S : ee[z] = gg[z] + tt[z] + uu[z]
      BY <1>4
    <3> HIDE DEF gg, tt, uu, ee
    <3>3. SumOf(ee, S) = SumOf(gg, S) + SumOf(tt, S) + SumOf(uu, S)
      BY <1>9, <3>1, <3>2
    <3>4. QED
      BY <3>3 DEF gg, tt, uu, ee
  <2>2. QED
    BY <2>1
<1>12. \A x \in S : IntOn(S, Rows(S, g[x])) /\ IntOn(S, Rows(S, t[x])) /\ IntOn(S, Rows(S, u[x]))
  BY <1>1, <1>10 DEF Cube, Table, IntOn, Rows
<1>13. \A x \in S : SumsOf(S, e[x]) = SumsOf(S, g[x]) + SumsOf(S, t[x]) + SumsOf(S, u[x])
  <2>1. \A x \in S : \A y \in S : Rows(S, e[x])[y] = Rows(S, g[x])[y] + Rows(S, t[x])[y] + Rows(S, u[x])[y]
    BY <1>11 DEF Rows
  <2>2. QED
    BY <1>9, <1>12, <2>1 DEF SumsOf
<1> DEFINE R(f) == [x \in S |-> SumsOf(S, f[x])]
<1>14. IntOn(S, R(g)) /\ IntOn(S, R(t)) /\ IntOn(S, R(u))
  <2>1. \A x \in S : SumsOf(S, g[x]) \in Int /\ SumsOf(S, t[x]) \in Int /\ SumsOf(S, u[x]) \in Int
    BY <1>10, <1>12 DEF SumsOf
  <2>2. QED
    BY <2>1 DEF IntOn
<1>15. \A x \in S : R(e)[x] = R(g)[x] + R(t)[x] + R(u)[x]
  BY <1>13
<1>16. CubeSum(S, e) = CubeSum(S, g) + CubeSum(S, t) + CubeSum(S, u)
  <2>1. /\ CubeSum(S, e) = SumOf(R(e), S) /\ CubeSum(S, g) = SumOf(R(g), S)
        /\ CubeSum(S, t) = SumOf(R(t), S) /\ CubeSum(S, u) = SumOf(R(u), S)
    BY DEF CubeSum
  <2> HIDE DEF R
  <2>2. SumOf(R(e), S) = SumOf(R(g), S) + SumOf(R(t), S) + SumOf(R(u), S)
    BY <1>9, <1>14, <1>15
  <2>3. QED
    BY <2>1, <2>2
<1>17. QED
  BY <1>1, <1>8, <1>16

(* The sum of the products of two series. *)
Dot(S, f, g) == SumOf([x \in S |-> f[x] * g[x]], S)

(* Where two tables have the same sign, and where the opposite one. *)
Common(S, s, t) == [x \in S |-> [y \in S |-> s[x][y] * t[x][y]]]

(* An inequality of rank correlations, with ties: twice the covariance of  *)
(* two series of ranks is at most the variance of one of them, plus the    *)
(* pairs on which the series agree less those on which they do not.        *)
LEMMA TwoOrders ==
  ASSUME NEW S, IsFiniteSet(S), NEW a, \A x \in S : a[x] \in Nat, NEW b, \A x \in S : b[x] \in Nat
  PROVE  LET s == Ways(S, a)
             t == Ways(S, b)
         IN  2 * Dot(S, Rows(S, s), Rows(S, t))
               <= Dot(S, Rows(S, s), Rows(S, s)) + Cardinality(S) * SumsOf(S, Common(S, s, t))
<1> DEFINE s == Ways(S, a)
           t == Ways(S, b)
           A == Rows(S, s)
           B == Rows(S, t)
           m == Common(S, s, t)
           C == Rows(S, m)
           K == SumsOf(S, m)
           g == [x \in S |-> [y \in S |-> [z \in S |-> Excess(s, t, x, y, z)]]]
<1>1. \A x, y, z \in S : /\ Coherent(s[x][y], s[y][z], s[x][z]) /\ s[y][x] = -s[x][y]
                         /\ Coherent(t[x][y], t[y][z], t[x][z]) /\ t[y][x] = -t[x][y]
  BY WaysCohere DEF Ways
<1>2. \A x, y \in S : s[x][y] \in Sign /\ t[x][y] \in Sign
  BY WaysCohere DEF Ways
<1>3. \A x, y \in S : m[x][y] = s[x][y] * t[x][y] /\ m[x][y] \in Int
  BY <1>2 DEF Common, Sign
<1> HIDE DEF s, t, m
<1>4. \A x, y, z \in S :
        g[x][y][z] = s[x][y] * s[x][z] - s[x][y] * t[x][z] - s[x][z] * t[x][y] + s[y][z] * t[y][z]
  BY DEF Excess
<1> HIDE DEF g
<1>5. ASSUME NEW x \in S, NEW y \in S, NEW z \in S
      PROVE  g[x][y][z] \in Int /\ g[x][y][z] + g[y][z][x] + g[z][x][y] >= 0
  <2> DEFINE p == s[x][y]
             q == s[y][z]
             r == s[x][z]
             i == t[x][y]
             j == t[y][z]
             k == t[x][z]
  <2>1. Coherent(p, q, r) /\ Coherent(i, j, k) /\ p \in Int /\ q \in Int /\ r \in Int
        /\ i \in Int /\ j \in Int /\ k \in Int
    BY <1>1, <1>2 DEF Sign
  <2>2. /\ s[y][x] = -p /\ s[z][y] = -q /\ s[z][x] = -r
        /\ t[y][x] = -i /\ t[z][y] = -j /\ t[z][x] = -k
    BY <1>1
  <2>3. /\ g[x][y][z] = p * r - p * k - r * i + q * j
        /\ g[y][z][x] = q * (-p) - q * (-i) - (-p) * j + (-r) * (-k)
        /\ g[z][x][y] = (-r) * (-q) - (-r) * (-j) - (-q) * (-k) + p * i
    BY <1>4, <2>2
  <2> HIDE DEF p, q, r, i, j, k
  <2>4. (p * r - p * k - r * i + q * j)
           + (q * (-p) - q * (-i) - (-p) * j + (-r) * (-k))
           + ((-r) * (-q) - (-r) * (-j) - (-q) * (-k) + p * i) >= 0
    BY <2>1, ThreeInTwoOrders
  <2>5. p * r \in Int /\ p * k \in Int /\ r * i \in Int /\ q * j \in Int
    BY <2>1
  <2>6. g[x][y][z] \in Int
    BY <2>3, <2>5
  <2>7. QED
    BY <2>3, <2>4, <2>6
<1>6. Cube(S, g)
  BY <1>5 DEF Cube, Table, IntOn
<1>7. CubeSum(S, g) >= 0
  <2>1. \A x, y, z \in S : g[x][y][z] + g[y][z][x] + g[z][x][y] >= 0
    BY <1>5
  <2>2. QED
    BY <1>6, <2>1, TurnsAreNotNegative
(* The rows of one order, of the other and of what they have in common. *)
<1>8. \A f : IntOn(S, f) => SumOf(f, S) \in Int
  BY SumsAdd
<1>9. \A x \in S : IntOn(S, s[x]) /\ IntOn(S, t[x]) /\ IntOn(S, m[x])
  BY <1>2, <1>3 DEF IntOn, Sign
<1>10. /\ \A x \in S : A[x] = SumOf(s[x], S) /\ B[x] = SumOf(t[x], S) /\ C[x] = SumOf(m[x], S)
       /\ K = SumOf(C, S)
  BY DEF Rows, SumsOf
<1> HIDE DEF A, B, C, K
<1>11. \A x \in S : A[x] \in Int /\ B[x] \in Int /\ C[x] \in Int
  BY <1>8, <1>9, <1>10
<1>12. IntOn(S, C) /\ K \in Int
  BY <1>8, <1>10, <1>11 DEF IntOn
<1>13. ASSUME NEW x \in S, NEW y \in S
       PROVE  SumOf(g[x][y], S) = A[x] * s[x][y] + (-B[x]) * s[x][y] + (-A[x]) * t[x][y] + 1 * C[y]
  <2> DEFINE u == s[x][y]
             v == t[x][y]
             sx == s[x]
             tx == t[x]
             my == m[y]
             e == g[x][y]
  <2>1. u \in Int /\ v \in Int /\ -u \in Int /\ -v \in Int /\ 1 \in Int
    BY <1>2 DEF Sign
  <2>2. IntOn(S, sx) /\ IntOn(S, tx) /\ IntOn(S, my)
    BY <1>9
  <2>3. \A z \in S : e[z] = u * sx[z] + (-u) * tx[z] + (-v) * sx[z] + 1 * my[z]
    <3>1. ASSUME NEW z \in S PROVE e[z] = u * sx[z] + (-u) * tx[z] + (-v) * sx[z] + 1 * my[z]
      <4> DEFINE p == sx[z]
                 q == tx[z]
                 o == my[z]
      <4>1. e[z] = u * p - u * q - p * v + o /\ p \in Int /\ q \in Int /\ o \in Int
        BY <1>2, <1>3, <1>4 DEF Sign
      <4> HIDE DEF p, q, o, u, v, e
      <4>2. /\ (-u) * q = -(u * q) /\ (-v) * p = -(p * v) /\ u * p \in Int /\ u * q \in Int
            /\ p * v \in Int /\ 1 * o = o
        BY <2>1, <4>1
      <4>3. e[z] = u * p + (-u) * q + (-v) * p + 1 * o
        BY <4>1, <4>2
      <4>4. QED
        BY <4>3 DEF p, q, o
    <3>2. QED
      BY <3>1
  <2>4. /\ A[x] = SumOf(sx, S) /\ B[x] = SumOf(tx, S) /\ C[y] = SumOf(my, S)
        /\ A[x] \in Int /\ B[x] \in Int /\ C[y] \in Int
    BY <1>10, <1>11
  <2> HIDE DEF u, v, sx, tx, my, e
  <2>5. Weighted(S, sx, tx, sx, my, u, -u, -v, 1)
    BY <2>1, <2>2, FourCombine, Zenon
  <2>6. SumOf(e, S) = u * SumOf(sx, S) + (-u) * SumOf(tx, S) + (-v) * SumOf(sx, S) + 1 * SumOf(my, S)
    BY <2>3, <2>5, Zenon DEF Weighted
  <2> DEFINE p == A[x]
             q == B[x]
             o == C[y]
  <2>7. SumOf(e, S) = u * p + (-u) * q + (-v) * p + 1 * o
    BY <2>4, <2>6
  <2> HIDE DEF p, q, o
  <2>8. p \in Int /\ q \in Int /\ o \in Int
    BY <2>4 DEF p, q, o
  <2>9. u * p = p * u /\ (-u) * q = (-q) * u /\ (-v) * p = (-p) * v
    BY <2>1, <2>8
  <2>10. SumOf(e, S) = p * u + (-q) * u + (-p) * v + 1 * o
    BY <2>7, <2>9
  <2>11. QED
    BY <2>10 DEF e, p, q, o, u, v
<1>14. ASSUME NEW x \in S
       PROVE  SumsOf(S, g[x]) = 1 * (A[x] * A[x]) + (-2) * (A[x] * B[x]) + 0 + K * 1
  <2> DEFINE p == A[x]
             q == B[x]
             sx == s[x]
             tx == t[x]
             r == Rows(S, g[x])
  <2>1. p \in Int /\ q \in Int /\ -p \in Int /\ -q \in Int /\ 1 \in Int
    BY <1>11
  <2>2. IntOn(S, sx) /\ IntOn(S, tx) /\ p = SumOf(sx, S) /\ q = SumOf(tx, S)
    BY <1>9, <1>10
  <2>3. \A y \in S : r[y] = p * sx[y] + (-q) * sx[y] + (-p) * tx[y] + 1 * C[y]
    BY <1>13 DEF Rows
  <2>4. SumsOf(S, g[x]) = SumOf(r, S)
    BY DEF SumsOf
  <2> HIDE DEF p, q, sx, tx, r
  <2>5. Weighted(S, sx, sx, tx, C, p, -q, -p, 1)
    BY <1>12, <2>1, <2>2, FourCombine, Zenon
  <2>6. SumOf(r, S) = p * SumOf(sx, S) + (-q) * SumOf(sx, S) + (-p) * SumOf(tx, S) + 1 * SumOf(C, S)
    BY <2>3, <2>5, Zenon DEF Weighted
  <2>7. SumOf(r, S) = p * p + (-q) * p + (-p) * q + 1 * K
    BY <1>10, <2>2, <2>6
  <2>8. (-q) * p = -(p * q) /\ (-p) * q = -(p * q) /\ p * q \in Int /\ p * p \in Int
    BY <2>1
  <2>9. SumOf(r, S) = 1 * (p * p) + (-2) * (p * q) + 0 + K * 1
    BY <1>12, <2>7, <2>8
  <2>10. QED
    BY <2>4, <2>9 DEF p, q
<1> DEFINE AA == [x \in S |-> A[x] * A[x]]
           AB == [x \in S |-> A[x] * B[x]]
           One == [x \in S |-> IF x \in S THEN 1 ELSE 0]
           r == [x \in S |-> SumsOf(S, g[x])]
           n == Cardinality(S)
<1>15. IntOn(S, AA) /\ IntOn(S, AB) /\ IntOn(S, One)
  <2>1. \A x \in S : A[x] * A[x] \in Int /\ A[x] * B[x] \in Int
    BY <1>11
  <2>2. QED
    BY <2>1 DEF IntOn
<1>16. SumOf(One, S) = n /\ n \in Nat
  BY SumOfOnes, FS_CardinalityType
<1>17. \A x \in S : r[x] = 1 * AA[x] + (-2) * AB[x] + 0 * AB[x] + K * One[x]
  <2>1. ASSUME NEW x \in S PROVE r[x] = 1 * AA[x] + (-2) * AB[x] + 0 * AB[x] + K * One[x]
    <3>1. /\ r[x] = 1 * AA[x] + (-2) * AB[x] + 0 + K * 1 /\ One[x] = 1
      BY <1>14
    <3>2. AB[x] \in Int
      BY <1>15 DEF IntOn
    <3> HIDE DEF AA, AB, One, r
    <3>3. 0 * AB[x] = 0
      BY <3>2
    <3>4. QED
      BY <3>1, <3>3
  <2>2. QED
    BY <2>1
<1>18. CubeSum(S, g) = SumOf(r, S) /\ Dot(S, A, A) = SumOf(AA, S) /\ Dot(S, A, B) = SumOf(AB, S)
  BY DEF CubeSum, Dot
<1> HIDE DEF AA, AB, One, r, n
<1>19. Weighted(S, AA, AB, AB, One, 1, -2, 0, K)
  <2>1. 1 \in Int /\ -2 \in Int /\ 0 \in Int
    OBVIOUS
  <2>2. QED
    BY <1>12, <1>15, <2>1, FourCombine, Zenon
<1>20. SumOf(r, S) = 1 * SumOf(AA, S) + (-2) * SumOf(AB, S) + 0 * SumOf(AB, S) + K * SumOf(One, S)
  BY <1>17, <1>19, Zenon DEF Weighted
<1>21. SumOf(AA, S) \in Int /\ SumOf(AB, S) \in Int
  BY <1>8, <1>15
<1> DEFINE aa == SumOf(AA, S)
           ab == SumOf(AB, S)
           kn == K * n
<1>22. 1 * aa + (-2) * ab + 0 * ab + kn >= 0
  BY <1>7, <1>16, <1>18, <1>20
<1>23. kn \in Int /\ kn = n * K
  BY <1>12, <1>16
<1> HIDE DEF aa, ab, kn
<1>24. aa \in Int /\ ab \in Int
  BY <1>21 DEF aa, ab
<1>25. 2 * ab <= aa + kn
  BY <1>22, <1>23, <1>24
<1>26. 2 * Dot(S, A, B) <= Dot(S, A, A) + n * K
  BY <1>18, <1>23, <1>25 DEF aa, ab
<1>27. QED
  BY <1>26 DEF s, t, m, A, B, K, n

-----------------------------------------------------------------------------
(* Ranks are sums of ways, moved up.                                        *)

(* A series turned into a table of signs, skew and with zeros inside.      *)
LEMMA WaysAreSigns ==
  ASSUME NEW S, NEW a, \A x \in S : a[x] \in Nat
  PROVE  /\ \A x, y \in S : /\ Ways(S, a)[x][y] = Way(a[x], a[y]) /\ Ways(S, a)[x][y] \in Sign
                            /\ Ways(S, a)[y][x] = -Ways(S, a)[x][y]
         /\ Table(S, Ways(S, a))
<1>1. \A x, y \in S : /\ Ways(S, a)[x][y] = Way(a[x], a[y]) /\ Ways(S, a)[x][y] \in Sign
                      /\ Ways(S, a)[y][x] = -Ways(S, a)[x][y]
  BY WaysCohere DEF Ways
<1>2. QED
  BY <1>1 DEF Table, IntOn, Sign

(* Every pair is there both ways round, so the table sums to nothing.      *)
LEMMA WaysCancel ==
  ASSUME NEW S, IsFiniteSet(S), NEW a, \A x \in S : a[x] \in Nat
  PROVE  SumsOf(S, Ways(S, a)) = 0 /\ IntOn(S, Rows(S, Ways(S, a)))
<1> DEFINE s == Ways(S, a)
           A == Rows(S, s)
           B == Rows(S, Flip(S, s))
<1>1. Table(S, s) /\ \A x, y \in S : s[y][x] = -s[x][y] /\ s[x][y] \in Int
  BY WaysAreSigns DEF Sign
<1> HIDE DEF s
<1>2. /\ Table(S, Flip(S, s)) /\ IntOn(S, A) /\ SumOf(A, S) \in Int
      /\ SumOf(B, S) = SumOf(A, S)
  BY <1>1, SumByColumns
<1>3. ASSUME NEW x \in S PROVE SumOf(Flip(S, s)[x], S) = -SumOf(s[x], S)
  <2> DEFINE f == Flip(S, s)[x]
             g == s[x]
  <2>1. IntOn(S, g) /\ \A y \in S : f[y] = (-1) * g[y] + 0 * g[y] + 0 * g[y] + 0 * g[y]
    <3>1. IntOn(S, g) /\ \A y \in S : f[y] = s[y][x] /\ g[y] \in Int
      BY <1>1 DEF Flip, Table
    <3>2. \A y \in S : f[y] = -g[y]
      BY <1>1, <3>1
    <3> HIDE DEF f, g
    <3>3. QED
      BY <3>1, <3>2
  <2> HIDE DEF f, g
  <2>2. Weighted(S, g, g, g, g, -1, 0, 0, 0)
    <3>1. -1 \in Int /\ 0 \in Int
      OBVIOUS
    <3>2. QED
      BY <2>1, <3>1, FourCombine, Zenon
  <2>3. SumOf(f, S) = (-1) * SumOf(g, S) + 0 * SumOf(g, S) + 0 * SumOf(g, S) + 0 * SumOf(g, S)
    BY <2>1, <2>2, Zenon DEF Weighted
  <2>4. SumOf(g, S) \in Int
    BY <2>1, SumsAdd
  <2>5. SumOf(f, S) = -SumOf(g, S)
    BY <2>3, <2>4
  <2>6. QED
    BY <2>5 DEF f, g
<1>4. \A x \in S : B[x] = (-1) * A[x] + 0 * A[x] + 0 * A[x] + 0 * A[x]
  <2>1. \A x \in S : B[x] = -A[x] /\ A[x] \in Int
    BY <1>2, <1>3 DEF Rows, IntOn
  <2> HIDE DEF A, B
  <2>2. QED
    BY <2>1
<1> HIDE DEF A, B
<1>5. Weighted(S, A, A, A, A, -1, 0, 0, 0)
  <2>1. -1 \in Int /\ 0 \in Int
    OBVIOUS
  <2>2. QED
    BY <1>2, <2>1, FourCombine, Zenon
<1>6. SumOf(B, S) = (-1) * SumOf(A, S) + 0 * SumOf(A, S) + 0 * SumOf(A, S) + 0 * SumOf(A, S)
  BY <1>4, <1>5, Zenon DEF Weighted
<1>7. SumOf(A, S) = 0
  BY <1>2, <1>6
<1>8. QED
  BY <1>2, <1>7 DEF SumsOf, A, s

(* The places of a series of naturals.                                     *)
LEMMA Places ==
  ASSUME NEW a \in Seq(Nat)
  PROVE  /\ Len(a) \in Nat /\ IsFiniteSet(1..Len(a)) /\ Cardinality(1..Len(a)) = Len(a)
         /\ DOMAIN a = 1..Len(a) /\ \A x \in 1..Len(a) : a[x] \in Nat
<1>1. Len(a) \in Nat /\ DOMAIN a = 1..Len(a) /\ \A x \in 1..Len(a) : a[x] \in Nat
  OBVIOUS
<1> DEFINE n == Len(a)
<1> HIDE DEF n
<1>2. n \in Nat => IsFiniteSet(1..n) /\ Cardinality(1..n) = n
  BY IntervalCount, FS_Interval
<1>3. QED
  BY <1>1, <1>2 DEF n

(* A doubled rank is the sum of its row, moved up by one more than there are. *)
LEMMA RankIsRow ==
  ASSUME NEW a \in Seq(Nat), NEW i \in 1..Len(a)
  PROVE  Ranks(a)[i] = Rows(1..Len(a), Ways(1..Len(a), a))[i] + Len(a) + 1
<1> DEFINE n == Len(a)
           S == 1..n
           L == {x \in S : a[x] < a[i]}
           M == {x \in S : a[x] <= a[i]}
           l == [x \in S |-> IF x \in L THEN 1 ELSE 0]
           m == [x \in S |-> IF x \in M THEN 1 ELSE 0]
           o == [x \in S |-> IF x \in S THEN 1 ELSE 0]
           s == Ways(S, a)[i]
<1>1. n \in Nat /\ IsFiniteSet(S) /\ DOMAIN a = S /\ (\A x \in S : a[x] \in Nat) /\ i \in S
      /\ Cardinality(S) = n
  BY Places
<1>2. Ranks(a)[i] = Cardinality(L) + 1 + Cardinality(M)
  BY <1>1 DEF Ranks, Below, AtMost
<1>3. /\ SumOf(l, S) = Cardinality(L) /\ SumOf(m, S) = Cardinality(M) /\ SumOf(o, S) = n
  BY <1>1, SumOfOnes
<1>4. Cardinality(L) \in Nat /\ Cardinality(M) \in Nat
  BY <1>1, Counted
<1>5. IntOn(S, l) /\ IntOn(S, m) /\ IntOn(S, o)
  BY DEF IntOn
<1>6. \A x \in S : s[x] = 1 * l[x] + 1 * m[x] + (-1) * o[x] + 0 * o[x]
  <2>1. \A x \in S : s[x] = Way(a[i], a[x])
    BY <1>1 DEF Ways
  <2>2. QED
    BY <1>1, <2>1 DEF Way
<1>7. Rows(S, Ways(S, a))[i] = SumOf(s, S)
  BY <1>1 DEF Rows
<1> HIDE DEF l, m, o, s, S, n, L, M
<1>8. Weighted(S, l, m, o, o, 1, 1, -1, 0)
  <2>1. -1 \in Int /\ 0 \in Int /\ 1 \in Int
    OBVIOUS
  <2>2. QED
    BY <1>1, <1>5, <2>1, FourCombine, Zenon
<1>9. SumOf(s, S) = 1 * SumOf(l, S) + 1 * SumOf(m, S) + (-1) * SumOf(o, S) + 0 * SumOf(o, S)
  BY <1>6, <1>8, Zenon DEF Weighted
<1>10. SumOf(s, S) = Cardinality(L) + Cardinality(M) - n
  BY <1>1, <1>3, <1>4, <1>9
<1>11. Ranks(a)[i] = Rows(S, Ways(S, a))[i] + n + 1
  BY <1>1, <1>2, <1>4, <1>7, <1>10
<1>12. QED
  BY <1>11 DEF S, n

(* The mean rank takes the same off again.                                 *)
LEMMA DeviationIsRow ==
  ASSUME NEW a \in Seq(Nat)
  PROVE  LET S == 1..Len(a)
         IN  /\ DOMAIN Deviations(Ranks(a)) = S
             /\ \A i \in S : Deviations(Ranks(a))[i] = Len(a) * Rows(S, Ways(S, a))[i]
<1> DEFINE n == Len(a)
           S == 1..n
           r == Ranks(a)
           A == Rows(S, Ways(S, a))
           o == [x \in S |-> IF x \in S THEN 1 ELSE 0]
<1>1. n \in Nat /\ IsFiniteSet(S) /\ DOMAIN a = S /\ (\A x \in S : a[x] \in Nat) /\ Cardinality(S) = n
  BY Places
<1>2. SumOf(A, S) = 0 /\ IntOn(S, A)
  BY <1>1, WaysCancel DEF SumsOf
<1>3. SumOf(o, S) = n /\ IntOn(S, o)
  BY <1>1, SumOfOnes DEF IntOn
<1>4. \A i \in S : r[i] = A[i] + n + 1
  BY RankIsRow
<1>5. DOMAIN r = S /\ Len(r) = n /\ r = [i \in S |-> r[i]]
  BY <1>1 DEF Ranks
<1>6. DOMAIN Deviations(r) = S /\ \A i \in S : Deviations(r)[i] = r[i] * n - Total(r)
  BY <1>5 DEF Deviations
<1>7. Total(r) = SumOf(r, S)
  BY <1>5 DEF SumOf
<1>8. \A i \in S : r[i] = 1 * A[i] + (n + 1) * o[i] + 0 * o[i] + 0 * o[i]
  <2>1. \A i \in S : A[i] \in Int /\ o[i] = 1
    BY <1>2 DEF IntOn
  <2> HIDE DEF A, o, r
  <2>2. \A i \in S : 1 * A[i] + (n + 1) * o[i] + 0 * o[i] + 0 * o[i] = A[i] + n + 1
    BY <1>1, <2>1
  <2>3. QED
    BY <1>4, <2>2
<1> HIDE DEF r, A, o, S, n
<1>9. Weighted(S, A, o, o, o, 1, n + 1, 0, 0)
  <2>1. 0 \in Int /\ 1 \in Int /\ n + 1 \in Int
    BY <1>1
  <2>2. QED
    BY <1>1, <1>2, <1>3, <2>1, FourCombine, Zenon
<1>10. SumOf(r, S) = 1 * SumOf(A, S) + (n + 1) * SumOf(o, S) + 0 * SumOf(o, S) + 0 * SumOf(o, S)
  BY <1>8, <1>9, Zenon DEF Weighted
<1>11. Total(r) = (n + 1) * n
  BY <1>1, <1>2, <1>3, <1>7, <1>10
<1>12. ASSUME NEW i \in S PROVE Deviations(r)[i] = n * A[i]
  <2> DEFINE u == A[i]
  <2>1. u \in Int /\ Deviations(r)[i] = (u + n + 1) * n - (n + 1) * n
    BY <1>2, <1>4, <1>6, <1>11 DEF IntOn
  <2> HIDE DEF u
  <2>2. (u + n + 1) * n = n * u + (n + 1) * n /\ n * u \in Int /\ (n + 1) * n \in Int
    BY <1>1, <2>1
  <2>3. Deviations(r)[i] = n * u
    BY <2>1, <2>2
  <2>4. QED
    BY <2>3 DEF u
<1>13. QED
  BY <1>6, <1>12 DEF r, A, S, n

(* The covariance of the ranks, then, is that of the rows.                 *)
LEMMA CovarianceIsDot ==
  ASSUME NEW a \in Seq(Nat), NEW b \in Seq(Nat), Len(b) = Len(a)
  PROVE  LET n == Len(a)
             S == 1..n
             A == Rows(S, Ways(S, a))
             B == Rows(S, Ways(S, b))
         IN  /\ Covariance(Deviations(Ranks(a)), Deviations(Ranks(b))) = (n * n) * Dot(S, A, B)
             /\ Dot(S, A, B) \in Int
<1> DEFINE n == Len(a)
           S == 1..n
           A == Rows(S, Ways(S, a))
           B == Rows(S, Ways(S, b))
           da == Deviations(Ranks(a))
           db == Deviations(Ranks(b))
           e == [i \in S |-> da[i] * db[i]]
           f == [i \in S |-> A[i] * B[i]]
<1>1. n \in Nat /\ IsFiniteSet(S) /\ (\A x \in S : a[x] \in Nat) /\ (\A x \in S : b[x] \in Nat)
  BY Places
<1>2. DOMAIN da = S /\ \A i \in S : da[i] = n * A[i]
  BY DeviationIsRow
<1>3. DOMAIN db = S /\ \A i \in S : db[i] = n * B[i]
  BY DeviationIsRow
<1>4. IntOn(S, A) /\ IntOn(S, B)
  BY <1>1, WaysCancel
<1> HIDE DEF n, A, B, da, db, S
<1>5. Covariance(da, db) = SumOf(e, S) /\ Dot(S, A, B) = SumOf(f, S)
  BY <1>2 DEF Covariance, SumOf, Dot
<1>6. ASSUME NEW i \in S
      PROVE  f[i] \in Int /\ e[i] = (n * n) * f[i] + 0 * f[i] + 0 * f[i] + 0 * f[i]
  <2> DEFINE u == A[i]
             v == B[i]
  <2>1. u \in Int /\ v \in Int /\ f[i] = u * v /\ e[i] = (n * u) * (n * v)
    BY <1>2, <1>3, <1>4 DEF IntOn
  <2> HIDE DEF u, v, e, f
  <2>2. u * v \in Int /\ n * n \in Int /\ (n * u) * (n * v) = (n * n) * (u * v)
    BY <1>1, <2>1
  <2> DEFINE w == u * v
             k == (n * n) * w
  <2>3. w \in Int /\ k \in Int /\ f[i] = w /\ e[i] = k
    BY <2>1, <2>2
  <2> HIDE DEF w, k
  <2>4. k + 0 * w + 0 * w + 0 * w = k
    BY <2>3
  <2>5. QED
    BY <2>3, <2>4 DEF k
<1>7. IntOn(S, f) /\ n * n \in Int
  BY <1>1, <1>6 DEF IntOn
<1>8. Weighted(S, f, f, f, f, n * n, 0, 0, 0)
  <2> DEFINE k == n * n
  <2>1. k \in Int
    BY <1>7
  <2> HIDE DEF k, f
  <2>3. 0 \in Int
    OBVIOUS
  <2>2. Weighted(S, f, f, f, f, k, 0, 0, 0)
    BY <1>1, <1>7, <2>1, <2>3, FourCombine, Zenon
  <2>4. QED
    BY <2>2 DEF k
<1> HIDE DEF e, f
<1>9. SumOf(e, S) = (n * n) * SumOf(f, S) + 0 * SumOf(f, S) + 0 * SumOf(f, S) + 0 * SumOf(f, S)
  BY <1>6, <1>8, Zenon DEF Weighted
<1>10. SumOf(f, S) \in Int
  BY <1>1, <1>7, SumsAdd
<1> DEFINE k == (n * n) * SumOf(f, S)
<1>11. k \in Int
  BY <1>7, <1>10
<1>12. SumOf(e, S) = k
  <2> DEFINE v == SumOf(f, S)
  <2>1. SumOf(e, S) = k + 0 * v + 0 * v + 0 * v /\ v \in Int
    BY <1>9, <1>10
  <2> HIDE DEF k, v
  <2>2. QED
    BY <1>11, <2>1
<1>13. QED
  BY <1>5, <1>10, <1>12 DEF da, db, A, B, S, n

(* Who passes has something in common with the humans. *)
LEMMA PassingHasCommon ==
  ASSUME NEW a \in Seq(Nat), NEW b \in Seq(Nat), Len(b) = Len(a), ReachesTarget(a, b)
  PROVE  LET S == 1..Len(a) IN SumsOf(S, Common(S, Ways(S, a), Ways(S, b))) > 0
<1> DEFINE n == Len(a)
           S == 1..n
           s == Ways(S, a)
           t == Ways(S, b)
           A == Rows(S, s)
           B == Rows(S, t)
           K == SumsOf(S, Common(S, s, t))
           aa == Dot(S, A, A)
           bb == Dot(S, B, B)
           ab == Dot(S, A, B)
           nn == n * n
<1>1. n \in Nat /\ IsFiniteSet(S) /\ Cardinality(S) = n /\ (\A x \in S : a[x] \in Nat)
  BY Places
<1>2. \A x \in S : b[x] \in Nat
  BY Places
<1>3. \A x, y \in S : s[x][y] \in Int /\ t[x][y] \in Int
  <2>1. \A x, y \in S : s[x][y] \in Sign
    BY <1>1, WaysAreSigns
  <2>2. \A x, y \in S : t[x][y] \in Sign
    BY <1>2, WaysAreSigns
  <2>3. QED
    BY <2>1, <2>2 DEF Sign
<1>4. /\ 2 * ab <= aa + n * K
      /\ 2 * Dot(S, B, A) <= bb + n * SumsOf(S, Common(S, t, s))
  BY <1>1, <1>2, TwoOrders
<1>5. Common(S, t, s) = Common(S, s, t)
  <2>1. \A x, y \in S : s[x][y] * t[x][y] = t[x][y] * s[x][y]
    BY <1>3
  <2> HIDE DEF s, t
  <2>2. QED
    BY <2>1 DEF Common
<1>6. IntOn(S, A) /\ IntOn(S, B)
  BY <1>1, <1>2, WaysCancel
<1>7. Dot(S, B, A) = ab
  <2>1. \A x \in S : A[x] * B[x] = B[x] * A[x]
    BY <1>6 DEF IntOn
  <2> HIDE DEF A, B
  <2>2. [x \in S |-> A[x] * B[x]] = [x \in S |-> B[x] * A[x]]
    BY <2>1
  <2>3. QED
    BY <2>2 DEF Dot
<1>8. K \in Int
  <2> DEFINE m == Common(S, s, t)
  <2>1. Table(S, m)
    <3>1. \A x, y \in S : s[x][y] * t[x][y] \in Int
      BY <1>3
    <3> HIDE DEF s, t
    <3>2. QED
      BY <3>1 DEF Common, Table, IntOn
  <2> HIDE DEF m
  <2>2. SumsOf(S, m) \in Int
    BY <1>1, <2>1, SumByColumns DEF SumsOf
  <2>3. QED
    BY <2>2 DEF m
<1>9. /\ Covariance(Deviations(Ranks(a)), Deviations(Ranks(b))) = nn * ab /\ ab \in Int
      /\ Covariance(Deviations(Ranks(a)), Deviations(Ranks(a))) = nn * aa /\ aa \in Int
      /\ Covariance(Deviations(Ranks(b)), Deviations(Ranks(b))) = nn * bb /\ bb \in Int
  BY CovarianceIsDot
<1> HIDE DEF A, B, s, t, S, aa, bb, ab, K
<1> DEFINE c == nn * ab
           va == nn * aa
           vb == nn * bb
<1>10. c > 0 /\ 100 * c * c >= 49 * va * vb
  BY <1>9 DEF ReachesTarget
<1>11. nn \in Nat /\ c \in Int /\ va \in Int /\ vb \in Int
  <2>1. nn \in Nat
    BY <1>1
  <2> HIDE DEF nn
  <2>2. QED
    BY <1>9, <2>1
<1>12. ASSUME K <= 0 PROVE FALSE
  <2>1. n * K <= 0
    <3>1. n \in Nat /\ K \in Int /\ K <= 0
      BY <1>1, <1>8, <1>12
    <3> HIDE DEF n
    <3>2. QED
      BY <3>1
  <2> DEFINE nk == n * K
  <2>2. nk \in Int /\ 2 * ab <= aa + nk /\ 2 * ab <= bb + nk /\ nk <= 0
    BY <1>1, <1>4, <1>5, <1>7, <1>8, <2>1 DEF K
  <2> HIDE DEF nk, nn
  <2>3. 2 * ab <= aa /\ 2 * ab <= bb
    BY <1>9, <2>2
  <2>4. nn * (2 * ab) <= nn * aa /\ nn * (2 * ab) <= nn * bb /\ nn * (2 * ab) = 2 * c
    BY <1>9, <1>11, <2>3
  <2>5. 2 * c <= va /\ 2 * c <= vb
    BY <2>4
  <2> HIDE DEF c, va, vb
  <2>6. (2 * c) * (2 * c) <= va * vb
    <3>1. (2 * c) * (2 * c) <= va * (2 * c)
      BY <1>10, <1>11, <2>5
    <3>2. va * (2 * c) <= va * vb
      BY <1>10, <1>11, <2>5
    <3> DEFINE x == (2 * c) * (2 * c)
               y == va * (2 * c)
               z == va * vb
    <3>3. x \in Int /\ y \in Int /\ z \in Int
      BY <1>11
    <3> HIDE DEF x, y, z
    <3>4. x <= z
      BY <3>1, <3>2, <3>3 DEF x, y, z
    <3>5. QED
      BY <3>4 DEF x, z
  <2> DEFINE cc == c * c
             w == va * vb
  <2>7. /\ cc \in Int /\ cc > 0 /\ w \in Int
        /\ (2 * c) * (2 * c) = 4 * cc /\ 100 * c * c = 100 * cc /\ 49 * va * vb = 49 * w
    BY <1>10, <1>11
  <2>8. 4 * cc <= w /\ 100 * cc >= 49 * w
    BY <1>10, <2>6, <2>7
  <2> HIDE DEF cc, w
  <2>9. QED
    BY <2>7, <2>8
<1>13. K > 0
  BY <1>8, <1>12
<1>14. QED
  BY <1>13 DEF K, s, t, S, n

-----------------------------------------------------------------------------
(* Pairs, counted in a table. *)
Tabled(S, X) == [x \in S |-> [y \in S |-> IF <<x, y>> \in X THEN 1 ELSE 0]]

(* The ones of such a table are the pairs.                                 *)
LEMMA PairsAreCounted ==
  ASSUME NEW S, IsFiniteSet(S), NEW X \in SUBSET (S \X S)
  PROVE  Table(S, Tabled(S, X)) /\ SumsOf(S, Tabled(S, X)) = Cardinality(X)
<1> DEFINE g == Tabled(S, X)
           r == Rows(S, g)
           Y(x) == {y \in S : <<x, y>> \in X}
           Upto(U) == {z \in X : z[1] \in U}
<1>1. Table(S, g)
  BY DEF Table, IntOn, Tabled
<1>2. ASSUME NEW x \in S PROVE r[x] = Cardinality(Y(x)) /\ IsFiniteSet(Y(x))
  <2>1. g[x] = [y \in S |-> IF y \in Y(x) THEN 1 ELSE 0]
    BY DEF Tabled
  <2>2. Y(x) \in SUBSET S /\ r[x] = SumOf(g[x], S)
    BY DEF Rows
  <2> HIDE DEF Y, g, r
  <2>3. IsFiniteSet(Y(x))
    BY <2>2, FS_Subset
  <2>4. QED
    BY <2>1, <2>2, <2>3, SumOfOnes
<1>3. IsFiniteSet(X)
  <2>1. IsFiniteSet(S \X S)
    BY FS_Product
  <2>2. QED
    BY <2>1, FS_Subset
<1>4. IntOn(S, r)
  BY <1>1, SumByColumns
<1>5. StepByStep(S, r)
  <2> HIDE DEF r
  <2>1. QED
    BY <1>4, SumsGoOn, Zenon
<1> HIDE DEF g, r
<1> DEFINE P == {U \in SUBSET S : SumOf(r, U) = Cardinality(Upto(U))}
<1>6. {} \in P
  <2>1. Upto({}) = {}
    OBVIOUS
  <2>2. QED
    BY <1>5, <2>1, FS_EmptySet DEF StepByStep
<1>7. ASSUME NEW U \in SUBSET S, U # {}, U \ {Pick(U)} \in P PROVE U \in P
  <2> DEFINE x == Pick(U)
             R == U \ {x}
             Z == {z \in X : z[1] = x}
             O == Upto(R)
             T == Y(x)
             f == [y \in T |-> <<x, y>>]
  <2>1. x \in U /\ x \in S /\ R \in SUBSET S
    BY <1>7, PickIsOne
  <2>2. SumOf(r, R) = Cardinality(O)
    BY <1>7
  <2> HIDE DEF P, x
  <2>3. SumOf(r, U) = Cardinality(T) + Cardinality(O)
    <3>1. SumOf(r, U) = r[x] + SumOf(r, R)
      BY <1>5, <2>1 DEF StepByStep
    <3>2. QED
      BY <1>2, <2>1, <2>2, <3>1
  <2>4. Upto(U) = O \cup Z /\ O \cap Z = {} /\ O \in SUBSET X /\ Z \in SUBSET X
    BY <2>1
  <2>5. IsFiniteSet(T)
    BY <1>2, <2>1
  <2>6. Cardinality(Z) = Cardinality(T)
    <3>1. f \in [T -> Z]
      OBVIOUS
    <3>2. \A y, z \in T : f[y] = f[z] => y = z
      OBVIOUS
    <3>3. \A z \in Z : \E y \in T : f[y] = z
      <4>1. ASSUME NEW z \in Z PROVE \E y \in T : f[y] = z
        <5>1. z \in S \X S /\ z[1] = x
          OBVIOUS
        <5>2. z = <<x, z[2]>> /\ z[2] \in S
          BY <5>1
        <5>3. z[2] \in T
          BY <5>2
        <5>4. QED
          BY <5>2, <5>3
      <4>2. QED
        BY <4>1
    <3> HIDE DEF f, T, Z
    <3>4. f \in Bijection(T, Z)
      BY <3>1, <3>2, <3>3 DEF Bijection, Injection, Surjection, IsInjective
    <3>5. ExistsBijection(T, Z)
      BY <3>4 DEF ExistsBijection
    <3>6. QED
      BY <2>5, <3>5, FS_Bijection
  <2> HIDE DEF O, Z, T, Upto, R
  <2>7. IsFiniteSet(O) /\ IsFiniteSet(Z)
    BY <1>3, <2>4, FS_Subset
  <2>8. Cardinality(O \cup Z) = Cardinality(O) + Cardinality(Z)
    <3>1. Cardinality(O \cup Z) = Cardinality(O) + Cardinality(Z) - Cardinality(O \cap Z)
      BY <2>7, FS_Union
    <3>2. Cardinality(O) \in Nat /\ Cardinality(Z) \in Nat /\ Cardinality({}) = 0
      BY <2>7, FS_CardinalityType, FS_EmptySet
    <3>3. Cardinality(O \cap Z) = 0
      BY <2>4, <3>2
    <3> DEFINE o == Cardinality(O)
               k == Cardinality(Z)
               l == Cardinality(O \cap Z)
               u == Cardinality(O \cup Z)
    <3>4. u = o + k - l /\ l = 0 /\ o \in Nat /\ k \in Nat
      BY <3>1, <3>2, <3>3
    <3> HIDE DEF o, k, l, u
    <3>5. u = o + k
      BY <3>4
    <3>6. QED
      BY <3>5 DEF o, k, u
  <2>9. Cardinality(O) \in Nat /\ Cardinality(Z) \in Nat
    BY <2>7, FS_CardinalityType
  <2>10. SumOf(r, U) = Cardinality(Upto(U))
    BY <2>3, <2>4, <2>6, <2>8, <2>9
  <2>11. QED
    BY <2>10 DEF P
<1> HIDE DEF P
<1>8. \A U \in SUBSET S : U \in P
  BY <1>6, <1>7, SubsetsBySize
<1>9. Upto(S) = X
  OBVIOUS
<1>10. SumOf(r, S) = Cardinality(X)
  BY <1>8, <1>9 DEF P
<1>11. QED
  BY <1>1, <1>10 DEF g, r, SumsOf

(* The same pairs, of other things. *)
LEMMA PairsRenamed ==
  ASSUME NEW S, IsFiniteSet(S), NEW L, NEW p, \A i \in S : p[i] \in L,
         \A i, j \in S : p[i] = p[j] => i = j, \A x \in L : \E i \in S : p[i] = x,
         NEW X \in SUBSET (S \X S), NEW Y \in SUBSET (L \X L),
         \A i, j \in S : <<i, j>> \in X <=> <<p[i], p[j]>> \in Y
  PROVE  Cardinality(Y) = Cardinality(X)
<1> DEFINE f == [z \in X |-> <<p[z[1]], p[z[2]]>>]
<1>1. \A z \in X : z = <<z[1], z[2]>> /\ z[1] \in S /\ z[2] \in S
  OBVIOUS
<1>2. \A y \in Y : y = <<y[1], y[2]>> /\ y[1] \in L /\ y[2] \in L
  OBVIOUS
<1>3. f \in [X -> Y]
  BY <1>1
<1>4. \A y, z \in X : f[y] = f[z] => y = z
  <2>1. ASSUME NEW y \in X, NEW z \in X, f[y] = f[z] PROVE y = z
    <3>1. p[y[1]] = p[z[1]] /\ p[y[2]] = p[z[2]]
      BY <2>1
    <3>2. y[1] = z[1] /\ y[2] = z[2]
      BY <1>1, <3>1
    <3>3. QED
      BY <1>1, <3>2
  <2>2. QED
    BY <2>1
<1>5. \A y \in Y : \E z \in X : f[z] = y
  <2>1. ASSUME NEW y \in Y PROVE \E z \in X : f[z] = y
    <3>1. PICK i \in S, j \in S : p[i] = y[1] /\ p[j] = y[2]
      BY <1>2
    <3>2. <<i, j>> \in X
      BY <1>2, <3>1
    <3>3. f[<<i, j>>] = y
      BY <1>2, <3>1, <3>2
    <3>4. QED
      BY <3>2, <3>3
  <2>2. QED
    BY <2>1
<1> HIDE DEF f
<1>6. f \in Bijection(X, Y)
  BY <1>3, <1>4, <1>5 DEF Bijection, Injection, Surjection, IsInjective
<1>7. ExistsBijection(X, Y)
  BY <1>6 DEF ExistsBijection
<1>8. IsFiniteSet(X)
  <2>1. IsFiniteSet(S \X S)
    BY FS_Product
  <2>2. QED
    BY <2>1, FS_Subset
<1>9. QED
  BY <1>7, <1>8, FS_Bijection

(* What two orders have in common is what they agree on, both ways round,   *)
(* less what they disagree on.                                              *)
LEMMA CommonIsCounted ==
  ASSUME NEW S, IsFiniteSet(S), NEW a, \A x \in S : a[x] \in Nat, NEW b, \A x \in S : b[x] \in Nat,
         NEW X \in SUBSET (S \X S), \A x, y \in S : <<x, y>> \in X <=> a[x] < a[y] /\ b[x] < b[y],
         NEW Y \in SUBSET (S \X S), \A x, y \in S : <<x, y>> \in Y <=> a[x] < a[y] /\ b[x] > b[y]
  PROVE  /\ SumsOf(S, Common(S, Ways(S, a), Ways(S, b))) = 2 * Cardinality(X) - 2 * Cardinality(Y)
         /\ Cardinality(X) \in Nat /\ Cardinality(Y) \in Nat
<1> DEFINE m == Common(S, Ways(S, a), Ways(S, b))
           c == Tabled(S, X)
           d == Tabled(S, Y)
           fc == Flip(S, c)
           fd == Flip(S, d)
<1>1. Table(S, c) /\ SumsOf(S, c) = Cardinality(X)
  BY PairsAreCounted
<1>2. Table(S, d) /\ SumsOf(S, d) = Cardinality(Y)
  BY PairsAreCounted
<1>3. Cardinality(X) \in Nat /\ Cardinality(Y) \in Nat
  <2>1. IsFiniteSet(S \X S)
    BY FS_Product
  <2>2. IsFiniteSet(X) /\ IsFiniteSet(Y)
    BY <2>1, FS_Subset
  <2>3. QED
    BY <2>2, FS_CardinalityType
<1>4. ASSUME NEW x \in S, NEW y \in S
      PROVE  m[x][y] = 1 * c[x][y] + 1 * fc[x][y] + (-1) * d[x][y] + (-1) * fd[x][y]
  <2>1. m[x][y] = Way(a[x], a[y]) * Way(b[x], b[y])
    BY DEF Common, Ways
  <2>2. /\ c[x][y] = IF a[x] < a[y] /\ b[x] < b[y] THEN 1 ELSE 0
        /\ fc[x][y] = IF a[y] < a[x] /\ b[y] < b[x] THEN 1 ELSE 0
        /\ d[x][y] = IF a[x] < a[y] /\ b[x] > b[y] THEN 1 ELSE 0
        /\ fd[x][y] = IF a[y] < a[x] /\ b[y] > b[x] THEN 1 ELSE 0
    BY DEF Flip, Tabled
  <2> HIDE DEF m, c, d, fc, fd
  <2> DEFINE ax == a[x]
             ay == a[y]
             bx == b[x]
             by == b[y]
  <2>3. ax \in Nat /\ ay \in Nat /\ bx \in Nat /\ by \in Nat
    OBVIOUS
  <2>4. /\ m[x][y] = Way(ax, ay) * Way(bx, by)
        /\ c[x][y] = IF ax < ay /\ bx < by THEN 1 ELSE 0
        /\ fc[x][y] = IF ay < ax /\ by < bx THEN 1 ELSE 0
        /\ d[x][y] = IF ax < ay /\ bx > by THEN 1 ELSE 0
        /\ fd[x][y] = IF ay < ax /\ by > bx THEN 1 ELSE 0
    BY <2>1, <2>2
  <2> HIDE DEF ax, ay, bx, by
  <2>5. CASE ax < ay
    <3>1. Way(ax, ay) = -1 /\ Way(bx, by) \in Sign
      BY <2>3, <2>5, WaysCohere DEF Way
    <3>2. m[x][y] = -Way(bx, by)
      BY <2>4, <3>1 DEF Sign
    <3>3. QED
      BY <2>3, <2>4, <2>5, <3>2 DEF Way
  <2>6. CASE ax = ay
    <3>1. Way(ax, ay) = 0 /\ Way(bx, by) \in Sign
      BY <2>3, <2>6, WaysCohere DEF Way
    <3>2. m[x][y] = 0
      BY <2>4, <3>1 DEF Sign
    <3>3. QED
      BY <2>3, <2>4, <2>6, <3>2
  <2>7. CASE ay < ax
    <3>1. Way(ax, ay) = 1 /\ Way(bx, by) \in Sign
      BY <2>3, <2>7, WaysCohere DEF Way
    <3>2. m[x][y] = Way(bx, by)
      BY <2>4, <3>1 DEF Sign
    <3>3. QED
      BY <2>3, <2>4, <2>7, <3>2 DEF Way
  <2>8. QED
    BY <2>3, <2>5, <2>6, <2>7
<1> HIDE DEF m, c, d
<1>5. /\ Table(S, fc) /\ IntOn(S, Rows(S, c)) /\ SumsOf(S, fc) = SumsOf(S, c)
      /\ Table(S, fd) /\ IntOn(S, Rows(S, d)) /\ SumsOf(S, fd) = SumsOf(S, d)
  BY <1>1, <1>2, SumByColumns DEF SumsOf
<1> HIDE DEF fc, fd
<1>6. IntOn(S, Rows(S, fc)) /\ IntOn(S, Rows(S, fd))
  BY <1>5, SumByColumns
<1>9. 1 \in Int /\ -1 \in Int
  OBVIOUS
<1>7. ASSUME NEW x \in S
      PROVE  SumOf(m[x], S) = 1 * SumOf(c[x], S) + 1 * SumOf(fc[x], S)
                                + (-1) * SumOf(d[x], S) + (-1) * SumOf(fd[x], S)
  <2> DEFINE mx == m[x]
             cx == c[x]
             dx == d[x]
             ex == fc[x]
             gx == fd[x]
  <2>1. IntOn(S, cx) /\ IntOn(S, dx) /\ IntOn(S, ex) /\ IntOn(S, gx)
    BY <1>1, <1>2, <1>5 DEF Table
  <2>2. \A y \in S : mx[y] = 1 * cx[y] + 1 * ex[y] + (-1) * dx[y] + (-1) * gx[y]
    BY <1>4
  <2> HIDE DEF mx, cx, dx, ex, gx
  <2>3. Weighted(S, cx, ex, dx, gx, 1, 1, -1, -1)
    BY <1>9, <2>1, FourCombine, Zenon
  <2>4. SumOf(mx, S) = 1 * SumOf(cx, S) + 1 * SumOf(ex, S) + (-1) * SumOf(dx, S) + (-1) * SumOf(gx, S)
    BY <2>2, <2>3, Zenon DEF Weighted
  <2>5. QED
    BY <2>4 DEF mx, cx, dx, ex, gx
<1> DEFINE rm == Rows(S, m)
           rc == Rows(S, c)
           rd == Rows(S, d)
           re == Rows(S, fc)
           rg == Rows(S, fd)
<1>8. \A x \in S : rm[x] = 1 * rc[x] + 1 * re[x] + (-1) * rd[x] + (-1) * rg[x]
  BY <1>7 DEF Rows
<1>10. /\ SumsOf(S, m) = SumOf(rm, S) /\ SumOf(rc, S) = Cardinality(X) /\ SumOf(re, S) = Cardinality(X)
       /\ SumOf(rd, S) = Cardinality(Y) /\ SumOf(rg, S) = Cardinality(Y)
       /\ IntOn(S, rc) /\ IntOn(S, rd) /\ IntOn(S, re) /\ IntOn(S, rg)
  BY <1>1, <1>2, <1>5, <1>6 DEF SumsOf
<1> HIDE DEF rm, rc, rd, re, rg
<1>11. Weighted(S, rc, re, rd, rg, 1, 1, -1, -1)
  BY <1>9, <1>10, FourCombine, Zenon
<1>12. SumOf(rm, S) = 1 * SumOf(rc, S) + 1 * SumOf(re, S) + (-1) * SumOf(rd, S) + (-1) * SumOf(rg, S)
  BY <1>8, <1>11, Zenon DEF Weighted
<1>13. SumsOf(S, m) = 2 * Cardinality(X) - 2 * Cardinality(Y)
  BY <1>3, <1>10, <1>12
<1>14. QED
  BY <1>3, <1>13 DEF m

-----------------------------------------------------------------------------
(* The places of the two series are the labelled turns, each once.          *)
LEMMA PassIsAgreement == TurnsInv /\ JudgedInv => PassMeansAgreement
<1> DEFINE Against == {x \in Apart : Judged(x[1]) > Judged(x[2])}
<1> SUFFICES ASSUME TurnsInv, JudgedInv, Validate(turns, judged).passed
             PROVE  Cardinality(Alike) > Cardinality(Against)
  BY DEF PassMeansAgreement
<1> DEFINE p == Paired(turns, judged)
           n == Len(p)
           S == 1..n
           a == HumanComposites(turns, judged)
           b == JudgeComposites(turns, judged)
<1>1. /\ p \in Seq(ToSet(turns)) /\ Labelled = ToSet(p)
      /\ DOMAIN p = S /\ n \in Nat
  BY PairedType DEF Labelled
<1>2. /\ a = [i \in S |-> Human(p[i])]
      /\ b = [i \in S |-> Judged(p[i])]
  BY <1>1 DEF HumanComposites, JudgeComposites, Human, Judged
<1>3. (\A i \in S : p[i] \in Labelled) /\ \A x \in Labelled : \E i \in S : p[i] = x
  BY <1>1 DEF ToSet
<1>4. \A i \in S : Human(p[i]) \in Nat /\ Judged(p[i]) \in Nat
  BY <1>3, PairedType
<1>5. IsInjective(p)
  <2> DEFINE T == ToSet(turns)
             L == {t \in T : DOMAIN t.labels # {} /\ t.id \in DOMAIN judged}
  <2>1. \A i \in DOMAIN turns : turns[i] \in T
    BY DEF ToSet
  <2>2. p = Kept(turns, L)
    BY <2>1 DEF Paired, Kept, Where
  <2>3. turns \in Seq(T) /\ IsInjective(turns)
    BY DEF TurnsInv
  <2> HIDE DEF L, p, T
  <2>4. QED
    BY <2>2, <2>3, KeptElements
<1>6. \A i, j \in S : p[i] = p[j] => i = j
  BY <1>1, <1>5 DEF IsInjective
<1>7. ReachesTarget(a, b)
  BY DEF Validate
<1> HIDE DEF a, b, p, n
<1>8. a \in Seq(Nat) /\ Len(a) = n /\ b \in Seq(Nat) /\ Len(b) = n
  <2>1. /\ a = [i \in 1..n |-> a[i]] /\ \A i \in 1..n : a[i] \in Nat
        /\ b = [i \in 1..n |-> b[i]] /\ \A i \in 1..n : b[i] \in Nat
    BY <1>2, <1>4
  <2>2. QED
    BY <1>1, <2>1, FunctionIsSeq
<1>9. SumsOf(S, Common(S, Ways(S, a), Ways(S, b))) > 0
  BY <1>7, <1>8, PassingHasCommon
<1> DEFINE X == {z \in S \X S : a[z[1]] < a[z[2]] /\ b[z[1]] < b[z[2]]}
           Y == {z \in S \X S : a[z[1]] < a[z[2]] /\ b[z[1]] > b[z[2]]}
<1>10. /\ X \in SUBSET (S \X S) /\ \A x, y \in S : <<x, y>> \in X <=> a[x] < a[y] /\ b[x] < b[y]
       /\ Y \in SUBSET (S \X S) /\ \A x, y \in S : <<x, y>> \in Y <=> a[x] < a[y] /\ b[x] > b[y]
  OBVIOUS
<1>11. IsFiniteSet(S) /\ (\A x \in S : a[x] \in Nat) /\ (\A x \in S : b[x] \in Nat)
  <2>1. IsFiniteSet(1..Len(a))
    BY <1>8, Places
  <2>2. QED
    BY <1>2, <1>4, <1>8, <2>1
<1> HIDE DEF X, Y, S
<1>12. /\ SumsOf(S, Common(S, Ways(S, a), Ways(S, b))) = 2 * Cardinality(X) - 2 * Cardinality(Y)
       /\ Cardinality(X) \in Nat /\ Cardinality(Y) \in Nat
  BY <1>10, <1>11, CommonIsCounted
<1>13. Cardinality(X) > Cardinality(Y)
  BY <1>9, <1>12
<1>14. /\ \A i, j \in S : <<i, j>> \in X <=> <<p[i], p[j]>> \in Alike
       /\ \A i, j \in S : <<i, j>> \in Y <=> <<p[i], p[j]>> \in Against
       /\ Alike \in SUBSET (Labelled \X Labelled) /\ Against \in SUBSET (Labelled \X Labelled)
  <2>1. \A i, j \in S : <<p[i], p[j]>> \in Apart <=> a[i] < a[j]
    BY <1>2, <1>3 DEF Apart
  <2>2. \A i, j \in S : <<p[i], p[j]>> \in Alike <=> a[i] < a[j] /\ b[i] < b[j]
    BY <1>2, <2>1 DEF Alike
  <2>3. \A i, j \in S : <<p[i], p[j]>> \in Against <=> a[i] < a[j] /\ b[i] > b[j]
    BY <1>2, <2>1
  <2>4. Apart \in SUBSET (Labelled \X Labelled)
    BY DEF Apart
  <2>5. QED
    BY <1>10, <2>2, <2>3, <2>4 DEF Alike
<1> HIDE DEF Against
<1>15. \A Z \in SUBSET (S \X S) : \A G \in SUBSET (Labelled \X Labelled) :
         (\A i, j \in S : <<i, j>> \in Z <=> <<p[i], p[j]>> \in G) => Cardinality(G) = Cardinality(Z)
  BY <1>3, <1>6, <1>11, PairsRenamed
<1>16. Cardinality(Alike) = Cardinality(X) /\ Cardinality(Against) = Cardinality(Y)
  BY <1>10, <1>14, <1>15, Zenon
<1>17. QED
  BY <1>13, <1>16 DEF Against

(* The verdicts on the judge (eval/validate_judge.py, eval/gates.py): a     *)
(* judge that passes agrees with the humans on more pairs than it gets the *)
(* wrong way round, the order of the golden set makes no difference, full  *)
(* agreement passes, and a green judge gate is earned by the answers.      *)
THEOREM TheJudgeIsJudgedFairly == Spec => []PassingJudgeAgrees
<1>1. EvalInv /\ JudgedInv => PassingJudgeAgrees
  BY PassIsAgreement, OrderMakesNoDifference, AgreementIsEnough, JudgeGateIsEarned
     DEF EvalInv, PassingJudgeAgrees
<1>2. QED
  BY EvalInit, EvalNext, JudgedInit, JudgedNext, <1>1, PTL DEF Spec

=============================================================================
