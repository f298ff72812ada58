----------------------------- MODULE Percentile -----------------------------
(***************************************************************************)
(* percentile and LatencyReport (server/app/telemetry/spans.py).  A p-th   *)
(* percentile is one of the samples: the one at a rank that is computed    *)
(* with Python's round, which rounds halves to even.  Fractions of whole   *)
(* numbers are exact here; for p = 50 and p = 95, the two the code asks    *)
(* for, the floating-point rank is the same.                               *)
(***************************************************************************)
EXTENDS Integers, Sequences, SequencesExt

(* A comprehension with an if: what of a sequence is kept, in its order. *)
Where(s, Keep(_)) ==
  FlattenSeq([i \in DOMAIN s |-> IF Keep(s[i]) THEN <<s[i]>> ELSE <<>>])

(* round(num / den) for naturals. *)
RoundHalfEven(num, den) ==
  LET q == num \div den
      r == num % den
  IN  IF 2 * r < den \/ (2 * r = den /\ q % 2 = 0) THEN q ELSE q + 1

(* Mutant: round(p / 100 * n), without the half that turns rounding into   *)
(* rounding up. *)
RankRounded(n, p) ==
  LET r == RoundHalfEven(p * n, 100) IN IF r < 1 THEN 1 ELSE IF r > n THEN n ELSE r

(* max(1, min(n, round(p / 100 * n + 0.5))). *)
Rank(n, p) ==
  LET r == RoundHalfEven(2 * p * n + 100, 200)
  IN  IF r < 1 THEN 1 ELSE IF r > n THEN n ELSE r

(* The rank the docstring names, "nearest-rank": the least r such that r   *)
(* of the n samples are p percent of them.                                 *)
NearestRank(n, p) == (p * n + 99) \div 100

(* sorted(values)[rank - 1]: of fewer than rank values it is true that     *)
(* they are smaller, and of rank or more that they are not greater.        *)
Below(samples, v)  == Cardinality({i \in DOMAIN samples : samples[i] < v})
AtMost(samples, v) == Cardinality({i \in DOMAIN samples : samples[i] <= v})

AtRank(samples, rank) ==
  CHOOSE v \in ToSet(samples) : Below(samples, v) < rank /\ rank <= AtMost(samples, v)

PercentileOf(samples, p) == AtRank(samples, Rank(Len(samples), p))

(* LatencyReport.add passes over a turn that never reached its first       *)
(* audio, written 0 here.                                                  *)
Samples(ttfas) == Where(ttfas, LAMBDA t : t # 0)

(* round(t, 2), of thousandths of a millisecond.  Where the last digit is  *)
(* a 5, it is the binary fraction nearest to t that goes one way or the    *)
(* other.                                                                  *)
Hundredths(t) == RoundHalfEven(t, 10)

(* LatencyReport.stats, in hundredths; n = 0 stands alone. *)
Stats(samples) ==
  IF samples = <<>> THEN [n |-> 0, p50 |-> 0, p95 |-> 0, max |-> 0]
  ELSE [n   |-> Len(samples),
        p50 |-> Hundredths(PercentileOf(samples, 50)),
        p95 |-> Hundredths(PercentileOf(samples, 95)),
        max |-> Hundredths(Max(ToSet(samples)))]

=============================================================================
