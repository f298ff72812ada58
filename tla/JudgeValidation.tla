-------------------------- MODULE JudgeValidation --------------------------
(***************************************************************************)
(* eval/judge.py, eval/validate_judge.py and the judge gates of            *)
(* eval/gates.py: what a judge answers is parsed into scores, and the      *)
(* scores are compared with human labels by Spearman's rank correlation.   *)
(*                                                                         *)
(* Labels and scores are functions from rubric dimensions to 0..4.  A raw  *)
(* answer is a function to tenths, since a judge may write 2.7.  Averages  *)
(* and ranks are kept whole: a composite is counted in parts of 1/Scale,   *)
(* and a rank is doubled.                                                  *)
(***************************************************************************)
EXTENDS Percentile

CONSTANTS
  Dimensions,   \* dimension_ids of the rubric
  Scale         \* a common multiple of the numbers of dimensions averaged over

(* A unit in which an average of n marks is whole. *)
Scales(n) == \E q \in 1..Scale : n * q = Scale

(* A rubric has as many dimensions as it likes, and there is such a Scale  *)
(* for any of them and any labels.                                         *)
ASSUME DimensionsAssumption ==
  /\ IsFiniteSet(Dimensions) /\ Dimensions # {}
  /\ Scale \in Nat \ {0} /\ Scales(Cardinality(Dimensions))

-----------------------------------------------------------------------------
(* parse_judge_response. *)

(* int() of a JSON number drops its fraction, towards zero. *)
Truncated(tenths) == IF tenths >= 0 THEN tenths \div 10 ELSE -((-tenths) \div 10)

Parsable(raw) ==
  \A d \in Dimensions : d \in DOMAIN raw /\ Truncated(raw[d]) \in 0..4

Scores(raw) == [d \in Dimensions |-> Truncated(raw[d])]

-----------------------------------------------------------------------------
(* spearman_rho. *)

Total(f) == FoldFunction(+, 0, f)

(* RubricScore.composite, and the same average of the human labels. *)
Composite(scores) ==
  IF DOMAIN scores = {} THEN 0
  ELSE Total(scores) * (Scale \div Cardinality(DOMAIN scores))

(* Mutant: positions in the order of the values, ties not shared. *)
RanksUnshared(values) ==
  [i \in DOMAIN values |->
     2 * (Below(values, values[i])
            + Cardinality({j \in 1..i : values[j] = values[i]}))]

(* _rank: the places in sorted order, a run of equal values sharing the    *)
(* mean of its first and its last.  A run comes after what is below it and *)
(* ends with what is at most it.  Doubled.                                 *)
Ranks(values) ==
  [i \in DOMAIN values |-> Below(values, values[i]) + 1 + AtMost(values, values[i])]

Deviations(ranks) ==
  [i \in DOMAIN ranks |-> ranks[i] * Len(ranks) - Total(ranks)]

(* Sum of the products of deviations, times Len(a) twice. *)
Covariance(da, db) == Total([i \in DOMAIN da |-> da[i] * db[i]])

(* rho >= 7/10, without the root: rho is 0 for fewer than two points or a  *)
(* series without variance.                                                *)
ReachesTarget(a, b) ==
  LET da  == Deviations(Ranks(a))
      db  == Deviations(Ranks(b))
      cov == Covariance(da, db)
  IN  /\ Len(a) >= 2
      /\ cov > 0
      /\ 100 * cov * cov >= 49 * Covariance(da, da) * Covariance(db, db)

-----------------------------------------------------------------------------
(* validate. *)

(* The turns that have both, in the order of the golden set. *)
Paired(turns, judged) ==
  Where(turns, LAMBDA t : DOMAIN t.labels # {} /\ t.id \in DOMAIN judged)

HumanComposites(turns, judged) ==
  LET paired == Paired(turns, judged)
  IN  [i \in DOMAIN paired |-> Composite(paired[i].labels)]

JudgeComposites(turns, judged) ==
  LET paired == Paired(turns, judged)
  IN  [i \in DOMAIN paired |-> Composite(judged[paired[i].id])]

Agreements(t, scores) == {d \in DOMAIN t.labels \cap DOMAIN scores : scores[d] = t.labels[d]}

Validate(turns, judged) ==
  LET paired == Paired(turns, judged)
  IN  [n      |-> Len(paired),
       exact  |-> Total([i \in DOMAIN paired |->
                     Cardinality(Agreements(paired[i], judged[paired[i].id]))]),
       passed |-> ReachesTarget(HumanComposites(turns, judged),
                                JudgeComposites(turns, judged))]

-----------------------------------------------------------------------------
(* check_judge_gates, on the composites and the lowest scores of the       *)
(* judged turns: 3.2 on average, and no dimension below 2.8.               *)
LowestScore(scores) == Min({scores[d] : d \in Dimensions})

JudgeGatesPass(judged) ==
  /\ DOMAIN judged # {}
  /\ 10 * Total([t \in DOMAIN judged |-> Composite(judged[t])])
       >= 32 * Scale * Cardinality(DOMAIN judged)
  /\ \A t \in DOMAIN judged : 10 * LowestScore(judged[t]) >= 28

=============================================================================
