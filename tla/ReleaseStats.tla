---------------------------- MODULE ReleaseStats ----------------------------
(***************************************************************************)
(* The statistics of pkg/releasegate over sequences of whole measurements. *)
(* The code divides and takes roots in float64; here both sides of every   *)
(* comparison are multiplied out, so that it is exact over the integers.   *)
(***************************************************************************)
EXTENDS Integers, Sequences, FiniteSets, Functions

Below(xs, v) == Cardinality({ i \in DOMAIN xs : xs[i] < v })
UpTo(xs, v) == Cardinality({ i \in DOMAIN xs : xs[i] <= v })

(* The k-th of the sorted values has fewer than k below it, and k or more  *)
(* that are not above it.                                                  *)
Sorted(xs) ==
  [k \in DOMAIN xs |-> CHOOSE v \in Range(xs) : Below(xs, v) < k /\ k <= UpTo(xs, v)]

Total(xs) == SumFunction(xs)
Squares(xs) == SumFunction([i \in DOMAIN xs |-> xs[i] * xs[i]])

(* The q percent quantile, times 100: the value at rank q * (n - 1), a     *)
(* weighted mean of its two neighbours when the rank is not a whole one.   *)
Quantile(xs, q) ==
  LET s == Sorted(xs)
      lo == (q * (Len(s) - 1)) \div 100 + 1
      frac == (q * (Len(s) - 1)) % 100
  IN  IF xs = << >> THEN 0
      ELSE s[lo] * (100 - frac) + (IF frac = 0 THEN 0 ELSE s[lo + 1] * frac)

MeanWithin(xs, limit) == Total(xs) <= limit * Len(xs)

(* coefficientOfVariancePct is at most 10 * tenths percent.  With S the    *)
(* total, the squared coefficient is n(n * Squares - S^2) / ((n-1) * S^2). *)
VariationWithin(xs, tenths) ==
  LET n == Len(xs)
      spread == n * Squares(xs) - Total(xs) * Total(xs)
  IN  \/ n <= 1
      \/ 100 * n * spread <= tenths * tenths * (n - 1) * Total(xs) * Total(xs)

(* regressionPct, from quantiles, is above the limit in percent. *)
RegressionAbove_OfCandidate(candidate, baseline, limit) ==
  baseline > 0 /\ 100 * (candidate - baseline) > limit * candidate
RegressionAbove(candidate, baseline, limit) ==
  baseline > 0 /\ 100 * (candidate - baseline) > limit * baseline

(* Twice the average rank of a value among all points: the ranks of equal  *)
(* points are those of the first and of the last one, averaged.            *)
TwiceRank_First(points, v) == 2 * (Below(points, v) + 1)
TwiceRank(points, v) == Below(points, v) + 1 + UpTo(points, v)

(* The rank sum of xs, twice, less n * (n + 1). *)
TwiceU1(xs, ys) ==
  SumFunction([i \in DOMAIN xs |-> TwiceRank(xs \o ys, xs[i])]) - Len(xs) * (Len(xs) + 1)

(* The sum of t^3 - t over the groups of t equal points, point by point. *)
Group(points, v) == UpTo(points, v) - Below(points, v)
TieSum(points) ==
  SumFunction([i \in DOMAIN points |-> Group(points, points[i]) * Group(points, points[i]) - 1])

(* mannWhitneyPValue < alpha, where crit is 100 times the square of the    *)
(* z score whose two-sided p value is alpha.  d is twice z's numerator.    *)
Significant(xs, ys, crit) ==
  LET nn == Len(xs) * Len(ys)
      n == Len(xs) + Len(ys)
      u1 == TwiceU1(xs, ys)
      d == (IF u1 < 2 * nn - u1 THEN u1 ELSE 2 * nn - u1) - nn + 1
      spread == nn * ((n + 1) * n * (n - 1) - TieSum(xs \o ys))
  IN  spread > 0 /\ d * d * 1200 * n * (n - 1) > 4 * crit * spread

(* Cliff's delta times the number of pairs. *)
PairDifference(xs, ys) ==
  Cardinality({ ij \in (DOMAIN xs) \X (DOMAIN ys) : xs[ij[1]] > ys[ij[2]] })
  - Cardinality({ ij \in (DOMAIN xs) \X (DOMAIN ys) : xs[ij[1]] < ys[ij[2]] })

(* |Cliff's delta| is at least a threshold given in thousandths. *)
Practical(xs, ys, thousandths) ==
  LET d == PairDifference(xs, ys)
  IN  1000 * (IF d < 0 THEN -d ELSE d) >= thousandths * Len(xs) * Len(ys)

(* What the lower end of the bootstrap interval may do: be above zero, or  *)
(* not.  Fewer than ten iterations give the interval (0, 0).  Every other  *)
(* resample draws from the samples, so the difference of its quantiles is  *)
(* positive for sure, or cannot be, when the samples do not overlap.       *)
CIAboveZero(xs, ys, iterations) ==
  { b \in BOOLEAN :
      /\ b => iterations >= 10 /\ \E i \in DOMAIN xs, j \in DOMAIN ys : xs[i] > ys[j]
      /\ ~b => iterations < 10 \/ \E i \in DOMAIN xs, j \in DOMAIN ys : xs[i] <= ys[j] }
=============================================================================
