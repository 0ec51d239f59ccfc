-------------------------------- MODULE Scoring --------------------------------
(***************************************************************************)
(* The arithmetic of a fraud verdict: rules, personal deviation and the    *)
(* model's probability, weighted by how many transactions are known.       *)
(*                                                                         *)
(* A score is a number of ten-thousandths, the precision it is stored      *)
(* with. Before it is rounded it is a fraction over Scale(stats), since    *)
(* the code's decimals divide by the deviation (or the mean).              *)
(***************************************************************************)
EXTENDS Integers

Unit == 10000

MinOf(a, b) == IF a < b THEN a ELSE b
MaxOf(a, b) == IF a > b THEN a ELSE b
Distance(a, b) == MaxOf(a - b, b - a)

Levels == {"LOW", "MEDIUM", "HIGH"}

(* The shares of the three scores, in tenths.                              *)
Weights(txCount) ==
  IF txCount <= 10 THEN [rule |-> 10, personal |-> 0, ml |-> 0]
  ELSE IF txCount <= 30 THEN [rule |-> 7, personal |-> 3, ml |-> 0]
  ELSE IF txCount <= 70 THEN [rule |-> 3, personal |-> 4, ml |-> 3]
  ELSE [rule |-> 1, personal |-> 1, ml |-> 8]

Scale(stats) ==
  IF stats.std > 0 THEN 3 * stats.std ELSE IF stats.avg > 0 THEN 3 * stats.avg ELSE 1

IsNight(tx) == tx.hour \in 2..4

(* Rule 1: three deviations and more; without a deviation three times the  *)
(* mean and more. At most 0.5.                                             *)
AbnormalAmount(tx, stats) ==
  LET beyond == Distance(tx.amount, stats.avg)
      half   == 5000 * Scale(stats)
  IN IF stats.std > 0
       THEN IF beyond >= 3 * stats.std
              THEN MinOf(half, 1000 * Scale(stats) + 2000 * beyond) ELSE 0
       ELSE IF stats.avg > 0 /\ tx.amount >= 3 * stats.avg
              THEN MinOf(half, 3000 * tx.amount) ELSE 0

(* With night and, once three transactions were judged in the ten minutes  *)
(* before this one, repetition.                                            *)
RuleScore(tx, stats, recent) ==
  MinOf(Unit * Scale(stats),
        AbnormalAmount(tx, stats)
        + (IF IsNight(tx) THEN 3000 * Scale(stats) ELSE 0)
        + (IF recent >= 3 THEN 4000 * Scale(stats) ELSE 0))

(* Faulty variant: the steps are asked for in the wrong order.             *)
PersonalScoreFirst(tx, stats, txCount) ==
  LET beyond == Distance(tx.amount, stats.avg)
  IN IF txCount < 10 \/ stats.std = 0 THEN 0
     ELSE IF beyond >= 4 * stats.std THEN 3000
     ELSE IF beyond >= 2 * stats.std THEN 5000 ELSE 0

PersonalScore(tx, stats, txCount) ==
  LET beyond == Distance(tx.amount, stats.avg)
  IN IF txCount < 10 \/ stats.std = 0 THEN 0
     ELSE IF beyond >= 4 * stats.std THEN 7000
     ELSE IF beyond >= 3 * stats.std THEN 5000
     ELSE IF beyond >= 2 * stats.std THEN 3000 ELSE 0

(* n / d to the nearest whole number, a tie to the even one.               *)
HalfEven(n, d) ==
  LET whole == n \div d
      twice == 2 * (n % d)
  IN IF twice > d \/ (twice = d /\ whole % 2 = 1) THEN whole + 1 ELSE whole

(* Safety points out of 40 as a percentage. The code rounds a float, which *)
(* for 23 points lies just below the tie.                                  *)
SafetyPercent(points) == IF points = 23 THEN 57 ELSE HalfEven(100 * points, 40)

(* The weighted sum over 10 * Scale(stats), at most 1.0.                   *)
Weighted(tx, stats, txCount, recent, ml) ==
  LET w == Weights(txCount)
  IN MinOf(Unit * 10 * Scale(stats),
           w.rule * RuleScore(tx, stats, recent)
           + (w.personal * PersonalScore(tx, stats, txCount) + w.ml * ml) * Scale(stats))

FinalScore(tx, stats, txCount, recent, ml) ==
  HalfEven(Weighted(tx, stats, txCount, recent, ml), 10 * Scale(stats))

RiskLevel(score) ==
  IF score >= 7000 THEN "HIGH" ELSE IF score >= 4000 THEN "MEDIUM" ELSE "LOW"

(* Faulty variant: the level is taken before the score is rounded.         *)
VerdictUnrounded(tx, stats, txCount, recent, ml) ==
  [score   |-> FinalScore(tx, stats, txCount, recent, ml),
   level   |-> RiskLevel(Weighted(tx, stats, txCount, recent, ml) \div (10 * Scale(stats))),
   alerted |-> FinalScore(tx, stats, txCount, recent, ml) >= 7000]

(* What the log row keeps of a detection.                                  *)
Verdict(tx, stats, txCount, recent, ml) ==
  LET score == FinalScore(tx, stats, txCount, recent, ml)
  IN [score |-> score, level |-> RiskLevel(score), alerted |-> score >= 7000]
================================================================================
