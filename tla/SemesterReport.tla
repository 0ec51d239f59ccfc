----------------------------- MODULE SemesterReport -----------------------------
(***************************************************************************)
(* The semester report of one user: 100 points for safety, daily limits,   *)
(* events and regularity, a grade and badges.                              *)
(*                                                                         *)
(* days maps a date to the number and the sum of the daily limits that     *)
(* were calculated on it, in thousands of won: the report reads no more of *)
(* them. An event has the days it covers and may be an exam. Rates are in  *)
(* ten-thousandths, ratios in hundredths.                                  *)
(***************************************************************************)
EXTENDS Scoring, LifePlan, FiniteSets, FiniteSetsExt

(* Several calculations make one day.                                      *)
Recorded(days) == {d \in DOMAIN days : days[d].count > 0}

(* Faulty variant: a day's average loses what is behind the point.         *)
CompliantTruncated(days) ==
  {d \in Recorded(days) : days[d].total \div days[d].count > 0}

(* Days whose average is above zero.                                       *)
Compliant(days) == {d \in Recorded(days) : days[d].total > 0}

ComplianceRate(days) ==
  Quantized(Cardinality(Compliant(days)), Cardinality(Recorded(days)))

(* The averages of the days as whole numbers, all over one denominator.    *)
Denominator(days) ==
  FoldFunctionOnSet(LAMBDA a, b : a * b, 1, [d \in DOMAIN days |-> days[d].count], Recorded(days))
Average(days, d) == days[d].total * (Denominator(days) \div days[d].count)
Averages(days) == SumFunction([d \in Recorded(days) |-> Average(days, d)])
Squares(days) == SumFunction([d \in Recorded(days) |-> Average(days, d) * Average(days, d)])

(* None without money or with a single day.                                *)
HasVariation(days) == Averages(days) > 0 /\ Cardinality(Recorded(days)) > 1

(* The square of deviation over mean, in units of 1/2000 of a variation,   *)
(* rounded up; in two steps, which keeps the products small.               *)
SquaredVariation(days) ==
  LET mean   == Averages(days) * Averages(days)
      spread == Cardinality(Recorded(days)) * Squares(days) - mean
  IN 2000 * ((2000 * spread) \div mean)
       + (2000 * ((2000 * spread) % mean) + mean - 1) \div mean

(* v is in tenths. The variation is rounded to three digits first, a tie   *)
(* to the even one: half a thousandth above v still counts as v.           *)
VariationAtMost(days, v) == SquaredVariation(days) <= (200 * v + 1) * (200 * v + 1)

--------------------------------------------------------------------------------

(* The semester's average day, rounded to the won.                         *)
AverageWon(days) ==
  IF Recorded(days) = {} THEN 0
  ELSE HalfEven(1000 * Averages(days), Cardinality(Recorded(days)) * Denominator(days))

(* Rows, not days, are averaged here; an event without any has a ratio of  *)
(* 0, and with less than half a won a day every ratio is 1.                *)
EventRatio(days, event) ==
  LET covered == event.days \intersect Recorded(days)
      rows    == SumFunction([d \in covered |-> days[d].count])
      sum     == SumFunction([d \in covered |-> days[d].total])
  IN IF AverageWon(days) = 0 THEN 100
     ELSE IF rows = 0 THEN 0
     ELSE HalfEven(100000 * sum, rows * AverageWon(days))

Ratios(days, events) == SumFunction([e \in events |-> EventRatio(days, e)])

(* The mean ratio of the events against a bound.                           *)
RatioAtMost(days, events, bound) ==
  Ratios(days, events) <= bound * Cardinality(events)

--------------------------------------------------------------------------------
(* The four scores.                                                        *)

SafetyPoints(high, medium) == MaxOf(0, 40 - 8 * high - 3 * medium)

(* Faulty variant: who was on the blacklist loses nothing.                 *)
SafetyUnlisted(high, medium, listed) == SafetyPoints(high, medium)

(* Being on the blacklist, now or before, costs ten points.                *)
Safety(high, medium, listed) ==
  MaxOf(0, SafetyPoints(high, medium) - (IF listed THEN 10 ELSE 0))

DailyLimit(days) ==
  IF Recorded(days) = {} THEN 0
  ELSE IF ComplianceRate(days) >= 9000 THEN 30
  ELSE IF ComplianceRate(days) >= 7000 THEN 22
  ELSE IF ComplianceRate(days) >= 5000 THEN 15 ELSE 7

Events(days, events) ==
  IF events = {} \/ RatioAtMost(days, events, 120) THEN 20
  ELSE IF RatioAtMost(days, events, 150) THEN 15
  ELSE IF RatioAtMost(days, events, 200) THEN 10 ELSE 5

(* Faulty variant: the borders are read the other way round.               *)
RegularityLoose(days) ==
  IF ~ HasVariation(days) THEN 0
  ELSE IF VariationAtMost(days, 12) THEN 10
  ELSE IF VariationAtMost(days, 8) THEN 7
  ELSE IF VariationAtMost(days, 5) THEN 5 ELSE 3

Regularity(days) ==
  IF ~ HasVariation(days) THEN 0
  ELSE IF VariationAtMost(days, 5) THEN 10
  ELSE IF VariationAtMost(days, 8) THEN 7
  ELSE IF VariationAtMost(days, 12) THEN 5 ELSE 3

Grade(score) ==
  IF score >= 90 THEN "A" ELSE IF score >= 75 THEN "B"
  ELSE IF score >= 55 THEN "C" ELSE "D"

(* Nobody is graded without a recorded day.                                *)
Report(days, events, high, medium, listed) ==
  LET total == MinOf(100, Safety(high, medium, listed) + DailyLimit(days)
                          + Events(days, events) + Regularity(days))
  IN [total |-> total,
      grade |-> IF Recorded(days) = {} THEN "N/A" ELSE Grade(total)]

Exams(events) == {e \in events : e.exam}

(* The badges that speak of what is modelled here.                         *)
Badges(days, events, high, medium, active) ==
  IF ~ active THEN {}
  ELSE {b \in {"noSuspicion", "safetyA", "limitsKept", "regular", "thriftyExams", "cafe"} :
         CASE b = "noSuspicion"   -> high = 0 /\ medium = 0
           [] b = "safetyA"       -> Grade(SafetyPercent(SafetyPoints(high, medium))) = "A"
           [] b = "limitsKept"    -> Recorded(days) # {} /\ ComplianceRate(days) >= 9000
           [] b = "regular"       -> HasVariation(days) /\ VariationAtMost(days, 5)
           [] b = "thriftyExams"  -> Exams(events) # {} /\ RatioAtMost(days, Exams(events), 120)
           [] b = "cafe"          -> /\ Exams(events) # {}
                                     /\ Ratios(days, Exams(events)) >= 200 * Cardinality(Exams(events))}
================================================================================
