-------------------------------- MODULE Standing --------------------------------
(***************************************************************************)
(* What the service tells one user about himself, as he goes on using it:  *)
(* the verdicts on his transactions, his safety score, the plan of the     *)
(* simulator and the readiness made of all of them.                        *)
(*                                                                         *)
(* Nothing but the rows is stored: readiness and plan are computed anew    *)
(* whenever they are asked for. What a verdict is made of besides the rows *)
(* (the profile's statistics, the model's probability) may be anything.    *)
(***************************************************************************)
EXTENDS Scoring, LifePlan

CONSTANTS
  Purchases,  \* transactions: records of amount and hour
  Profiles,   \* statistics: records of avg and std
  Chances,    \* probabilities the model gives, in ten-thousandths
  Starts,     \* how many transactions are known to begin with
  Limits,     \* what is left to spend and for how many days
  Codes,      \* for housing, work and leisure: the answers chosen from
  Forms,      \* what the user gives himself
  Replies,    \* what is said of the balance: records of status and amount
  Changes,    \* changes of the monthly spending that are tried out
  Steps       \* bound: how much happens

Amounts == {"income", "housing", "living", "leisure", "deposit", "moveIn"}

ASSUME StandingAssumption ==
  /\ \A tx \in Purchases : tx.amount \in Nat
  /\ \A stats \in Profiles : stats.avg \in Nat /\ stats.std \in Nat
  /\ Chances \subseteq Nat /\ Starts \subseteq Nat
  /\ \A reply \in Replies : reply.amount \in Nat
  /\ \A l \in Limits : l.left \in Int /\ l.days \in Nat /\ l.days > 0
  /\ Forms \subseteq [Amounts -> Nat \union {Unknown}]
  /\ Changes \subseteq Int /\ Steps \in Nat

Ages == {"minutes", "month", "quarter"}
NoRows == [a \in Ages |-> [l \in Levels |-> 0]]
NotAnswered == "none"
OtherQuestions == 7

VARIABLES
  model,    \* whether the model file could be loaded
  txCount,  \* the profile's count of transactions
  rows,     \* the log's rows by age (ten minutes, 30 days, 90 days) and level
  last,     \* the newest row's verdict
  limits,   \* stored daily limits of 90 days, above zero or not
  choices,  \* answers on housing, work and leisure
  others,   \* how many of the other questions are answered
  form,
  asset,
  steps

vars == <<model, txCount, rows, last, limits, choices, others, form, asset, steps>>

Total(f) == f["LOW"] + f["MEDIUM"] + f["HIGH"]
Recent == Total(rows["minutes"])
Month(level) == rows["minutes"][level] + rows["month"][level]
Quarter(level) == Month(level) + rows["quarter"][level]

--------------------------------------------------------------------------------
(* Readiness: four items; one without data is no item at all.              *)

GoalItem == [weight |-> 50, known |-> TRUE,
             score |-> (Progress(choices, form, asset) * 50 + 5000) \div 10000]

SpendingItem ==
  LET days == limits.kept + limits.broken
  IN [weight |-> 25, known |-> days > 0,
      score |-> IF days = 0 THEN 0 ELSE (50 * limits.kept + days) \div (2 * days)]

Answered == others
  + (IF choices.housing = NotAnswered THEN 0 ELSE 1)
  + (IF choices.work = NotAnswered THEN 0 ELSE 1)
  + (IF choices.leisure = NotAnswered THEN 0 ELSE 1)

PlanItem == [weight |-> 15, known |-> TRUE, score |-> (15 * Answered + 5) \div 10]

(* Faulty variant: penalties are taken off without an end.                 *)
SafetyItemUnbounded ==
  [weight |-> 10,
   known  |-> Quarter("LOW") + Quarter("MEDIUM") + Quarter("HIGH") > 0,
   score  |-> 10 - 8 * Quarter("HIGH") - 3 * Quarter("MEDIUM")]

(* Faulty variant: the penalties are taken for each other.                 *)
SafetyItemSwapped ==
  [weight |-> 10,
   known  |-> Quarter("LOW") + Quarter("MEDIUM") + Quarter("HIGH") > 0,
   score  |-> MaxOf(0, 10 - 3 * Quarter("HIGH") - 8 * Quarter("MEDIUM"))]

SafetyItem ==
  [weight |-> 10,
   known  |-> Quarter("LOW") + Quarter("MEDIUM") + Quarter("HIGH") > 0,
   score  |-> MaxOf(0, 10 - 8 * Quarter("HIGH") - 3 * Quarter("MEDIUM"))]

(* Faulty variant: a score of zero is taken for no data.                   *)
IsEvaluatedNonZero(item) == item.score > 0

IsEvaluated(item) == item.known

Weight(item) == IF IsEvaluated(item) THEN item.weight ELSE 0
Score(item) == IF IsEvaluated(item) THEN item.score ELSE 0

Clamped == [x \in Int |-> MaxOf(0, MinOf(100, x))]

Percent ==
  LET goal == GoalItem  spending == SpendingItem  plan == PlanItem  safety == SafetyItem
      weights == Weight(goal) + Weight(spending) + Weight(plan) + Weight(safety)
      scores  == Score(goal) + Score(spending) + Score(plan) + Score(safety)
  IN IF weights = 0 THEN 0 ELSE Clamped[(100 * scores) \div weights]

(* The safety score of 30 days: 40 points as a percentage, and its grade.  *)
SafetyPoints == MaxOf(0, 40 - 8 * Month("HIGH") - 3 * Month("MEDIUM"))
SafetyScore == SafetyPercent(SafetyPoints)
SafetyGrade ==
  IF SafetyScore >= 90 THEN "A" ELSE IF SafetyScore >= 75 THEN "B"
  ELSE IF SafetyScore >= 55 THEN "C" ELSE "D"

--------------------------------------------------------------------------------

Init ==
  /\ model \in BOOLEAN /\ txCount \in Starts
  /\ rows = NoRows /\ last = [score |-> 0, level |-> "LOW", alerted |-> FALSE]
  /\ limits = [kept |-> 0, broken |-> 0]
  /\ choices = [housing |-> NotAnswered, work |-> NotAnswered, leisure |-> NotAnswered]
  /\ others = 0 /\ form = [a \in Amounts |-> Unknown]
  /\ asset = 0
  /\ steps = 0

Step == steps < Steps /\ steps' = steps + 1

(* detect: the rows of the last ten minutes are counted before its own is  *)
(* there; without a model its share is 0.                                  *)
Detect(tx, stats, chance) ==
  LET verdict == Verdict(tx, stats, txCount, Recent, IF model THEN chance ELSE 0)
  IN /\ Step
     /\ last' = verdict
     /\ rows' = [rows EXCEPT !["minutes"][verdict.level] = @ + 1]
     /\ txCount' = txCount + 1
     /\ UNCHANGED <<model, limits, choices, others, form, asset>>

(* calculate_daily_limit stores what may be spent a day, whole won.        *)
CalculateDailyLimit(left, days) ==
  LET dailyLimit == IF left < 0 THEN 0 ELSE left \div days
  IN /\ Step
     /\ limits' = IF dailyLimit > 0 THEN [limits EXCEPT !.kept = @ + 1]
                                    ELSE [limits EXCEPT !.broken = @ + 1]
     /\ UNCHANGED <<model, txCount, rows, last, choices, others, form, asset>>

Answer ==
  /\ Step
  /\ \/ /\ \E q \in DOMAIN choices : \E code \in Codes[q] \ {choices[q]} :
               choices' = [choices EXCEPT ![q] = code]
        /\ UNCHANGED others
     \/ others < OtherQuestions /\ others' = others + 1 /\ UNCHANGED choices
  /\ UNCHANGED <<model, txCount, rows, last, limits, form, asset>>

(* The next request's body and the balance found for it.                   *)
Ask ==
  /\ Step
  /\ \/ form' \in Forms /\ form' # form /\ UNCHANGED asset
     \/ /\ \E reply \in Replies : asset' = CurrentAsset(reply)
        /\ asset' # asset
        /\ UNCHANGED form
  /\ UNCHANGED <<model, txCount, rows, last, limits, choices, others>>

(* Rows grow older; after 90 days nobody counts them.                      *)
Pass ==
  /\ Step
  /\ \/ /\ rows' = [NoRows EXCEPT !["month"] = [l \in Levels |-> Month(l)],
                                  !["quarter"] = rows["quarter"]]
        /\ UNCHANGED limits
     \/ /\ rows' = [NoRows EXCEPT !["quarter"] = [l \in Levels |-> Quarter(l)]]
        /\ UNCHANGED limits
     \/ rows' = NoRows /\ limits' = [kept |-> 0, broken |-> 0]
  /\ UNCHANGED <<model, txCount, last, choices, others, form, asset>>

Next ==
  \/ \E tx \in Purchases, stats \in Profiles, chance \in Chances : Detect(tx, stats, chance)
  \/ \E l \in Limits : CalculateDailyLimit(l.left, l.days)
  \/ Answer \/ Ask \/ Pass

Spec == Init /\ [][Next]_vars

--------------------------------------------------------------------------------
(* Properties.                                                             *)

(* Scores and percentages keep their range, and no item of readiness       *)
(* passes its weight, however flags and rows accumulate.                   *)
TypeOK ==
  /\ last.score \in 0..Unit /\ last.level \in Levels
  /\ \A i \in {GoalItem, SpendingItem, PlanItem, SafetyItem} : i.score \in 0..i.weight
  /\ Percent \in 0..100 /\ SafetyScore \in 0..100
  /\ others \in 0..OtherQuestions /\ steps \in 0..Steps

(* Level, alert and score of a row say the same: who repeats the request   *)
(* is answered from the stored score (detector.py 142-152).                *)
VerdictAsStored == last.level = RiskLevel(last.score) /\ (last.alerted <=> last.level = "HIGH")

(* At every count of transactions and every stage of the weights: above    *)
(* the mean, a larger amount, and night rather than day, never lowers the  *)
(* score (detector.py 238-306).                                            *)
MoreIsRiskier ==
  \A stats \in Profiles :
    LET score == [tx \in Purchases |-> FinalScore(tx, stats, txCount, Recent, 0)]
    IN \A less, more \in Purchases :
         /\ stats.avg <= less.amount /\ less.amount <= more.amount
         /\ IsNight(less) => IsNight(more)
         => score[less] <= score[more]

(* A harmless transaction, a day within its limit, more money or another   *)
(* answer never lowers readiness, although items without data come and go  *)
(* with their weights (readiness_service.py 142-153).                      *)
GoodDeed ==
  \/ txCount' > txCount /\ last'.level = "LOW"
  \/ limits'.kept > limits.kept
  \/ asset' > asset
  \/ others' > others
GoodDeedsNeverHurt == [][GoodDeed => Percent' >= Percent]_vars

(* Safety score and readiness do not contradict each other: who has the    *)
(* worst grade has no safety points in readiness, which looks further back *)
(* (fds.py 254-265, readiness_service.py 219-222).                         *)
ScoresAgree == SafetyGrade = "D" => SafetyItem.known /\ SafetyItem.score = 0

(* The plan holds: the months it names are enough and, for whole won, none *)
(* too many; none are named when nothing can be put aside; and spending    *)
(* less never delays the goal, if what was put aside is whole won or at    *)
(* least half a won more is. Below that it may: what the adjusted plan     *)
(* starts from is rounded, what the plan was made of is not                *)
(* (simulator_service.py 167-190, 227-229).                                *)
PlanReachesGoal ==
  LET savable  == Savable(choices, form)
      months   == MonthsToGoal(Gap(choices, form, asset), savable)
      after(m) == asset + m * savable
      target   == Target(choices, form)
  IN /\ IF months = Unknown
          THEN asset < target /\ savable <= 0
          ELSE /\ after(months) >= target
               /\ (months > 0 /\ savable % 10 = 0 /\ asset % 10 = 0) =>
                    after(months - 1) < target
     /\ months = 0 => Progress(choices, form, asset) = 10000
     /\ months # Unknown => \A delta \in Changes :
          (delta <= -5 \/ (delta <= 0 /\ savable % 10 = 0)) =>
            AdjustedMonths(choices, form, asset, delta) \in 0..months
================================================================================
