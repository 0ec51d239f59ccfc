----------------------------- MODULE StandingProofs -----------------------------
(***************************************************************************)
(* Machine-checked proofs about Standing, for any amounts, statistics and  *)
(* forms and any number of steps.                                          *)
(***************************************************************************)
EXTENDS Standing, ScoringProofs

--------------------------------------------------------------------------------
(* The score of a verdict.                                                 *)

LEMMA ScalePositive ==
  ASSUME NEW stats, stats.avg \in Nat, stats.std \in Nat
  PROVE  Scale(stats) \in Nat /\ Scale(stats) > 0
  BY DEF Scale

(* The rules make a number of at most the whole.                           *)
LEMMA RuleRange ==
  ASSUME NEW tx, tx.amount \in Nat, NEW stats, stats.avg \in Nat, stats.std \in Nat,
         NEW recent
  PROVE  RuleScore(tx, stats, recent) \in 0..Unit * Scale(stats)
<1>1. Scale(stats) \in Nat /\ Scale(stats) > 0
  BY ScalePositive
<1>2. Distance(tx.amount, stats.avg) \in Nat
  BY DEF Distance, MaxOf
<1>3. AbnormalAmount(tx, stats) \in Nat
  <2> DEFINE beyond == Distance(tx.amount, stats.avg)
             scale == Scale(stats)
             half == 5000 * scale
  <2>1. AbnormalAmount(tx, stats) =
          IF stats.std > 0
            THEN IF beyond >= 3 * stats.std
                   THEN MinOf(half, 1000 * scale + 2000 * beyond) ELSE 0
            ELSE IF stats.avg > 0 /\ tx.amount >= 3 * stats.avg
                   THEN MinOf(half, 3000 * tx.amount) ELSE 0
    BY DEF AbnormalAmount
  <2> HIDE DEF beyond, scale
  <2>2. beyond \in Nat /\ scale \in Nat
    BY <1>1, <1>2 DEF beyond, scale
  <2>3. QED
    BY <2>1, <2>2 DEF MinOf
<1> DEFINE night == IF IsNight(tx) THEN 3000 * Scale(stats) ELSE 0
           again == IF recent >= 3 THEN 4000 * Scale(stats) ELSE 0
<1>4. night \in Nat /\ again \in Nat
  BY <1>1
<1>5. RuleScore(tx, stats, recent) =
        MinOf(Unit * Scale(stats), AbnormalAmount(tx, stats) + night + again)
  BY DEF RuleScore
<1> HIDE DEF night, again
<1>6. QED
  BY <1>1, <1>3, <1>4, <1>5 DEF MinOf, Unit

LEMMA PersonalRange ==
  ASSUME NEW tx, NEW stats, NEW known
  PROVE  PersonalScore(tx, stats, known) \in {0, 3000, 5000, 7000}
  BY DEF PersonalScore

(* A score is at most 1.0; without the model's share at most 0.58 past 30  *)
(* transactions and 0.17 past 70.                                          *)
LEMMA ScoreRange ==
  ASSUME NEW tx, tx.amount \in Nat, NEW stats, stats.avg \in Nat, stats.std \in Nat,
         NEW known \in Nat, NEW recent, NEW chance \in Nat
  PROVE  /\ FinalScore(tx, stats, known, recent, chance) \in 0..Unit
         /\ (chance = 0 /\ known > 30) => FinalScore(tx, stats, known, recent, chance) <= 5800
         /\ (chance = 0 /\ known > 70) => FinalScore(tx, stats, known, recent, chance) <= 1700
<1> DEFINE scale == Scale(stats)
           rule == RuleScore(tx, stats, recent)
           personal == PersonalScore(tx, stats, known)
           w == Weights(known)
           ten == 10 * scale
           weighted == Weighted(tx, stats, known, recent, chance)
           sum == w.rule * rule + (w.personal * personal + w.ml * chance) * scale
<1>1. scale \in Nat /\ scale > 0 /\ rule \in 0..10000 * scale
  BY ScalePositive, RuleRange DEF Unit
<1>2. personal \in {0, 3000, 5000, 7000}
  BY PersonalRange
<1>3. /\ w.rule \in {1, 3, 7, 10} /\ w.personal \in {0, 1, 3, 4} /\ w.ml \in {0, 3, 8}
      /\ known > 70 => w.rule = 1 /\ w.personal = 1
      /\ (known > 30 /\ known <= 70) => w.rule = 3 /\ w.personal = 4
  BY DEF Weights
<1>4. /\ weighted = MinOf(10000 * 10 * scale, sum)
      /\ FinalScore(tx, stats, known, recent, chance) = HalfEven(weighted, ten)
  BY DEF Weighted, FinalScore, Unit
<1> HIDE DEF scale, rule, personal, w, weighted
<1>5. sum \in Nat
  <2>1. w.rule * rule \in Nat
    BY <1>1, <1>3
  <2>2. w.personal * personal + w.ml * chance \in Nat
    BY <1>2, <1>3
  <2>3. \A x, y \in Nat : x * y \in Nat
    OBVIOUS
  <2>4. QED
    BY <1>1, <2>1, <2>2, <2>3
<1>6. /\ (chance = 0 /\ known > 30) => sum <= 58000 * scale
      /\ (chance = 0 /\ known > 70) => sum <= 17000 * scale
  <2>1. \A x \in {0, 3000, 5000, 7000} :
          /\ (4 * x) * scale <= 28000 * scale /\ (1 * x) * scale <= 7000 * scale
          /\ (4 * x) * scale \in Nat /\ (1 * x) * scale \in Nat
    BY <1>1
  <2>2. ASSUME chance = 0, known > 70 PROVE sum <= 17000 * scale
    <3>1. sum = rule + (1 * personal) * scale
      BY <1>1, <1>2, <1>3, <2>2
    <3> HIDE DEF sum
    <3>2. QED
      BY <1>1, <1>2, <2>1, <3>1
  <2>3. ASSUME chance = 0, known > 30, known <= 70 PROVE sum <= 58000 * scale
    <3>1. sum = 3 * rule + (4 * personal) * scale
      <4>1. w.ml * chance = 0 /\ w.rule = 3 /\ w.personal = 4
        BY <1>3, <2>3
      <4>2. 4 * personal + 0 = 4 * personal
        BY <1>2
      <4>3. QED
        BY <4>1, <4>2
    <3> HIDE DEF sum
    <3>2. QED
      BY <1>1, <1>2, <2>1, <3>1
  <2> HIDE DEF sum
  <2>4. QED
    BY <1>1, <1>5, <2>2, <2>3
<1> HIDE DEF sum
<1>7. /\ weighted \in Nat /\ weighted <= ten * 10000
      /\ (chance = 0 /\ known > 30) => weighted <= ten * 5800
      /\ (chance = 0 /\ known > 70) => weighted <= ten * 1700
  BY <1>1, <1>4, <1>5, <1>6 DEF MinOf
<1>8. ten \in Nat /\ ten > 0
  BY <1>1
<1> HIDE DEF ten
<1>9. HalfEven(weighted, ten) \in Nat
  BY <1>7, <1>8, HalfEvenNearest
<1>10. \A k \in Nat : weighted <= ten * k => HalfEven(weighted, ten) <= k
  BY <1>7, <1>8, HalfEvenBounds
<1> DEFINE score == HalfEven(weighted, ten)
<1>11. /\ score \in Nat /\ score <= 10000
       /\ (chance = 0 /\ known > 30) => score <= 5800
       /\ (chance = 0 /\ known > 70) => score <= 1700
  BY <1>7, <1>9, <1>10
<1> HIDE DEF score
<1>12. score \in 0..Unit
  <2>1. Unit \in Nat /\ score <= Unit
    BY <1>11 DEF Unit
  <2>2. QED
    BY <1>11, <2>1
<1>13. FinalScore(tx, stats, known, recent, chance) = score
  BY <1>4 DEF score
<1>14. QED
  BY <1>11, <1>12, <1>13
--------------------------------------------------------------------------------
(* The inductive invariant.                                                *)

RowsTyped ==
  /\ model \in BOOLEAN /\ txCount \in Nat
  /\ rows \in [Ages -> [Levels -> Nat]]
  /\ last \in [score : 0..Unit, level : Levels, alerted : BOOLEAN]
  /\ limits \in [kept : Nat, broken : Nat]
  /\ others \in 0..OtherQuestions
  /\ form \in [Amounts -> Nat \union {Unknown}]
  /\ asset \in Nat /\ steps \in 0..Steps

IInv == RowsTyped /\ VerdictAsStored

LEMMA IInvInit == Init => IInv
<1> SUFFICES ASSUME Init PROVE IInv
  OBVIOUS
<1>1. txCount \in Nat /\ steps \in 0..Steps
  BY StandingAssumption DEF Init
<1>2. rows \in [Ages -> [Levels -> Nat]]
  BY DEF Init, NoRows
<1>3. /\ last \in [score : 0..Unit, level : Levels, alerted : BOOLEAN]
      /\ last.score = 0 /\ last.level = "LOW" /\ last.alerted = FALSE
  BY DEF Init, Unit, Levels
<1>4. limits \in [kept : Nat, broken : Nat] /\ others \in 0..OtherQuestions /\ asset \in Nat
  BY DEF Init, OtherQuestions
<1>5. RowsTyped
  BY <1>1, <1>2, <1>3, <1>4 DEF Init, RowsTyped
<1>6. VerdictAsStored
  BY <1>3 DEF VerdictAsStored, RiskLevel
<1>7. QED
  BY <1>5, <1>6 DEF IInv

LEMMA StepBounded == RowsTyped /\ Step => steps' \in 0..Steps
  BY StandingAssumption DEF RowsTyped, Step

(* A verdict's row: its level and its alert are made of the stored score.  *)
LEMMA DetectStep ==
  ASSUME IInv, NEW tx \in Purchases, NEW stats \in Profiles, NEW chance \in Chances,
         Detect(tx, stats, chance)
  PROVE  IInv'
<1> DEFINE known == txCount
           ml == IF model THEN chance ELSE 0
           score == FinalScore(tx, stats, known, Recent, ml)
           level == RiskLevel(score)
<1>1. /\ RowsTyped /\ known \in Nat /\ ml \in Nat
      /\ tx.amount \in Nat /\ stats.avg \in Nat /\ stats.std \in Nat
  BY StandingAssumption DEF IInv, RowsTyped
<1>2. score \in 0..Unit
  <2> HIDE DEF ml, known
  <2>1. QED
    BY <1>1, ScoreRange
<1>3. /\ last' = [score |-> score, level |-> level, alerted |-> score >= 7000]
      /\ rows' = [rows EXCEPT !["minutes"][level] = @ + 1]
      /\ txCount' = txCount + 1
      /\ Step /\ UNCHANGED <<model, limits, choices, others, form, asset>>
  BY DEF Detect, Verdict
<1> HIDE DEF score, ml, known
<1>4. /\ level \in Levels
      /\ level = "HIGH" <=> score >= 7000
  BY <1>2 DEF RiskLevel, Levels, Unit
<1> HIDE DEF level
<1>5. rows' \in [Ages -> [Levels -> Nat]]
  BY <1>1, <1>3, <1>4 DEF RowsTyped, Ages
<1>6. /\ last' \in [score : 0..Unit, level : Levels, alerted : BOOLEAN]
      /\ last'.score = score /\ last'.level = level
      /\ last'.alerted <=> score >= 7000
  <2> DEFINE alerted == score >= 7000
  <2>1. last' = [score |-> score, level |-> level, alerted |-> alerted]
    BY <1>3
  <2>2. alerted \in BOOLEAN
    OBVIOUS
  <2> HIDE DEF alerted
  <2>3. /\ last' \in [score : 0..Unit, level : Levels, alerted : BOOLEAN]
        /\ last'.score = score /\ last'.level = level
        /\ last'.alerted = alerted
    BY <1>1, <1>2, <1>4, <2>1, <2>2
  <2>4. QED
    BY <2>3 DEF alerted
<1>7. RowsTyped'
  BY <1>1, <1>3, <1>5, <1>6, StepBounded DEF RowsTyped
<1>8. VerdictAsStored'
  BY <1>4, <1>6 DEF VerdictAsStored, level
<1>9. QED
  BY <1>7, <1>8 DEF IInv

LEMMA PassStep ==
  ASSUME IInv, Pass
  PROVE  IInv'
<1>1. RowsTyped /\ VerdictAsStored
  BY DEF IInv
<1>2. \A l \in Levels : Month(l) \in Nat /\ Quarter(l) \in Nat
  BY <1>1 DEF RowsTyped, Month, Quarter, Ages
<1>3. rows' \in [Ages -> [Levels -> Nat]] /\ limits' \in [kept : Nat, broken : Nat]
  <2> DEFINE monthly == [l \in Levels |-> Month(l)]
             quarterly == [l \in Levels |-> Quarter(l)]
  <2>1. /\ monthly \in [Levels -> Nat] /\ quarterly \in [Levels -> Nat]
        /\ rows["quarter"] \in [Levels -> Nat] /\ NoRows \in [Ages -> [Levels -> Nat]]
    BY <1>1, <1>2 DEF RowsTyped, Ages, NoRows
  <2> HIDE DEF monthly, quarterly
  <2>2. CASE rows' = [NoRows EXCEPT !["month"] = monthly, !["quarter"] = rows["quarter"]]
             /\ UNCHANGED limits
    BY <1>1, <2>1, <2>2 DEF RowsTyped
  <2>3. CASE rows' = [NoRows EXCEPT !["quarter"] = quarterly] /\ UNCHANGED limits
    BY <1>1, <2>1, <2>3 DEF RowsTyped
  <2>4. CASE rows' = NoRows /\ limits' = [kept |-> 0, broken |-> 0]
    BY <2>1, <2>4
  <2>5. QED
    BY <2>2, <2>3, <2>4 DEF Pass, monthly, quarterly
<1>4. QED
  BY <1>1, <1>3, StepBounded DEF Pass, IInv, RowsTyped, VerdictAsStored

LEMMA IInvStep == IInv /\ [Next]_vars => IInv'
<1> SUFFICES ASSUME IInv, [Next]_vars PROVE IInv'
  OBVIOUS
<1> USE DEF IInv, RowsTyped, VerdictAsStored
<1>1. ASSUME NEW tx \in Purchases, NEW stats \in Profiles, NEW chance \in Chances,
             Detect(tx, stats, chance)
      PROVE  IInv'
  BY <1>1, DetectStep
<1>2. ASSUME NEW l \in Limits, CalculateDailyLimit(l.left, l.days) PROVE IInv'
  <2>1. limits' \in [kept : Nat, broken : Nat]
    BY <1>2 DEF CalculateDailyLimit
  <2>2. QED
    BY <1>2, <2>1, StepBounded DEF CalculateDailyLimit
<1>3. ASSUME Answer PROVE IInv'
  <2>1. others' \in 0..OtherQuestions
    BY <1>3 DEF Answer, OtherQuestions
  <2>2. QED
    BY <1>3, <2>1, StepBounded DEF Answer
<1>4. ASSUME Ask PROVE IInv'
  BY <1>4, StepBounded, StandingAssumption DEF Ask, CurrentAsset
<1>5. ASSUME Pass PROVE IInv'
  BY <1>5, PassStep
<1>6. CASE UNCHANGED vars
  BY <1>6 DEF vars
<1>7. QED
  BY <1>1, <1>2, <1>3, <1>4, <1>5, <1>6 DEF Next

THEOREM InvariantHolds == Spec => []IInv
  BY IInvInit, IInvStep, PTL DEF Spec

(* Whoever repeats a request is told what was told before.                 *)
THEOREM VerdictAsStoredHolds == Spec => []VerdictAsStored
<1>1. IInv => VerdictAsStored
  BY DEF IInv
<1>2. QED
  BY <1>1, InvariantHolds, PTL

(* Where the documented fallback on the rules ends (README.md 721): the    *)
(* model's share is only 0 without a model, its weight stays. A user with  *)
(* more than 30 transactions is then alerted of none, one with more than   *)
(* 70 has none marked above LOW, whatever he is asked to judge             *)
(* (detector.py 49-54, 310).                                               *)
THEOREM SilentWithoutModel ==
  ASSUME NEW tx, tx.amount \in Nat, NEW stats, stats.avg \in Nat, stats.std \in Nat,
         NEW known \in Nat, NEW recent
  PROVE  /\ known > 30 => ~ Verdict(tx, stats, known, recent, 0).alerted
         /\ known > 70 => Verdict(tx, stats, known, recent, 0).level = "LOW"
<1>1. PICK chance \in Nat : chance = 0
  OBVIOUS
<1> DEFINE score == FinalScore(tx, stats, known, recent, chance)
           level == RiskLevel(score)
           alerted == score >= 7000
           verdict == Verdict(tx, stats, known, recent, chance)
<1>2. verdict = [score |-> score, level |-> level, alerted |-> alerted]
  BY DEF Verdict
<1>3. score \in 0..Unit /\ (known > 30 => score <= 5800) /\ (known > 70 => score <= 1700)
  BY <1>1, ScoreRange
<1> HIDE DEF score, verdict
<1>4. score \in Nat
  BY <1>3 DEF Unit
<1>5. (known > 30 => ~ alerted) /\ (known > 70 => level = "LOW")
  BY <1>3, <1>4 DEF RiskLevel
<1> HIDE DEF level, alerted
<1>6. (known > 30 => ~ verdict.alerted) /\ (known > 70 => verdict.level = "LOW")
  BY <1>2, <1>5
<1>7. verdict = Verdict(tx, stats, known, recent, 0)
  BY <1>1 DEF verdict
<1>8. QED
  BY <1>6, <1>7, Zenon
--------------------------------------------------------------------------------
(* Safety, over 30 and over 90 days.                                       *)

LEMMA RowCounts ==
  ASSUME RowsTyped
  PROVE  \A l \in {"LOW", "MEDIUM", "HIGH"} :
           /\ Month(l) \in Nat /\ Quarter(l) \in Nat
           /\ Month(l) <= Quarter(l)
<1> SUFFICES ASSUME NEW l \in {"LOW", "MEDIUM", "HIGH"}
             PROVE  Month(l) \in Nat /\ Quarter(l) \in Nat /\ Month(l) <= Quarter(l)
  OBVIOUS
<1>1. rows["minutes"][l] \in Nat /\ rows["month"][l] \in Nat /\ rows["quarter"][l] \in Nat
  BY DEF RowsTyped, Ages, Levels
<1>2. QED
  BY <1>1 DEF Month, Quarter

LEMMA ScoresAgreeAlways ==
  ASSUME RowsTyped
  PROVE  ScoresAgree
<1> SUFFICES ASSUME SafetyGrade = "D"
             PROVE  SafetyItem.known /\ SafetyItem.score = 0
  BY DEF ScoresAgree
<1> DEFINE h == Month("HIGH")  m == Month("MEDIUM")
           H == Quarter("HIGH")  M == Quarter("MEDIUM")  L == Quarter("LOW")
<1>1. /\ h \in Nat /\ m \in Nat /\ H \in Nat /\ M \in Nat /\ L \in Nat
      /\ h <= H /\ m <= M
  BY RowCounts
<1>2. SafetyPoints = MaxOf(0, 40 - 8 * h - 3 * m)
  BY DEF SafetyPoints
<1>3. SafetyItem = [weight |-> 10, known |-> L + M + H > 0,
                    score |-> MaxOf(0, 10 - 8 * H - 3 * M)]
  BY DEF SafetyItem
<1> HIDE DEF h, m, H, M, L
<1>4. SafetyPoints \in Nat
  BY <1>1, <1>2 DEF MaxOf
<1>5. SafetyPoints < 22
  <2> SUFFICES ASSUME SafetyPoints >= 22 PROVE FALSE
    BY <1>4
  <2>1. PICK p \in Nat : p = SafetyPoints /\ p <= 40
    BY <1>1, <1>2, <1>4 DEF MaxOf
  <2>2. SafetyScore \in Nat /\ SafetyScore >= 55
    BY <2>1, SafetyPercentBounds DEF SafetyScore
  <2>3. QED
    BY <2>2 DEF SafetyGrade
<1>6. 8 * h + 3 * m > 18
  BY <1>1, <1>2, <1>5 DEF MaxOf
<1>7. 8 * H + 3 * M > 18 /\ L + M + H > 0
  BY <1>1, <1>6
<1>8. MaxOf(0, 10 - 8 * H - 3 * M) = 0
  BY <1>1, <1>7 DEF MaxOf
<1>9. QED
  BY <1>3, <1>7, <1>8

(* The two safety scores do not contradict each other.                     *)
THEOREM ScoresAgreeHolds == Spec => []ScoresAgree
<1>1. IInv => ScoresAgree
  BY ScoresAgreeAlways DEF IInv
<1>2. QED
  BY <1>1, InvariantHolds, PTL

--------------------------------------------------------------------------------
(* The plan.                                                               *)

LEMMA PlanNumbers ==
  ASSUME RowsTyped
  PROVE  /\ MonthlyIncome(choices, form) \in Nat
         /\ MonthlyExpense(choices, form) \in Nat
         /\ Target(choices, form) \in Nat
         /\ Savable(choices, form) \in Int
         /\ Gap(choices, form, asset) \in Nat
         /\ Gap(choices, form, asset) = 0 <=> asset >= Target(choices, form)
         /\ Gap(choices, form, asset) > 0 =>
              Gap(choices, form, asset) = Target(choices, form) - asset
<1>1. ASSUME NEW a \in Amounts, NEW b \in Nat PROVE Resolve(form[a], b) \in Nat
  BY DEF RowsTyped, Resolve
<1>2. /\ Income(choices.work) \in Nat /\ Deposit(choices.housing) \in Nat
      /\ LeisureFactor(choices.leisure) \in Nat
  BY DEF Income, Deposit, LeisureFactor
<1>3. MonthlyIncome(choices, form) \in Nat
  BY <1>1, <1>2 DEF MonthlyIncome, Amounts
<1> DEFINE rent == IF AtHome(choices) THEN 0 ELSE Rent(MonthlyIncome(choices, form))
           moving == IF AtHome(choices) THEN 0 ELSE 30000000
           leisure == 187000 * LeisureFactor(choices.leisure)
           living == 7000000
<1>4. rent \in Nat /\ moving \in Nat /\ leisure \in Nat /\ living \in Nat
  BY <1>2, <1>3 DEF Rent
<1>5. /\ MonthlyExpense(choices, form) =
           Resolve(form.housing, rent) + Resolve(form.living, living) + Resolve(form.leisure, leisure)
      /\ Target(choices, form) = Won(Resolve(form.deposit, Deposit(choices.housing))
                                       + Resolve(form.moveIn, moving)
                                       + Won(3 * MonthlyExpense(choices, form)))
  BY DEF MonthlyExpense, Target
<1> HIDE DEF rent, moving, leisure, living
<1>6. /\ Resolve(form.housing, rent) \in Nat /\ Resolve(form.living, living) \in Nat
      /\ Resolve(form.leisure, leisure) \in Nat
      /\ Resolve(form.deposit, Deposit(choices.housing)) \in Nat
      /\ Resolve(form.moveIn, moving) \in Nat
  <2>1. {"housing", "living", "leisure", "deposit", "moveIn"} \subseteq Amounts
    BY DEF Amounts
  <2>2. Resolve(form.housing, rent) \in Nat /\ Resolve(form.living, living) \in Nat
    BY <1>1, <1>4, <2>1
  <2>3. /\ Resolve(form.leisure, leisure) \in Nat
        /\ Resolve(form.deposit, Deposit(choices.housing)) \in Nat
    BY <1>1, <1>2, <1>4, <2>1
  <2>4. Resolve(form.moveIn, moving) \in Nat
    BY <1>1, <1>4, <2>1
  <2>5. QED
    BY <2>2, <2>3, <2>4
<1>7. MonthlyExpense(choices, form) \in Nat
  BY <1>5, <1>6
<1>8. Target(choices, form) \in Nat
  <2>1. \A v \in Nat : Won(v) \in Nat
    BY WonNearest
  <2>2. 3 * MonthlyExpense(choices, form) \in Nat
    BY <1>7
  <2>3. Resolve(form.deposit, Deposit(choices.housing)) + Resolve(form.moveIn, moving)
          + Won(3 * MonthlyExpense(choices, form)) \in Nat
    BY <1>6, <2>1, <2>2
  <2>4. QED
    BY <1>5, <2>1, <2>3
<1>9. Savable(choices, form) \in Int
  BY <1>3, <1>7 DEF Savable
<1>10. asset \in Nat
  BY DEF RowsTyped
<1>11. QED
  BY <1>3, <1>7, <1>8, <1>9, <1>10 DEF Gap

LEMMA PlanReachesGoalAlways ==
  ASSUME RowsTyped
  PROVE  PlanReachesGoal
<1> DEFINE gap == Gap(choices, form, asset)
           savable == Savable(choices, form)
           target == Target(choices, form)
           months == MonthsToGoal(gap, savable)
<1>1. /\ gap \in Nat /\ savable \in Int /\ target \in Nat /\ asset \in Nat
      /\ gap = 0 <=> asset >= target
      /\ gap > 0 => gap = target - asset
  BY PlanNumbers DEF RowsTyped
<1> HIDE DEF gap, savable, target
<1>2. /\ gap = 0 => months = 0
      /\ (gap > 0 /\ savable <= 0) => months = Unknown
      /\ (gap > 0 /\ savable > 0) =>
           months \in Nat /\ months > 0 /\ gap <= savable * months /\ savable * (months - 1) < gap
  BY <1>1, MonthsEnough
<1>3. months # Unknown =>
        \A delta \in Int : (delta <= -5 \/ (delta <= 0 /\ savable % 10 = 0)) =>
          MonthsToGoal(gap, Won(savable) - delta) \in 0..months
  <2> SUFFICES ASSUME months # Unknown, NEW delta \in Int,
                      delta <= -5 \/ (delta <= 0 /\ savable % 10 = 0)
               PROVE  MonthsToGoal(gap, Won(savable) - delta) \in 0..months
    OBVIOUS
  <2>1. Won(savable) - delta \in Int /\ savable <= Won(savable) - delta
    BY <1>1, WonNearest
  <2>2. QED
    BY <1>1, <2>1, MonthsMonotone
<1> HIDE DEF months
<1>4. IF months = Unknown
        THEN asset < target /\ savable <= 0
        ELSE asset + months * savable >= target
             /\ (months > 0 => asset + (months - 1) * savable < target)
  <2>1. CASE gap = 0
    BY <1>1, <1>2, <2>1 DEF Unknown
  <2>2. CASE gap > 0 /\ savable <= 0
    BY <1>1, <1>2, <2>2
  <2>3. CASE gap > 0 /\ savable > 0
    <3>1. months \in Nat /\ months # Unknown /\ months > 0
      BY <1>2, <2>3 DEF Unknown
    <3>2. months * savable = savable * months /\ (months - 1) * savable = savable * (months - 1)
      BY <1>1, <3>1
    <3>3. savable * months \in Int /\ savable * (months - 1) \in Int
      BY <1>1, <3>1
    <3>4. asset + months * savable >= target /\ asset + (months - 1) * savable < target
      BY <1>1, <1>2, <2>3, <3>2, <3>3
    <3>5. QED
      BY <3>1, <3>4
  <2>4. QED
    BY <1>1, <2>1, <2>2, <2>3
<1>5. months = 0 => Progress(choices, form, asset) = 10000
  <2>1. months = 0 => asset >= target
    BY <1>1, <1>2 DEF Unknown
  <2>2. QED
    BY <2>1 DEF Progress, target
<1>6. months # Unknown =>
        \A delta \in Changes :
          (delta <= -5 \/ (delta <= 0 /\ savable % 10 = 0)) =>
          AdjustedMonths(choices, form, asset, delta) \in 0..months
  BY <1>3, StandingAssumption DEF AdjustedMonths, gap, savable
<1>7. QED
  BY <1>4, <1>5, <1>6 DEF PlanReachesGoal, gap, savable, target, months

(* The months a plan names are enough and, for whole won, none too many;   *)
(* spending less never delays the goal where rounding to the won cannot    *)
(* take away more than is spent less (simulator_service.py 167-190,        *)
(* 227-229), whatever the user gives and chooses.                          *)
THEOREM PlanReachesGoalHolds == Spec => []PlanReachesGoal
<1>1. IInv => PlanReachesGoal
  BY PlanReachesGoalAlways DEF IInv
<1>2. QED
  BY <1>1, InvariantHolds, PTL

(* The excluded case is real, although the same formula is meant for both  *)
(* (simulator_service.py 13-16): 100.4 won a month towards 1004 won takes  *)
(* ten months, and eleven after a change of nothing.                       *)
THEOREM NothingChangedDelays ==
  \E choices_, given, balance :
    /\ \A a \in Amounts : given[a] \in Nat
    /\ MonthsToGoal(Gap(choices_, given, balance), Savable(choices_, given)) = 10
    /\ AdjustedMonths(choices_, given, balance, 0) = 11
<1> DEFINE given == [a \in Amounts |-> IF a = "income" THEN 1004
                                       ELSE IF a = "deposit" THEN 10040 ELSE 0]
           none == [housing |-> NotAnswered, work |-> NotAnswered, leisure |-> NotAnswered]
<1>1. /\ given.income = 1004 /\ given.deposit = 10040 /\ given.housing = 0
      /\ given.living = 0 /\ given.leisure = 0 /\ given.moveIn = 0
      /\ \A a \in Amounts : given[a] \in Nat
  BY DEF Amounts
<1> HIDE DEF given, none
<1>2. Savable(none, given) = 1004 /\ MonthlyExpense(none, given) = 0
  BY <1>1 DEF Savable, MonthlyIncome, MonthlyExpense, Resolve, Unknown
<1>3. Won(0) = 0 /\ Won(10040) = 10040 /\ Won(1004) = 1000
  BY DEF Won
<1>4. Gap(none, given, 0) = 10040
  <2>1. Target(none, given) = Won(10040 + 0 + Won(3 * 0))
    BY <1>1, <1>2 DEF Target, Resolve, Unknown
  <2>2. Target(none, given) = 10040
    BY <1>3, <2>1
  <2>3. QED
    BY <2>2 DEF Gap
<1>5. MonthsToGoal(10040, 1004) = 10 /\ MonthsToGoal(10040, 1000 - 0) = 11
  BY DEF MonthsToGoal
<1>6. AdjustedMonths(none, given, 0, 0) = 11
  BY <1>2, <1>3, <1>4, <1>5 DEF AdjustedMonths
<1>7. QED
  BY <1>1, <1>2, <1>4, <1>5, <1>6
--------------------------------------------------------------------------------
(* Ranges.                                                                 *)

(* Half a point more at most: kept days out of all, in 25 points.          *)
LEMMA SpendingRange ==
  ASSUME NEW kept \in Nat, NEW broken \in Nat, kept + broken > 0
  PROVE  (50 * kept + (kept + broken)) \div (2 * (kept + broken)) \in 0..25
<1> DEFINE d == 2 * (kept + broken)
           n == 50 * kept + (kept + broken)
           q == n \div d
           r == n % d
<1>1. d \in Nat /\ d > 0 /\ n \in Nat /\ n < d * 26
  OBVIOUS
<1>2. q \in Nat /\ r \in Nat /\ n = d * q + r
  <2> HIDE DEF d, n
  <2>1. QED
    BY <1>1, Division
<1> HIDE DEF d, n, q, r
<1>3. ~ q > 25
  <2> SUFFICES ASSUME q > 25 PROVE FALSE
    OBVIOUS
  <2>1. d * 25 + d <= d * q /\ d * q \in Nat
    BY <1>1, <1>2, OneMore
  <2>2. QED
    BY <1>1, <1>2, <2>1
<1>4. q \in 0..25
  BY <1>2, <1>3
<1>5. QED
  BY <1>4 DEF q, n, d

LEMMA ProgressRange ==
  ASSUME RowsTyped
  PROVE  Progress(choices, form, asset) \in Nat /\ Progress(choices, form, asset) <= 10000
<1>1. asset \in Nat /\ Target(choices, form) \in Nat
  BY PlanNumbers DEF RowsTyped
<1>2. PICK target \in Nat : target = Target(choices, form)
  BY <1>1
<1>3. Progress(choices, form, asset) =
        IF target = 0 \/ asset >= target THEN 10000 ELSE Quantized(asset, target)
  BY <1>2 DEF Progress
<1>4. ASSUME target # 0, ~ asset >= target PROVE Quantized(asset, target) \in Nat /\ Quantized(asset, target) <= 10000
  <2>1. target > 0 /\ asset <= target
    BY <1>1, <1>4
  <2>2. QED
    BY <1>1, <2>1, QuantizedShare
<1>5. QED
  BY <1>3, <1>4

LEMMA ItemRanges ==
  ASSUME RowsTyped
  PROVE  \A i \in {GoalItem, SpendingItem, PlanItem, SafetyItem} :
           i.weight \in {10, 15, 25, 50} /\ i.score \in 0..i.weight
<1>1. GoalItem.weight = 50 /\ GoalItem.score \in 0..50
  <2>1. PICK p \in Nat : p = Progress(choices, form, asset) /\ p <= 10000
    BY ProgressRange
  <2>2. GoalItem.weight = 50 /\ GoalItem.score = (p * 50 + 5000) \div 10000
    BY <2>1 DEF GoalItem
  <2>3. QED
    BY <2>1, <2>2
<1>2. SpendingItem.weight = 25 /\ SpendingItem.score \in 0..25
  <2>1. limits.kept \in Nat /\ limits.broken \in Nat
    BY DEF RowsTyped
  <2>2. /\ SpendingItem.weight = 25
        /\ SpendingItem.score =
             IF limits.kept + limits.broken = 0 THEN 0
             ELSE (50 * limits.kept + (limits.kept + limits.broken))
                    \div (2 * (limits.kept + limits.broken))
    BY DEF SpendingItem
  <2>3. CASE limits.kept + limits.broken = 0
    BY <2>2, <2>3
  <2>4. CASE limits.kept + limits.broken # 0
    <3>1. limits.kept + limits.broken > 0
      BY <2>1, <2>4
    <3>2. (50 * limits.kept + (limits.kept + limits.broken))
             \div (2 * (limits.kept + limits.broken)) \in 0..25
      BY <2>1, <3>1, SpendingRange
    <3>3. QED
      BY <2>2, <2>4, <3>2, Zenon
  <2>5. QED
    BY <2>3, <2>4
<1>3. PlanItem.weight = 15 /\ PlanItem.score \in 0..15
  <2>1. Answered \in 0..10
    BY DEF RowsTyped, OtherQuestions, Answered
  <2>2. PlanItem.weight = 15 /\ PlanItem.score = (15 * Answered + 5) \div 10
    BY SMTT(20) DEF PlanItem
  <2>3. QED
    BY <2>1, <2>2
<1>4. SafetyItem.weight = 10 /\ SafetyItem.score \in 0..10
  <2>1. Quarter("HIGH") \in Nat /\ Quarter("MEDIUM") \in Nat
    BY RowCounts
  <2>2. /\ SafetyItem.weight = 10
        /\ SafetyItem.score = MaxOf(0, 10 - 8 * Quarter("HIGH") - 3 * Quarter("MEDIUM"))
    BY DEF SafetyItem
  <2>3. QED
    BY <2>1, <2>2 DEF MaxOf
<1>5. QED
  BY <1>1, <1>2, <1>3, <1>4

LEMMA PercentRange ==
  ASSUME RowsTyped
  PROVE  Percent \in 0..100
<1> DEFINE goal == GoalItem  spending == SpendingItem  plan == PlanItem  safety == SafetyItem
           weights == Weight(goal) + Weight(spending) + Weight(plan) + Weight(safety)
           scores == Score(goal) + Score(spending) + Score(plan) + Score(safety)
<1>1. \A i \in {goal, spending, plan, safety} : Weight(i) \in 0..50 /\ Score(i) \in 0..50
  <2> SUFFICES ASSUME NEW i \in {goal, spending, plan, safety}
               PROVE  Weight(i) \in 0..50 /\ Score(i) \in 0..50
    OBVIOUS
  <2>1. i.weight \in {10, 15, 25, 50} /\ i.score \in 0..i.weight
    BY ItemRanges
  <2> HIDE DEF goal, spending, plan, safety
  <2>2. QED
    BY <2>1 DEF Weight, Score
<1>2. Percent = IF weights = 0 THEN 0 ELSE Clamped[(100 * scores) \div weights]
  BY DEF Percent
<1> HIDE DEF goal, spending, plan, safety
<1>3. weights \in Nat /\ 100 * scores \in Nat
  <2>1. /\ Weight(goal) \in Nat /\ Weight(spending) \in Nat
        /\ Weight(plan) \in Nat /\ Weight(safety) \in Nat
    BY <1>1
  <2>2. /\ Score(goal) \in Nat /\ Score(spending) \in Nat
        /\ Score(plan) \in Nat /\ Score(safety) \in Nat
    BY <1>1
  <2>3. QED
    BY <2>1, <2>2
<1> HIDE DEF weights, scores
<1>4. CASE weights = 0
  BY <1>2, <1>4
<1>5. CASE weights # 0
  <2> DEFINE q == (100 * scores) \div weights
  <2>1. q \in Nat
    BY <1>3, <1>5, Division
  <2>2. Percent = Clamped[q]
    BY <1>2, <1>5
  <2> HIDE DEF q
  <2>3. QED
    BY <2>1, <2>2 DEF Clamped, MaxOf, MinOf
<1>6. QED
  BY <1>4, <1>5

(* No item of readiness passes its weight, and no percentage its range.    *)
THEOREM TypeCorrect == Spec => []TypeOK
<1>1. ASSUME RowsTyped PROVE SafetyScore \in 0..100
  <2>1. Month("HIGH") \in Nat /\ Month("MEDIUM") \in Nat
    BY <1>1, RowCounts
  <2>2. PICK p \in Nat : p = SafetyPoints /\ p <= 40
    BY <2>1 DEF SafetyPoints, MaxOf
  <2>3. QED
    BY <2>2, SafetyPercentBounds DEF SafetyScore
<1>2. IInv => TypeOK
  <2> SUFFICES ASSUME IInv PROVE TypeOK
    OBVIOUS
  <2>1. RowsTyped /\ last.score \in 0..Unit /\ last.level \in Levels
    BY DEF IInv, RowsTyped
  <2>2. /\ \A i \in {GoalItem, SpendingItem, PlanItem, SafetyItem} : i.score \in 0..i.weight
        /\ Percent \in 0..100 /\ SafetyScore \in 0..100
    BY <1>1, <2>1, ItemRanges, PercentRange
  <2>3. others \in 0..OtherQuestions /\ steps \in 0..Steps
    BY <2>1 DEF RowsTyped
  <2>4. QED
    BY <2>1, <2>2, <2>3 DEF TypeOK
<1>3. QED
  BY <1>2, InvariantHolds, PTL
--------------------------------------------------------------------------------
(* More is riskier.                                                        *)

(* Above the mean the rules grow with the amount and with night.           *)
LEMMA RuleMonotone ==
  ASSUME NEW less, less.amount \in Nat, NEW more, more.amount \in Nat,
         NEW stats, stats.avg \in Nat, stats.std \in Nat, NEW recent,
         stats.avg <= less.amount, less.amount <= more.amount, IsNight(less) => IsNight(more)
  PROVE  RuleScore(less, stats, recent) <= RuleScore(more, stats, recent)
<1> DEFINE scale == Scale(stats)
           low == Distance(less.amount, stats.avg)
           high == Distance(more.amount, stats.avg)
           nightLow == IF IsNight(less) THEN 3000 * scale ELSE 0
           nightHigh == IF IsNight(more) THEN 3000 * scale ELSE 0
           again == IF recent >= 3 THEN 4000 * scale ELSE 0
           abnormalLow == AbnormalAmount(less, stats)
           abnormalHigh == AbnormalAmount(more, stats)
<1>1. scale \in Nat /\ scale > 0
  BY ScalePositive
<1>2. low \in Nat /\ high \in Nat /\ low <= high
  BY DEF Distance, MaxOf
<1>3. /\ nightLow \in Nat /\ nightHigh \in Nat /\ again \in Nat
      /\ nightLow <= nightHigh
  BY <1>1
<1>4. \A tx \in {less, more} : AbnormalAmount(tx, stats) =
        IF stats.std > 0
          THEN IF Distance(tx.amount, stats.avg) >= 3 * stats.std
                 THEN MinOf(5000 * scale, 1000 * scale + 2000 * Distance(tx.amount, stats.avg)) ELSE 0
          ELSE IF stats.avg > 0 /\ tx.amount >= 3 * stats.avg
                 THEN MinOf(5000 * scale, 3000 * tx.amount) ELSE 0
  BY DEF AbnormalAmount
<1>5. /\ RuleScore(less, stats, recent) = MinOf(10000 * scale, abnormalLow + nightLow + again)
      /\ RuleScore(more, stats, recent) = MinOf(10000 * scale, abnormalHigh + nightHigh + again)
  BY DEF RuleScore, Unit
<1>6. abnormalLow \in Nat /\ abnormalHigh \in Nat /\ abnormalLow <= abnormalHigh
  <2>1. /\ abnormalLow =
             IF stats.std > 0
               THEN IF low >= 3 * stats.std
                      THEN MinOf(5000 * scale, 1000 * scale + 2000 * low) ELSE 0
               ELSE IF stats.avg > 0 /\ less.amount >= 3 * stats.avg
                      THEN MinOf(5000 * scale, 3000 * less.amount) ELSE 0
        /\ abnormalHigh =
             IF stats.std > 0
               THEN IF high >= 3 * stats.std
                      THEN MinOf(5000 * scale, 1000 * scale + 2000 * high) ELSE 0
               ELSE IF stats.avg > 0 /\ more.amount >= 3 * stats.avg
                      THEN MinOf(5000 * scale, 3000 * more.amount) ELSE 0
    BY <1>4
  <2> HIDE DEF scale, low, high, abnormalLow, abnormalHigh
  <2>2. CASE stats.std > 0
    BY <1>1, <1>2, <2>1, <2>2 DEF MinOf
  <2>3. CASE ~ stats.std > 0
    BY <1>1, <1>2, <2>1, <2>3 DEF MinOf
  <2>4. QED
    BY <2>2, <2>3
<1> HIDE DEF scale, nightLow, nightHigh, again, abnormalLow, abnormalHigh
<1>7. QED
  BY <1>1, <1>3, <1>5, <1>6 DEF MinOf

(* And so does the deviation from the user's own habits.                   *)
LEMMA PersonalMonotone ==
  ASSUME NEW less, less.amount \in Nat, NEW more, more.amount \in Nat,
         NEW stats, stats.avg \in Nat, stats.std \in Nat, NEW known \in Nat,
         stats.avg <= less.amount, less.amount <= more.amount
  PROVE  PersonalScore(less, stats, known) <= PersonalScore(more, stats, known)
<1> DEFINE low == Distance(less.amount, stats.avg)
           high == Distance(more.amount, stats.avg)
<1>1. low \in Nat /\ high \in Nat /\ low <= high
  BY DEF Distance, MaxOf
<1>2. \A tx : PersonalScore(tx, stats, known) =
        IF known < 10 \/ stats.std = 0 THEN 0
        ELSE IF Distance(tx.amount, stats.avg) >= 4 * stats.std THEN 7000
        ELSE IF Distance(tx.amount, stats.avg) >= 3 * stats.std THEN 5000
        ELSE IF Distance(tx.amount, stats.avg) >= 2 * stats.std THEN 3000 ELSE 0
  BY DEF PersonalScore
<1>3. /\ PersonalScore(less, stats, known) =
           IF known < 10 \/ stats.std = 0 THEN 0
           ELSE IF low >= 4 * stats.std THEN 7000
           ELSE IF low >= 3 * stats.std THEN 5000
           ELSE IF low >= 2 * stats.std THEN 3000 ELSE 0
      /\ PersonalScore(more, stats, known) =
           IF known < 10 \/ stats.std = 0 THEN 0
           ELSE IF high >= 4 * stats.std THEN 7000
           ELSE IF high >= 3 * stats.std THEN 5000
           ELSE IF high >= 2 * stats.std THEN 3000 ELSE 0
  BY <1>2
<1> HIDE DEF low, high
<1>4. QED
  BY <1>1, <1>3

LEMMA ProductMonotone ==
  ASSUME NEW x \in Nat, NEW y \in Nat, x <= y, NEW d \in Nat
  PROVE  x * d <= y * d /\ x * d \in Nat /\ y * d \in Nat
<1>1. y - x \in Nat /\ (y - x) * d \in Nat /\ y * d = x * d + (y - x) * d
  OBVIOUS
<1>2. x * d \in Nat
  OBVIOUS
<1>3. QED
  BY <1>1, <1>2

LEMMA ScoreMonotone ==
  ASSUME NEW less, less.amount \in Nat, NEW more, more.amount \in Nat,
         NEW stats, stats.avg \in Nat, stats.std \in Nat, NEW known \in Nat, NEW recent,
         stats.avg <= less.amount, less.amount <= more.amount, IsNight(less) => IsNight(more)
  PROVE  FinalScore(less, stats, known, recent, 0) <= FinalScore(more, stats, known, recent, 0)
<1> DEFINE scale == Scale(stats)
           w == Weights(known)
           ruleLow == RuleScore(less, stats, recent)
           ruleHigh == RuleScore(more, stats, recent)
           ownLow == PersonalScore(less, stats, known)
           ownHigh == PersonalScore(more, stats, known)
           sumLow == w.rule * ruleLow + (w.personal * ownLow + w.ml * 0) * scale
           sumHigh == w.rule * ruleHigh + (w.personal * ownHigh + w.ml * 0) * scale
           low == Weighted(less, stats, known, recent, 0)
           high == Weighted(more, stats, known, recent, 0)
           ten == 10 * scale
<1>1. scale \in Nat /\ scale > 0
  BY ScalePositive
<1>2. ruleLow \in Nat /\ ruleHigh \in Nat /\ ruleLow <= ruleHigh
  <2>1. ruleLow \in 0..10000 * scale /\ ruleHigh \in 0..10000 * scale /\ ruleLow <= ruleHigh
    BY RuleRange, RuleMonotone DEF Unit
  <2> HIDE DEF scale, ruleLow, ruleHigh
  <2>2. QED
    BY <1>1, <2>1
<1>3. /\ ownLow \in {0, 3000, 5000, 7000} /\ ownHigh \in {0, 3000, 5000, 7000}
      /\ ownLow <= ownHigh
  BY PersonalRange, PersonalMonotone
<1>4. w.rule \in {1, 3, 7, 10} /\ w.personal \in {0, 1, 3, 4} /\ w.ml \in {0, 3, 8}
  BY DEF Weights
<1>5. /\ low = MinOf(10000 * 10 * scale, sumLow) /\ high = MinOf(10000 * 10 * scale, sumHigh)
      /\ FinalScore(less, stats, known, recent, 0) = HalfEven(low, ten)
      /\ FinalScore(more, stats, known, recent, 0) = HalfEven(high, ten)
  BY DEF Weighted, FinalScore, Unit
<1> DEFINE x == w.personal * ownLow + w.ml * 0
           y == w.personal * ownHigh + w.ml * 0
<1> HIDE DEF scale, w, ruleLow, ruleHigh, ownLow, ownHigh
<1>6. x \in Nat /\ y \in Nat /\ x <= y
  <2>1. w.ml * 0 = 0
    BY <1>4
  <2>2. /\ w.personal * ownLow \in Nat /\ w.personal * ownHigh \in Nat
        /\ w.personal * ownLow <= w.personal * ownHigh
    BY <1>3, <1>4
  <2>3. QED
    BY <2>1, <2>2
<1>7. sumLow \in Nat /\ sumHigh \in Nat /\ sumLow <= sumHigh
  <2> HIDE DEF x, y
  <2>1. x * scale <= y * scale /\ x * scale \in Nat /\ y * scale \in Nat
    BY <1>1, <1>6, ProductMonotone
  <2>2. /\ w.rule * ruleLow <= w.rule * ruleHigh
        /\ w.rule * ruleLow \in Nat /\ w.rule * ruleHigh \in Nat
    BY <1>2, <1>4
  <2> DEFINE a == w.rule * ruleLow
             b == w.rule * ruleHigh
             c == x * scale
             d == y * scale
  <2>3. sumLow = a + c /\ sumHigh = b + d
    BY DEF x, y
  <2> HIDE DEF a, b, c, d, sumLow, sumHigh
  <2>4. a \in Nat /\ b \in Nat /\ c \in Nat /\ d \in Nat /\ a <= b /\ c <= d
    BY <2>1, <2>2 DEF a, b, c, d
  <2>5. QED
    BY <2>3, <2>4
<1> HIDE DEF low, high, sumLow, sumHigh
<1>8. low \in Nat /\ high \in Nat /\ low <= high
  BY <1>1, <1>5, <1>7 DEF MinOf
<1>9. ten \in Nat /\ ten > 0
  BY <1>1
<1> HIDE DEF ten
<1>10. HalfEven(low, ten) <= HalfEven(high, ten)
  BY <1>8, <1>9, HalfEvenMonotone
<1>11. QED
  BY <1>5, <1>10

(* A larger amount, and night rather than day, never lowers the score, for *)
(* any statistics and at every stage of the weights.                       *)
THEOREM MoreIsRiskierHolds == Spec => []MoreIsRiskier
<1>1. IInv => MoreIsRiskier
  <2> SUFFICES ASSUME IInv, NEW stats \in Profiles, NEW less \in Purchases, NEW more \in Purchases,
                      stats.avg <= less.amount, less.amount <= more.amount,
                      IsNight(less) => IsNight(more)
               PROVE  FinalScore(less, stats, txCount, Recent, 0)
                        <= FinalScore(more, stats, txCount, Recent, 0)
    BY DEF MoreIsRiskier
  <2>1. /\ txCount \in Nat /\ less.amount \in Nat /\ more.amount \in Nat
        /\ stats.avg \in Nat /\ stats.std \in Nat
    BY StandingAssumption DEF IInv, RowsTyped
  <2>2. QED
    BY <2>1, ScoreMonotone
<1>2. QED
  BY <1>1, InvariantHolds, PTL
--------------------------------------------------------------------------------
(* Good deeds.                                                             *)

(* new is as good an item for readiness as old: what it weighs more, it    *)
(* scores more.                                                            *)
IsAsGood(new, old) ==
  /\ Weight(old) <= Weight(new)
  /\ Weight(new) - Weight(old) <= Score(new) - Score(old)

(* The items keep their ranges after a step, too.                          *)
ItemsInRange ==
  \A i \in {GoalItem, SpendingItem, PlanItem, SafetyItem} :
    i.weight \in {10, 15, 25, 50} /\ i.score \in 0..i.weight

LEMMA ItemRangesNext == RowsTyped' => ItemsInRange'
<1>1. RowsTyped => ItemsInRange
  BY ItemRanges DEF ItemsInRange
<1>2. QED
  BY <1>1, PTL

(* A percentage never falls when as much is scored as is weighed.          *)
LEMMA QuotientGrows ==
  ASSUME NEW s \in Nat, NEW w \in Nat, w > 0, s <= w,
         NEW t \in Nat, NEW v \in Nat, w <= v, v - w <= t - s
  PROVE  (100 * s) \div w <= (100 * t) \div v
<1> DEFINE n == 100 * s
           m == 100 * t
           q == n \div w
<1>1. n \in Nat /\ m \in Nat /\ n <= w * 100 /\ n + 100 * (v - w) <= m
  OBVIOUS
<1> HIDE DEF n, m
<1>2. q \in Nat /\ w * q <= n /\ w * q \in Nat
  BY <1>1, Division
<1> HIDE DEF q
<1>3. q <= 100
  <2> SUFFICES ASSUME 100 < q PROVE FALSE
    BY <1>2
  <2>1. w * 100 + w <= w * q
    BY <1>2, OneMore
  <2>2. QED
    BY <1>1, <1>2, <2>1
<1>4. PICK k \in Nat : k = v - w
  OBVIOUS
<1>5. k * q <= 100 * k /\ k * q \in Nat
  <2>1. 100 - q \in Nat /\ (100 - q) * k \in Nat /\ 100 * k = k * q + (100 - q) * k
    BY <1>2, <1>3
  <2>2. k * q \in Nat
    BY <1>2
  <2>3. QED
    BY <2>1, <2>2
<1>6. v * q = w * q + k * q
  <2>1. v = w + k
    BY <1>4
  <2>2. (w + k) * q = w * q + k * q
    BY <1>2
  <2>3. QED
    BY <2>1, <2>2
<1>7. v * q <= m /\ v \in Nat /\ v > 0
  BY <1>1, <1>2, <1>4, <1>5, <1>6
<1>8. q <= m \div v
  BY <1>1, <1>2, <1>7, QuotientAtLeast
<1>9. QED
  BY <1>8 DEF q, n, m

(* Four items as good as before make as good a percentage.                 *)
LEMMA PercentGrows ==
  ASSUME RowsTyped, RowsTyped',
         IsAsGood(GoalItem', GoalItem), IsAsGood(SpendingItem', SpendingItem),
         IsAsGood(PlanItem', PlanItem), IsAsGood(SafetyItem', SafetyItem)
  PROVE  Percent' >= Percent
<1> DEFINE s == Score(GoalItem) + Score(SpendingItem) + Score(PlanItem) + Score(SafetyItem)
           w == Weight(GoalItem) + Weight(SpendingItem) + Weight(PlanItem) + Weight(SafetyItem)
           t == Score(GoalItem') + Score(SpendingItem') + Score(PlanItem') + Score(SafetyItem')
           v == Weight(GoalItem') + Weight(SpendingItem') + Weight(PlanItem') + Weight(SafetyItem')
           q == (100 * s) \div w
           r == (100 * t) \div v
<1>1. \A i \in {GoalItem, SpendingItem, PlanItem, SafetyItem,
                GoalItem', SpendingItem', PlanItem', SafetyItem'} :
        Weight(i) \in Nat /\ Score(i) \in Nat /\ Score(i) <= Weight(i)
  <2>1. \A i \in {GoalItem, SpendingItem, PlanItem, SafetyItem} :
          i.weight \in {10, 15, 25, 50} /\ i.score \in 0..i.weight
    BY ItemRanges
  <2>2. \A i \in {GoalItem', SpendingItem', PlanItem', SafetyItem'} :
          i.weight \in {10, 15, 25, 50} /\ i.score \in 0..i.weight
    BY ItemRangesNext DEF ItemsInRange
  <2>3. QED
    BY <2>1, <2>2 DEF Weight, Score
<1>2. Weight(GoalItem) = 50
  BY DEF GoalItem, Weight, IsEvaluated
<1>3. s \in Nat /\ w \in Nat /\ w > 0 /\ s <= w /\ t \in Nat /\ v \in Nat /\ t <= v
  BY <1>1, <1>2
<1>4. w <= v /\ v - w <= t - s
  BY <1>1 DEF IsAsGood
<1>5. Percent = Clamped[q] /\ Percent' = Clamped[r]
  <2>1. w # 0 /\ v # 0
    BY <1>3, <1>4
  <2>2. Percent = IF w = 0 THEN 0 ELSE Clamped[q]
    BY DEF Percent
  <2>3. Percent' = IF v = 0 THEN 0 ELSE Clamped[r]
    BY DEF Percent
  <2>4. QED
    BY <2>1, <2>2, <2>3
<1> HIDE DEF s, w, t, v
<1>6. q <= r
  BY <1>3, <1>4, QuotientGrows
<1>7. q \in Nat /\ r \in Nat
  <2>1. 100 * s \in Nat /\ 100 * t \in Nat /\ v > 0
    BY <1>3, <1>4
  <2>2. QED
    BY <1>3, <2>1, Division
<1> HIDE DEF q, r
<1>8. QED
  BY <1>5, <1>6, <1>7 DEF Clamped, MaxOf, MinOf

LEMMA SameIsAsGood ==
  ASSUME RowsTyped
  PROVE  \A i \in {GoalItem, SpendingItem, PlanItem, SafetyItem} : IsAsGood(i, i)
<1> SUFFICES ASSUME NEW i \in {GoalItem, SpendingItem, PlanItem, SafetyItem} PROVE IsAsGood(i, i)
  OBVIOUS
<1>1. i.weight \in {10, 15, 25, 50} /\ i.score \in 0..i.weight
  BY ItemRanges
<1>2. QED
  BY <1>1 DEF IsAsGood, Weight, Score

(* Another harmless row changes the safety item only if it is the first.   *)
LEMMA SafetyAsGood ==
  ASSUME RowsTyped, rows' = [rows EXCEPT !["minutes"]["LOW"] = @ + 1]
  PROVE  IsAsGood(SafetyItem', SafetyItem)
<1> DEFINE H == Quarter("HIGH")  M == Quarter("MEDIUM")  L == Quarter("LOW")
           points == MaxOf(0, 10 - 8 * H - 3 * M)
<1>1. H \in Nat /\ M \in Nat /\ L \in Nat
  BY RowCounts
<1>2. Quarter("HIGH")' = H /\ Quarter("MEDIUM")' = M /\ Quarter("LOW")' = L + 1
  <2>1. /\ \A a \in {"month", "quarter"} : rows'[a] = rows[a]
        /\ rows'["minutes"]["HIGH"] = rows["minutes"]["HIGH"]
        /\ rows'["minutes"]["MEDIUM"] = rows["minutes"]["MEDIUM"]
        /\ rows'["minutes"]["LOW"] = rows["minutes"]["LOW"] + 1
    BY DEF RowsTyped, Ages, Levels
  <2>2. \A a \in Ages : rows[a]["LOW"] \in Nat
    BY DEF RowsTyped, Levels
  <2>3. QED
    BY <2>1, <2>2 DEF Quarter, Month, Ages
<1>3. /\ SafetyItem  = [weight |-> 10, known |-> L + M + H > 0, score |-> points]
      /\ SafetyItem' = [weight |-> 10, known |-> (L + 1) + M + H > 0, score |-> points]
  BY <1>2 DEF SafetyItem
<1>4. (L + 1) + M + H > 0 /\ points \in Nat /\ (~ L + M + H > 0 => points = 10)
  BY <1>1 DEF MaxOf
<1> HIDE DEF H, M, L, points
<1>5. Weight(SafetyItem') = 10 /\ Score(SafetyItem') = points
  BY <1>3, <1>4 DEF Weight, Score, IsEvaluated
<1>6. /\ Weight(SafetyItem) = IF L + M + H > 0 THEN 10 ELSE 0
      /\ Score(SafetyItem) = IF L + M + H > 0 THEN points ELSE 0
  BY <1>3 DEF Weight, Score, IsEvaluated
<1>7. QED
  BY <1>4, <1>5, <1>6 DEF IsAsGood

(* One more kept day out of one more day.                                  *)
LEMMA KeptShareGrows ==
  ASSUME NEW k \in Nat, NEW d \in Nat, d > 0, k <= d
  PROVE  (50 * k + d) \div (2 * d) <= (50 * (k + 1) + (d + 1)) \div (2 * (d + 1))
<1> DEFINE n == 50 * k + d
           e == 2 * d
           q == n \div e
           m == 50 * (k + 1) + (d + 1)
           f == 2 * (d + 1)
<1>1. n \in Nat /\ e \in Nat /\ e > 0 /\ m \in Nat /\ f \in Nat /\ f > 0
  OBVIOUS
<1>2. n <= 51 * d /\ e = 2 * d /\ m = n + 51 /\ f = e + 2 /\ n < e * 26
  OBVIOUS
<1> HIDE DEF n, e, m, f
<1>3. q \in Nat /\ e * q <= n /\ e * q \in Nat
  BY <1>1, Division
<1> HIDE DEF q
<1>4. q <= 25
  <2> SUFFICES ASSUME 26 <= q PROVE FALSE
    BY <1>3
  <2>1. e * 25 + e <= e * q /\ e * 25 \in Nat
    BY <1>1, <1>3, OneMore
  <2>2. QED
    BY <1>1, <1>2, <1>3, <2>1
<1>5. f * q <= m
  <2>1. f * q = e * q + 2 * q
    BY <1>1, <1>2, <1>3
  <2>2. QED
    BY <1>1, <1>2, <1>3, <1>4, <2>1
<1>6. q <= m \div f
  BY <1>1, <1>3, <1>5, QuotientAtLeast
<1>7. QED
  BY <1>6 DEF q, n, e, m, f

LEMMA SpendingAsGood ==
  ASSUME RowsTyped, RowsTyped', limits' = [limits EXCEPT !.kept = @ + 1]
  PROVE  IsAsGood(SpendingItem', SpendingItem)
<1> DEFINE k == limits.kept
           d == limits.kept + limits.broken
           old == (50 * k + d) \div (2 * d)
           new == (50 * (k + 1) + (d + 1)) \div (2 * (d + 1))
           Item(kept, days) == [weight |-> 25, known |-> days > 0,
                                score |-> IF days = 0 THEN 0 ELSE (50 * kept + days) \div (2 * days)]
<1>1. k \in Nat /\ d \in Nat /\ k <= d
  BY DEF RowsTyped
<1>2. limits'.kept = k + 1 /\ limits'.kept + limits'.broken = d + 1
  BY DEF RowsTyped
<1>3. /\ SpendingItem.weight = 25 /\ SpendingItem'.weight = 25
      /\ SpendingItem.known <=> d > 0
      /\ SpendingItem'.known <=> d + 1 > 0
      /\ SpendingItem.score = IF d = 0 THEN 0 ELSE old
      /\ SpendingItem'.score = IF d + 1 = 0 THEN 0 ELSE new
  <2>1. SpendingItem = Item(k, d) /\ SpendingItem' = Item(limits'.kept, limits'.kept + limits'.broken)
    BY DEF SpendingItem
  <2>2. SpendingItem' = Item(k + 1, d + 1)
    BY <1>2, <2>1
  <2>3. \A a, b : /\ Item(a, b).weight = 25 /\ (Item(a, b).known <=> b > 0)
                 /\ Item(a, b).score = IF b = 0 THEN 0 ELSE (50 * a + b) \div (2 * b)
    OBVIOUS
  <2> HIDE DEF k, d, Item
  <2>4. QED
    BY <2>1, <2>2, <2>3
<1>4. d > 0 => old <= new
  <2> HIDE DEF k, d
  <2>1. QED
    BY <1>1, KeptShareGrows
<1>5. d = 0 => new = 25
  <2>1. ASSUME d = 0 PROVE (50 * (k + 1) + (d + 1)) = 51 /\ 2 * (d + 1) = 2
    BY <1>1, <2>1
  <2>2. 51 \div 2 = 25
    OBVIOUS
  <2> HIDE DEF k, d
  <2>3. QED
    BY <2>1, <2>2
<1>6. new \in Nat /\ (d > 0 => old \in Nat)
  <2> HIDE DEF k, d
  <2>1. /\ 50 * (k + 1) + (d + 1) \in Nat /\ 2 * (d + 1) \in Nat /\ 2 * (d + 1) > 0
        /\ 50 * k + d \in Nat /\ 2 * d \in Nat /\ (d > 0 => 2 * d > 0)
    BY <1>1
  <2>2. QED
    BY <2>1, Division
<1> HIDE DEF k, d, old, new
<1>7. Weight(SpendingItem') = 25 /\ Score(SpendingItem') = new
  BY <1>1, <1>3 DEF Weight, Score, IsEvaluated
<1>8. /\ Weight(SpendingItem) = IF d > 0 THEN 25 ELSE 0
      /\ Score(SpendingItem) = IF d > 0 THEN old ELSE 0
  BY <1>1, <1>3 DEF Weight, Score, IsEvaluated
<1>9. CASE d > 0
  BY <1>4, <1>6, <1>7, <1>8, <1>9 DEF IsAsGood
<1>10. CASE d = 0
  BY <1>5, <1>7, <1>8, <1>10 DEF IsAsGood
<1>11. QED
  BY <1>1, <1>9, <1>10

(* Another answer is a point and a half, rounded.                          *)
LEMMA PlanAsGood ==
  ASSUME RowsTyped, others' = others + 1, UNCHANGED choices
  PROVE  IsAsGood(PlanItem', PlanItem)
<1> DEFINE n == Answered
<1>1. n \in Nat
  BY DEF RowsTyped, OtherQuestions, Answered
<1>2. Answered' = n + 1
  BY DEF RowsTyped, OtherQuestions, Answered
<1>3. /\ PlanItem = [weight |-> 15, known |-> TRUE, score |-> (15 * n + 5) \div 10]
      /\ PlanItem' = [weight |-> 15, known |-> TRUE, score |-> (15 * (n + 1) + 5) \div 10]
  BY <1>2 DEF PlanItem
<1> HIDE DEF n
<1>4. /\ (15 * n + 5) \div 10 \in Nat /\ (15 * (n + 1) + 5) \div 10 \in Nat
      /\ (15 * n + 5) \div 10 <= (15 * (n + 1) + 5) \div 10
  BY <1>1
<1>5. QED
  BY <1>3, <1>4 DEF IsAsGood, Weight, Score, IsEvaluated

(* More money is no less of the goal.                                      *)
LEMMA GoalAsGood ==
  ASSUME RowsTyped, asset' \in Nat, asset' > asset, UNCHANGED <<choices, form>>
  PROVE  IsAsGood(GoalItem', GoalItem)
<1> DEFINE target == Target(choices, form)
           p == Progress(choices, form, asset)
           r == Progress(choices, form, asset')
<1>1. target \in Nat /\ asset \in Nat
  BY PlanNumbers DEF RowsTyped
<1>2. /\ p = IF target = 0 \/ asset >= target THEN 10000 ELSE Quantized(asset, target)
      /\ r = IF target = 0 \/ asset' >= target THEN 10000 ELSE Quantized(asset', target)
  BY DEF Progress
<1>3. /\ GoalItem = [weight |-> 50, known |-> TRUE, score |-> (p * 50 + 5000) \div 10000]
      /\ GoalItem' = [weight |-> 50, known |-> TRUE, score |-> (r * 50 + 5000) \div 10000]
  BY DEF GoalItem
<1> HIDE DEF target, p, r
<1>4. (target # 0 /\ asset < target) =>
        /\ Quantized(asset, target) \in Nat /\ Quantized(asset, target) <= 10000
        /\ Quantized(asset', target) \in Nat /\ Quantized(asset, target) <= Quantized(asset', target)
  BY <1>1, QuantizedShare
<1>5. p \in Nat /\ r \in Nat /\ p <= r
  BY <1>1, <1>2, <1>4
<1>6. /\ (p * 50 + 5000) \div 10000 \in Nat /\ (r * 50 + 5000) \div 10000 \in Nat
      /\ (p * 50 + 5000) \div 10000 <= (r * 50 + 5000) \div 10000
  BY <1>5
<1>7. QED
  BY <1>3, <1>6 DEF IsAsGood, Weight, Score, IsEvaluated

LEMMA GoodDeedStep ==
  ASSUME IInv, [Next]_vars, GoodDeed
  PROVE  Percent' >= Percent
<1>1. RowsTyped /\ RowsTyped'
  BY IInvStep DEF IInv
<1>2. \A i \in {GoalItem, SpendingItem, PlanItem, SafetyItem} : IsAsGood(i, i)
  BY <1>1, SameIsAsGood
<1>3. /\ txCount \in Nat /\ asset \in Nat /\ asset' \in Nat /\ others \in Nat
      /\ limits.kept \in Nat
  BY <1>1 DEF RowsTyped, OtherQuestions
<1>4. ASSUME NEW tx \in Purchases, NEW stats \in Profiles, NEW chance \in Chances,
             Detect(tx, stats, chance)
      PROVE  Percent' >= Percent
  <2>1. UNCHANGED <<limits, choices, others, form, asset>> /\ last'.level = "LOW"
    BY <1>3, <1>4 DEF Detect, GoodDeed
  <2>2. rows' = [rows EXCEPT !["minutes"]["LOW"] = @ + 1]
    BY <1>4, <2>1 DEF Detect
  <2>3. GoalItem' = GoalItem /\ SpendingItem' = SpendingItem /\ PlanItem' = PlanItem
    BY <2>1 DEF GoalItem, SpendingItem, PlanItem, Answered
  <2>4. IsAsGood(SafetyItem', SafetyItem)
    BY <1>1, <2>2, SafetyAsGood
  <2>5. QED
    BY <1>1, <1>2, <2>3, <2>4, PercentGrows
<1>5. ASSUME NEW l \in Limits, CalculateDailyLimit(l.left, l.days) PROVE Percent' >= Percent
  <2>1. UNCHANGED <<txCount, rows, choices, others, form, asset>> /\ limits'.kept > limits.kept
    BY <1>3, <1>5 DEF CalculateDailyLimit, GoodDeed
  <2>2. limits' = [limits EXCEPT !.kept = @ + 1]
    BY <1>1, <1>3, <1>5, <2>1 DEF CalculateDailyLimit, RowsTyped
  <2>3. GoalItem' = GoalItem /\ PlanItem' = PlanItem /\ SafetyItem' = SafetyItem
    BY <2>1 DEF GoalItem, PlanItem, Answered, SafetyItem, Quarter, Month
  <2>4. IsAsGood(SpendingItem', SpendingItem)
    BY <1>1, <2>2, SpendingAsGood
  <2>5. QED
    BY <1>1, <1>2, <2>3, <2>4, PercentGrows
<1>6. ASSUME Answer PROVE Percent' >= Percent
  <2>1. UNCHANGED <<txCount, rows, limits, form, asset>> /\ others' > others
    BY <1>3, <1>6 DEF Answer, GoodDeed
  <2>2. others' = others + 1 /\ UNCHANGED choices
    BY <1>3, <1>6, <2>1 DEF Answer
  <2>3. GoalItem' = GoalItem /\ SpendingItem' = SpendingItem /\ SafetyItem' = SafetyItem
    BY <2>1, <2>2 DEF GoalItem, SpendingItem, SafetyItem, Quarter, Month
  <2>4. IsAsGood(PlanItem', PlanItem)
    BY <1>1, <2>2, PlanAsGood
  <2>5. QED
    BY <1>1, <1>2, <2>3, <2>4, PercentGrows
<1>7. ASSUME Ask PROVE Percent' >= Percent
  <2>1. UNCHANGED <<txCount, rows, limits, choices, others>> /\ asset' > asset /\ UNCHANGED form
    BY <1>3, <1>7 DEF Ask, GoodDeed
  <2>2. SpendingItem' = SpendingItem /\ PlanItem' = PlanItem /\ SafetyItem' = SafetyItem
    BY <2>1 DEF SpendingItem, PlanItem, Answered, SafetyItem, Quarter, Month
  <2>3. IsAsGood(GoalItem', GoalItem)
    BY <1>1, <1>3, <2>1, GoalAsGood
  <2>4. QED
    BY <1>1, <1>2, <2>2, <2>3, PercentGrows
<1>8. ASSUME Pass PROVE FALSE
  <2>1. UNCHANGED <<txCount, others, asset>> /\ (UNCHANGED limits \/ limits' = [kept |-> 0, broken |-> 0])
    BY <1>8 DEF Pass
  <2>2. QED
    BY <1>3, <2>1 DEF GoodDeed
<1>9. CASE UNCHANGED vars
  BY <1>3, <1>9 DEF vars, GoodDeed
<1>10. QED
  BY <1>4, <1>5, <1>6, <1>7, <1>8, <1>9 DEF Next

(* A harmless transaction, a day within its limit, more money or another   *)
(* answer never lowers readiness, whatever else is known of the user.      *)
THEOREM GoodDeedsNeverHurtHolds == Spec => GoodDeedsNeverHurt
<1>1. IInv /\ [Next]_vars => [GoodDeed => Percent' >= Percent]_vars
  BY GoodDeedStep
<1>2. QED
  BY <1>1, InvariantHolds, PTL DEF Spec, GoodDeedsNeverHurt
================================================================================
