----------------------------- MODULE InsightsProofs -----------------------------
(***************************************************************************)
(* Machine-checked proofs about Insights, for any semester, any amounts    *)
(* and any number of blacklist entries and steps.                          *)
(***************************************************************************)
EXTENDS Insights, ScoringProofs, FiniteSetTheorems

--------------------------------------------------------------------------------
(* The inductive invariant.                                                *)

(* A release that no new entry overlaps takes every active row.            *)
ReleaseSeesAll == (releasing # None /\ releasing.alone) => releasing.seen = Active

(* Whatever the order of topics and revisions, a row says what Asset said  *)
(* in the revision it is of.                                               *)
RowsAsPublished ==
  /\ monthly # None => monthly.amount = Spent[monthly.rev]
  /\ \A k \in Rows : /\ k \in DOMAIN Published[categories[k].rev]
                     /\ categories[k].amount = Published[categories[k].rev][k]

IInv == RowsOK /\ ReleaseSeesAll /\ RowsAsPublished /\ IsFiniteSet(events)

LEMMA IInvInit == Init => IInv
<1> SUFFICES ASSUME Init PROVE IInv
  OBVIOUS
<1>1. steps \in 0..Steps
  BY InsightsAssumption DEF Init
<1>2. RowsOK
  BY <1>1 DEF Init, RowsOK
<1>3. ReleaseSeesAll
  BY DEF Init, ReleaseSeesAll
<1>4. RowsAsPublished /\ IsFiniteSet(events)
  BY FS_EmptySet DEF Init, RowsAsPublished, Rows
<1>5. QED
  BY <1>2, <1>3, <1>4 DEF IInv

LEMMA SpentIsNat == \A r \in Rev : Spent[r] \in Nat
<1> SUFFICES ASSUME NEW r \in Rev PROVE Spent[r] \in Nat
  OBVIOUS
<1>1. /\ IsFiniteSet(DOMAIN Published[r]) /\ \A k \in DOMAIN Published[r] : Published[r][k] \in Nat
      /\ Spent[r] = Sum(Published[r], DOMAIN Published[r])
  BY InsightsAssumption
<1>2. SumFunctionOnSet(Published[r], DOMAIN Published[r]) \in Nat
  BY <1>1, SumIsNat
<1>3. QED
  BY <1>1, <1>2 DEF Sum

LEMMA StepBounded == RowsOK /\ Step => steps' \in 0..Steps
  BY InsightsAssumption DEF RowsOK, Step

LEMMA StoreStep ==
  ASSUME IInv, NEW r \in Rev, StoreMonthly(r) \/ StoreCategories(r)
  PROVE  IInv'
<1> USE DEF IInv, RowsOK, ReleaseSeesAll, Active, semester, detections, listing
<1>1. CASE StoreMonthly(r)
  <2>1. /\ monthly' \in [rev : Rev, amount : Nat] /\ monthly'.amount = Spent[monthly'.rev]
        /\ UNCHANGED categories
    BY <1>1, SpentIsNat DEF StoreMonthly, Month!StoreTotal
  <2>2. RowsAsPublished'
    BY <2>1 DEF RowsAsPublished, Rows
  <2>3. QED
    BY <1>1, <2>1, <2>2, StepBounded DEF StoreMonthly, Month!StoreTotal
<1>2. CASE StoreCategories(r)
  <2>1. ASSUME NEW k \in Category
        PROVE  \/ categories'[k] = categories[k]
               \/ /\ k \in DOMAIN Published[r]
                  /\ categories'[k] \in [rev : Rev, amount : Nat]
                  /\ categories'[k].rev = r /\ categories'[k].amount = Published[r][k]
    <3>1. k \in DOMAIN Published[r] => [rev |-> r, amount |-> Published[r][k]] \in [rev : Rev, amount : Nat]
      BY InsightsAssumption
    <3>2. QED
      BY <1>2, <3>1 DEF StoreCategories, Month!StoreShares
  <2>2. categories' \in [Category -> [rev : Rev, amount : Nat] \union {None}]
    <3>1. categories' = [k \in Category |-> categories'[k]]
      BY <1>2 DEF StoreCategories, Month!StoreShares
    <3>2. \A k \in Category : categories'[k] \in [rev : Rev, amount : Nat] \union {None}
      BY <2>1
    <3>3. QED
      BY <3>1, <3>2
  <2>3. RowsAsPublished'
    <3>1. UNCHANGED monthly
      BY <1>2 DEF StoreCategories, Month!StoreShares
    <3>2. ASSUME NEW k \in Category, categories'[k] # None
          PROVE  /\ k \in DOMAIN Published[categories'[k].rev]
                 /\ categories'[k].amount = Published[categories'[k].rev][k]
      BY <2>1, <3>2 DEF RowsAsPublished, Rows
    <3>3. QED
      BY <3>1, <3>2 DEF RowsAsPublished, Rows
  <2>4. QED
    BY <1>2, <2>2, <2>3, StepBounded DEF StoreCategories, Month!StoreShares
<1>3. QED
  BY <1>1, <1>2

(* Every step keeps the rows' shape; the steps of the blacklist keep what  *)
(* a release has seen.                                                     *)
LEMMA IInvStep == IInv /\ [Next]_vars => IInv'
<1> SUFFICES ASSUME IInv, [Next]_vars PROVE IInv'
  OBVIOUS
<1> USE DEF IInv, RowsOK, ReleaseSeesAll, Active, RowsAsPublished, Rows
<1>1. ASSUME NEW d \in Day, NEW limit \in Limit, Calculate(d, limit) PROVE IInv'
  BY <1>1, StepBounded, InsightsAssumption DEF Calculate, detections, month, listing
<1>2. ASSUME NEW e \in Event, Plan(e) PROVE IInv'
  <2>1. IsFiniteSet(events')
    BY <1>2, FS_AddElement DEF Plan
  <2>2. QED
    BY <1>2, <2>1, StepBounded DEF Plan, detections, month, listing
<1>3. ASSUME NEW level \in Levels, NEW inside \in BOOLEAN, Detect(level, inside) PROVE IInv'
  BY <1>3, StepBounded DEF Detect, semester, month, listing
<1>4. ASSUME NEW r \in Rev, StoreMonthly(r) \/ StoreCategories(r) PROVE IInv'
  BY <1>4, StoreStep
<1>5. ASSUME ViewRecap PROVE IInv'
  BY <1>5, StepBounded DEF ViewRecap, RecordView, semester, detections, listing
<1>6. ASSUME NEW b \in Entry, RegisterBlacklist(b) PROVE IInv'
  <2>1. /\ releasing' \in [seen : SUBSET Entry, alone : BOOLEAN] \union {None}
        /\ releasing' # None => ~ releasing'.alone
    <3>1. CASE releasing = None
      BY <1>6, <3>1 DEF RegisterBlacklist
    <3>2. CASE releasing # None
      <4>1. releasing' = [releasing EXCEPT !.alone = FALSE]
        BY <1>6, <3>2 DEF RegisterBlacklist
      <4>2. QED
        BY <3>2, <4>1
    <3>3. QED
      BY <3>1, <3>2
  <2>2. blacklist' \in [Entry -> {"none", "active", "released"}]
    BY <1>6 DEF RegisterBlacklist
  <2>3. ReleaseSeesAll'
    BY <2>1
  <2>4. RowsOK'
    BY <1>6, <2>1, <2>2, StepBounded DEF RegisterBlacklist, semester, detections, month
  <2>5. RowsAsPublished' /\ IsFiniteSet(events')
    BY <1>6 DEF RegisterBlacklist, semester, month
  <2>6. QED
    BY <2>3, <2>4, <2>5
<1>7. ASSUME BeginRelease PROVE IInv'
  BY <1>7 DEF BeginRelease, semester, detections, month
<1>8. ASSUME CommitRelease PROVE IInv'
  BY <1>8 DEF CommitRelease, semester, detections, month
<1>9. CASE UNCHANGED vars
  BY <1>9 DEF vars, semester, detections, month, listing
<1>10. QED
  BY <1>1, <1>2, <1>3, <1>4, <1>5, <1>6, <1>7, <1>8, <1>9 DEF Next

THEOREM InvariantHolds == Spec => []IInv
  BY IInvInit, IInvStep, PTL DEF Spec

--------------------------------------------------------------------------------
(* The four scores.                                                        *)

LEMMA ScoreRanges ==
  ASSUME NEW high \in Nat, NEW medium \in Nat, NEW listed \in BOOLEAN
  PROVE  /\ Safety(high, medium, listed) \in 0..40
         /\ DailyLimit(days) \in {0, 7, 15, 22, 30}
         /\ Events(days, events) \in {5, 10, 15, 20}
         /\ Regularity(days) \in {0, 3, 5, 7, 10}
<1>1. Safety(high, medium, listed) \in 0..40
  BY DEF Safety, SafetyPoints, MaxOf
<1>2. DailyLimit(days) \in {0, 7, 15, 22, 30}
  BY DEF DailyLimit
<1>3. Events(days, events) \in {5, 10, 15, 20}
  BY DEF Events
<1>4. Regularity(days) \in {0, 3, 5, 7, 10}
  BY DEF Regularity
<1>5. QED
  BY <1>1, <1>2, <1>3, <1>4

(* What a high safety score leaves room for.                               *)
LEMMA SafetyLeft ==
  ASSUME NEW high \in Nat, NEW medium \in Nat, NEW listed \in BOOLEAN,
         Safety(high, medium, listed) >= 30
  PROVE  /\ 8 * high + 3 * medium <= 10
         /\ listed => 8 * high + 3 * medium = 0
<1> DEFINE lost == 8 * high + 3 * medium
<1>1. lost \in Nat /\ SafetyPoints(high, medium) = MaxOf(0, 40 - lost)
  BY DEF SafetyPoints, MaxOf
<1> HIDE DEF lost
<1>2. lost <= 10 /\ (listed => lost = 0)
  BY <1>1 DEF Safety, MaxOf
<1>3. QED
  BY <1>2 DEF lost

(* The report's total is the sum of the four, which is never more than 100.*)
LEMMA ShownTotal ==
  ASSUME RowsOK
  PROVE  /\ Shown.total \in 0..100
         /\ Shown.total = Safety(log["HIGH"], log["MEDIUM"], Listed) + DailyLimit(days)
                            + Events(days, events) + Regularity(days)
         /\ Shown.grade = IF Recorded(days) = {} THEN "N/A" ELSE Grade(Shown.total)
<1> DEFINE safety == Safety(log["HIGH"], log["MEDIUM"], Listed)
           sum == safety + DailyLimit(days) + Events(days, events) + Regularity(days)
<1>1. log["HIGH"] \in Nat /\ log["MEDIUM"] \in Nat /\ Listed \in BOOLEAN
  BY DEF RowsOK, Levels, Listed
<1>2. /\ safety \in 0..40
      /\ DailyLimit(days) \in {0, 7, 15, 22, 30}
      /\ Events(days, events) \in {5, 10, 15, 20}
      /\ Regularity(days) \in {0, 3, 5, 7, 10}
  BY <1>1, ScoreRanges
<1>3. /\ Shown.total = MinOf(100, sum)
      /\ Shown.grade = IF Recorded(days) = {} THEN "N/A" ELSE Grade(MinOf(100, sum))
  BY DEF Shown, Report
<1> HIDE DEF safety
<1>4. sum \in 0..100 /\ MinOf(100, sum) = sum
  BY <1>2 DEF MinOf
<1>5. QED
  BY <1>3, <1>4 DEF safety

(* Rows keep their shape and the score its range.                          *)
THEOREM TypeCorrect == Spec => []TypeOK
<1>1. IInv => TypeOK
  BY ShownTotal DEF IInv, TypeOK
<1>2. QED
  BY <1>1, InvariantHolds, PTL

(* Shares of the recorded days are numbers.                                *)
LEMMA RateIsNumber ==
  ASSUME NEW f \in [Day -> [count : Nat, total : Nat]], Recorded(f) # {}
  PROVE  /\ IsFiniteSet(Recorded(f)) /\ Compliant(f) \subseteq Recorded(f)
         /\ Cardinality(Recorded(f)) \in Nat /\ Cardinality(Recorded(f)) > 0
         /\ Cardinality(Compliant(f)) \in Nat
         /\ ComplianceRate(f) \in Nat
<1>1. Recorded(f) \subseteq Day /\ Compliant(f) \subseteq Recorded(f)
  BY DEF Recorded, Compliant
<1>2. IsFiniteSet(Recorded(f)) /\ IsFiniteSet(Compliant(f))
  BY <1>1, FS_Subset, InsightsAssumption
<1>3. /\ Cardinality(Recorded(f)) \in Nat /\ Cardinality(Recorded(f)) # 0
      /\ Cardinality(Compliant(f)) \in Nat
  BY <1>2, FS_CardinalityType, FS_EmptySet
<1>4. ComplianceRate(f) \in Nat
  BY <1>3, QuantizedShare DEF ComplianceRate
<1>5. QED
  BY <1>1, <1>2, <1>3, <1>4

--------------------------------------------------------------------------------
(* The grade.                                                              *)

(* An A takes 90 of 100 points, so no score may miss more than ten of its  *)
(* own: what each of them then stands for.                                 *)
LEMMA GradeA ==
  ASSUME RowsOK, Shown.grade = "A"
  PROVE  /\ Recorded(days) # {}
         /\ Safety(log["HIGH"], log["MEDIUM"], Listed) >= 30
         /\ DailyLimit(days) \in {22, 30}
         /\ Events(days, events) \in {10, 15, 20}
         /\ Listed => /\ Safety(log["HIGH"], log["MEDIUM"], Listed) = 30
                      /\ DailyLimit(days) = 30
                      /\ Events(days, events) = 20
                      /\ Regularity(days) = 10
<1> DEFINE safety == Safety(log["HIGH"], log["MEDIUM"], Listed)
<1>1. log["HIGH"] \in Nat /\ log["MEDIUM"] \in Nat /\ Listed \in BOOLEAN
  BY DEF RowsOK, Levels, Listed
<1>2. /\ safety \in 0..40
      /\ DailyLimit(days) \in {0, 7, 15, 22, 30}
      /\ Events(days, events) \in {5, 10, 15, 20}
      /\ Regularity(days) \in {0, 3, 5, 7, 10}
  BY <1>1, ScoreRanges
<1>3. Recorded(days) # {}
  BY ShownTotal
<1>4. safety + DailyLimit(days) + Events(days, events) + Regularity(days) >= 90
  <2>1. Grade(Shown.total) = "A" /\ Shown.total \in 0..100
    BY <1>3, ShownTotal
  <2>2. Shown.total >= 90
    BY <2>1 DEF Grade
  <2>3. QED
    BY <2>2, ShownTotal
<1>5. Listed => safety <= 30
  BY <1>1 DEF Safety, SafetyPoints, MaxOf
<1> HIDE DEF safety
<1>6. QED
  BY <1>2, <1>3, <1>4, <1>5 DEF safety

LEMMA GradeEarned ==
  ASSUME RowsOK
  PROVE  GradeIsEarned
<1>1. Shown.grade = "N/A" <=> Recorded(days) = {}
  BY ShownTotal DEF Grade
<1>2. ASSUME Shown.grade = "A"
      PROVE  /\ log["HIGH"] <= 1 /\ log["MEDIUM"] <= 3
             /\ log["HIGH"] = 1 => log["MEDIUM"] = 0
             /\ Listed => log["HIGH"] = 0 /\ log["MEDIUM"] = 0
  <2>1. log["HIGH"] \in Nat /\ log["MEDIUM"] \in Nat /\ Listed \in BOOLEAN
    BY DEF RowsOK, Levels, Listed
  <2>2. /\ Safety(log["HIGH"], log["MEDIUM"], Listed) >= 30
        /\ Listed => Safety(log["HIGH"], log["MEDIUM"], Listed) = 30
    BY <1>2, GradeA
  <2>3. /\ 8 * log["HIGH"] + 3 * log["MEDIUM"] <= 10
        /\ Listed => 8 * log["HIGH"] + 3 * log["MEDIUM"] = 0
    BY <2>1, <2>2, SafetyLeft
  <2>4. QED
    BY <2>1, <2>3
<1>3. ASSUME Shown.grade = "A"
      PROVE  /\ ComplianceRate(days) >= 7000
             /\ Listed => ComplianceRate(days) >= 9000
  <2>1. Recorded(days) # {} /\ DailyLimit(days) \in {22, 30} /\ (Listed => DailyLimit(days) = 30)
    BY <1>3, GradeA
  <2>2. ComplianceRate(days) \in Nat
    BY <2>1, RateIsNumber DEF RowsOK
  <2>3. QED
    BY <2>1, <2>2 DEF DailyLimit
<1>4. ASSUME Shown.grade = "A"
      PROVE  /\ events # {} => \E bound \in {120, 150, 200} : RatioAtMost(days, events, bound)
             /\ (Listed /\ events # {}) => RatioAtMost(days, events, 120)
             /\ Listed => HasVariation(days) /\ VariationAtMost(days, 5)
  <2>1. /\ Events(days, events) \in {10, 15, 20}
        /\ Listed => Events(days, events) = 20 /\ Regularity(days) = 10
    BY <1>4, GradeA
  <2>2. QED
    BY <2>1 DEF Events, Regularity
<1>5. QED
  BY <1>1, <1>2, <1>3, <1>4 DEF GradeIsEarned

(* A grade stands for what it is said to stand for.                        *)
THEOREM GradeIsEarnedHolds == Spec => []GradeIsEarned
<1>1. IInv => GradeIsEarned
  BY GradeEarned DEF IInv
<1>2. QED
  BY <1>1, InvariantHolds, PTL

--------------------------------------------------------------------------------
(* Badges.                                                                 *)

(* The averages are made over a number above zero, whatever the counts.    *)
LEMMA DenominatorPositive ==
  ASSUME NEW f \in [Day -> [count : Nat, total : Nat]]
  PROVE  Denominator(f) \in Nat /\ Denominator(f) > 0
<1> DEFINE S == Recorded(f)
           counts == [d \in DOMAIN f |-> f[d].count]
           pick(T) == CHOOSE d \in T : TRUE
           next(i) == [T \in SUBSET S |-> IF T = {} THEN 1 ELSE counts[pick(T)] * i[T \ {pick(T)}]]
           product == CHOOSE i : i = next(i)
<1>1. Denominator(f) = product[S]
  BY DEF Denominator, FoldFunctionOnSet, MapThenFoldSet
<1>2. \A T \in SUBSET S : T # {} => pick(T) \in T
  OBVIOUS
<1>3. IsFiniteSet(S) /\ \A d \in S : counts[d] \in Nat /\ counts[d] > 0
  <2>1. S \subseteq Day
    BY DEF Recorded
  <2>2. QED
    BY <2>1, FS_Subset, InsightsAssumption DEF Recorded
<1> HIDE DEF S, counts, pick
<1>4. PICK g : IsFold(g, Times, 1, counts, S)
  <2>1. \A d \in S : counts[d] \in Int
    BY <1>3
  <2>2. QED
    BY <1>3, <2>1, FoldExists, PlusTimes
<1>5. \A T \in SUBSET S : \A d \in T : g[T] = counts[d] * g[T \ {d}]
  <2> SUFFICES ASSUME NEW T \in SUBSET S, NEW d \in T PROVE g[T] = counts[d] * g[T \ {d}]
    OBVIOUS
  <2>1. /\ g[T] = Times[counts[d]][g[T \ {d}]]
        /\ counts[d] \in Int /\ g[T \ {d}] \in Int
    BY <1>3, <1>4 DEF IsFold
  <2>2. QED
    BY <2>1 DEF Times
<1>6. g \in [SUBSET S -> Int] /\ g[{}] = 1
  BY <1>4 DEF IsFold
<1>7. product[S] = g[S]
  <2>1. g = next(g)
    <3>1. \A T \in SUBSET S : g[T] = IF T = {} THEN 1 ELSE counts[pick(T)] * g[T \ {pick(T)}]
      BY <1>2, <1>5, <1>6
    <3>2. QED
      BY <1>6, <3>1
  <2>2. product = next(product)
    <3>1. \E i : i = next(i)
      BY <2>1
    <3> HIDE DEF next
    <3>2. QED
      BY <3>1
  <2> HIDE DEF product
  <2>3. \A T \in SUBSET S : product[T] = IF T = {} THEN 1 ELSE counts[pick(T)] * product[T \ {pick(T)}]
    BY <2>2
  <2>4. ASSUME NEW T \in SUBSET S, T # {}
        PROVE  \E d \in T : product[T \ {d}] = g[T \ {d}] => product[T] = g[T]
    BY <1>2, <1>5, <2>3, <2>4
  <2>5. product[{}] = g[{}]
    BY <1>6, <2>3
  <2>6. QED
    BY <1>3, <2>4, <2>5, SameOnParts
<1> DEFINE Good == {T \in SUBSET S : g[T] \in Nat /\ g[T] > 0}
<1>8. {} \in Good
  BY <1>6
<1>9. ASSUME NEW T \in SUBSET S, NEW d \in S \ T, T \in Good PROVE T \union {d} \in Good
  <2> DEFINE U == T \union {d}
  <2>1. U \in SUBSET S /\ d \in U /\ U \ {d} = T
    OBVIOUS
  <2>2. g[U] = counts[d] * g[T]
    BY <1>5, <2>1
  <2>3. counts[d] \in Nat /\ counts[d] > 0 /\ g[T] \in Nat /\ g[T] > 0
    BY <1>3, <1>9
  <2>4. \A a, b \in Nat : a > 0 /\ b > 0 => a * b \in Nat /\ a * b > 0
    OBVIOUS
  <2> HIDE DEF U
  <2>5. QED
    BY <2>1, <2>2, <2>3, <2>4 DEF U
<1> HIDE DEF Good
<1>10. \A T \in SUBSET S : T \in Good
  BY <1>3, <1>8, <1>9, SetInduction
<1>11. QED
  BY <1>1, <1>7, <1>10 DEF Good

(* A sum of whole numbers, written as a function, is one.                  *)
LEMMA SumOfNats ==
  ASSUME NEW S, IsFiniteSet(S), NEW f \in [S -> Nat]
  PROVE  SumFunction(f) \in Nat
<1>1. SumFunctionOnSet(f, S) \in Nat
  BY SumIsNat
<1>2. QED
  BY <1>1 DEF SumFunction

(* Ratios are numbers: no event makes the report divide by zero.           *)
LEMMA RatiosAreNumbers ==
  ASSUME NEW f \in [Day -> [count : Nat, total : Nat]],
         NEW E \in SUBSET Event, IsFiniteSet(E)
  PROVE  Ratios(f, E) \in Nat
<1> DEFINE S == Recorded(f)
<1>1. /\ S \subseteq Day /\ IsFiniteSet(S) /\ \A T \in SUBSET S : IsFiniteSet(T)
      /\ \A d \in S : f[d].count \in Nat /\ f[d].count > 0 /\ f[d].total \in Nat
  <2>1. S \subseteq Day
    BY DEF Recorded
  <2>2. IsFiniteSet(S)
    BY <2>1, FS_Subset, InsightsAssumption
  <2>3. \A T \in SUBSET S : IsFiniteSet(T)
    BY <2>2, FS_Subset
  <2>4. QED
    BY <2>1, <2>2, <2>3 DEF Recorded
<1>2. Averages(f) \in Nat
  <2>1. ASSUME NEW d \in S PROVE Average(f, d) \in Nat
    <3> DEFINE D == Denominator(f)
               q == D \div f[d].count
    <3>1. D \in Nat
      BY DenominatorPositive
    <3>2. f[d].count \in Nat /\ f[d].count > 0 /\ f[d].total \in Nat
      BY <1>1
    <3> HIDE DEF D
    <3>3. q \in Nat
      BY <3>1, <3>2, Division
    <3>4. Average(f, d) = f[d].total * q
      BY DEF Average, D
    <3> HIDE DEF q
    <3>5. \A a, b \in Nat : a * b \in Nat
      OBVIOUS
    <3>6. QED
      BY <3>2, <3>3, <3>4, <3>5
  <2>2. [d \in S |-> Average(f, d)] \in [S -> Nat]
    BY <2>1
  <2>3. SumFunction([d \in S |-> Average(f, d)]) \in Nat
    BY <1>1, <2>2, SumOfNats
  <2>4. QED
    BY <2>3 DEF Averages
<1>3. AverageWon(f) \in Nat
  <2>1. CASE S = {}
    BY <2>1 DEF AverageWon
  <2>2. CASE S # {}
    <3> DEFINE c == Cardinality(S)
               D == Denominator(f)
               n == 1000 * Averages(f)
    <3>1. c \in Nat /\ c > 0 /\ D \in Nat /\ D > 0 /\ n \in Nat
      BY <1>1, <1>2, <2>2, FS_CardinalityType, FS_EmptySet, DenominatorPositive
    <3>2. AverageWon(f) = HalfEven(n, c * D)
      BY <2>2 DEF AverageWon
    <3> HIDE DEF c, D, n
    <3>3. c * D \in Nat /\ c * D > 0
      BY <3>1
    <3>4. HalfEven(n, c * D) \in Nat
      BY <3>1, <3>3, HalfEvenNearest
    <3>5. QED
      BY <3>2, <3>4
  <2>3. QED
    BY <2>1, <2>2
<1>4. ASSUME NEW e \in E PROVE EventRatio(f, e) \in Nat
  <2> DEFINE covered == e.days \intersect S
             count == SumFunction([d \in covered |-> f[d].count])
             sum == SumFunction([d \in covered |-> f[d].total])
             won == AverageWon(f)
  <2>1. count \in Nat /\ sum \in Nat
    <3>1. covered \in SUBSET S
      OBVIOUS
    <3>2. /\ IsFiniteSet(covered)
          /\ [d \in covered |-> f[d].count] \in [covered -> Nat]
          /\ [d \in covered |-> f[d].total] \in [covered -> Nat]
      BY <1>1, <3>1
    <3> HIDE DEF covered
    <3>3. QED
      BY <3>2, SumOfNats
  <2>2. EventRatio(f, e) = IF won = 0 THEN 100 ELSE IF count = 0 THEN 0
                           ELSE HalfEven(100000 * sum, count * won)
    BY DEF EventRatio
  <2>3. won \in Nat
    BY <1>3
  <2> HIDE DEF count, sum, won
  <2>4. CASE won = 0 \/ count = 0
    BY <2>2, <2>4
  <2>5. CASE won # 0 /\ count # 0
    <3>1. count * won \in Nat /\ count * won > 0 /\ 100000 * sum \in Nat
      BY <2>1, <2>3, <2>5
    <3>2. HalfEven(100000 * sum, count * won) \in Nat
      BY <3>1, HalfEvenNearest
    <3>3. QED
      BY <2>2, <2>5, <3>2
  <2>6. QED
    BY <2>4, <2>5
<1>5. [e \in E |-> EventRatio(f, e)] \in [E -> Nat]
  BY <1>4
<1>6. SumFunction([e \in E |-> EventRatio(f, e)]) \in Nat
  BY <1>5, SumOfNats
<1>7. QED
  BY <1>6 DEF Ratios

LEMMA BadgesMatch ==
  ASSUME IInv
  PROVE  BadgesMatchScores
<1> SUFFICES ASSUME NEW counted \in BOOLEAN, IsActive(counted)
             PROVE  LET badges == ShownBadges(counted)
                        safety == Safety(log["HIGH"], log["MEDIUM"], Listed)
                        unseen == IF Listed THEN 10 ELSE 0
                    IN /\ "limitsKept" \in badges <=> DailyLimit(days) = 30
                       /\ "regular" \in badges <=> Regularity(days) = 10
                       /\ "noSuspicion" \in badges <=> safety = 40 - unseen
                       /\ "safetyA" \in badges <=> safety >= 36 - unseen
                       /\ ("cafe" \in badges /\ Exams(events) = events) => Events(days, events) <= 10
  BY DEF BadgesMatchScores
<1> DEFINE badges == ShownBadges(counted)
           high == log["HIGH"]
           medium == log["MEDIUM"]
           safety == Safety(high, medium, Listed)
           unseen == IF Listed THEN 10 ELSE 0
           grade == Grade(SafetyPercent(SafetyPoints(high, medium)))
           varied == VariationAtMost(days, 5)
<1>1. /\ "limitsKept" \in badges <=> Recorded(days) # {} /\ ComplianceRate(days) >= 9000
      /\ "regular" \in badges <=> HasVariation(days) /\ varied
      /\ "noSuspicion" \in badges <=> high = 0 /\ medium = 0
      /\ "safetyA" \in badges <=> grade = "A"
      /\ "cafe" \in badges <=> /\ Exams(events) # {}
                               /\ Ratios(days, Exams(events)) >= 200 * Cardinality(Exams(events))
  BY DEF ShownBadges, Badges
<1> HIDE DEF badges, grade, varied
<1>2. "limitsKept" \in badges <=> DailyLimit(days) = 30
  <2>1. DailyLimit(days) = 30 <=> (Recorded(days) # {} /\ ComplianceRate(days) >= 9000)
    BY DEF DailyLimit
  <2>2. QED
    BY <1>1, <2>1
<1>3. "regular" \in badges <=> Regularity(days) = 10
  <2>1. Regularity(days) = 10 <=> HasVariation(days) /\ varied
    BY DEF Regularity, varied
  <2>2. QED
    BY <1>1, <2>1
<1>4. /\ "noSuspicion" \in badges <=> safety = 40 - unseen
      /\ "safetyA" \in badges <=> safety >= 36 - unseen
  <2>1. high \in Nat /\ medium \in Nat /\ Listed \in BOOLEAN
    BY DEF IInv, RowsOK, Levels, Listed
  <2>2. PICK p \in Nat : p = SafetyPoints(high, medium) /\ p <= 40
    BY <2>1 DEF SafetyPoints, MaxOf
  <2>3. p = 40 <=> high = 0 /\ medium = 0
    BY <2>1, <2>2 DEF SafetyPoints, MaxOf
  <2>4. grade = "A" <=> p >= 36
    <3>1. grade = Grade(SafetyPercent(p)) /\ SafetyPercent(p) \in Nat
      BY <2>2, SafetyPercentBounds DEF grade
    <3>2. grade = "A" <=> SafetyPercent(p) >= 90
      BY <3>1 DEF Grade
    <3>3. QED
      BY <2>2, <3>2, SafetyPercentBounds
  <2>5. safety = MaxOf(0, p - unseen) /\ unseen \in {0, 10}
    BY <2>2 DEF Safety
  <2> HIDE DEF safety, unseen
  <2>6. QED
    BY <1>1, <2>2, <2>3, <2>4, <2>5 DEF MaxOf
<1>5. ASSUME "cafe" \in badges, Exams(events) = events PROVE Events(days, events) <= 10
  <2>1. Ratios(days, events) >= 200 * Cardinality(events) /\ events # {}
    BY <1>1, <1>5
  <2>2. Cardinality(events) \in Nat /\ Cardinality(events) # 0
    <3>1. IsFiniteSet(events)
      BY DEF IInv
    <3>2. QED
      BY <2>1, <3>1, FS_CardinalityType, FS_EmptySet
  <2>3. Ratios(days, events) \in Nat
    BY RatiosAreNumbers DEF IInv, RowsOK
  <2>4. ~ RatioAtMost(days, events, 120) /\ ~ RatioAtMost(days, events, 150)
    BY <2>1, <2>2, <2>3 DEF RatioAtMost
  <2>5. QED
    BY <2>1, <2>4 DEF Events
<1>6. QED
  BY <1>2, <1>3, <1>4, <1>5 DEF badges

(* Badges and scores say the same of the same borders; only what being     *)
(* listed costs, ten points, is not seen by the badges of safety.          *)
THEOREM BadgesMatchScoresHolds == Spec => []BadgesMatchScores
<1>1. IInv => BadgesMatchScores
  BY BadgesMatch
<1>2. QED
  BY <1>1, InvariantHolds, PTL

--------------------------------------------------------------------------------
(* Asking again.                                                           *)

LEMMA AskAgain ==
  ASSUME RowsOK, NEW d \in Recorded(days), NEW limit \in Limit, Calculate(d, limit)
  PROVE  /\ Recorded(days') = Recorded(days)
         /\ Compliant(days) \subseteq Compliant(days')
         /\ ComplianceRate(days') >= ComplianceRate(days)
         /\ DailyLimit(days') >= DailyLimit(days)
<1>1. /\ days \in [Day -> [count : Nat, total : Nat]] /\ limit \in Nat
      /\ days' = [days EXCEPT ![d] = [count |-> @.count + 1, total |-> @.total + limit]]
  BY InsightsAssumption DEF RowsOK, Calculate
<1>2. /\ days' \in [Day -> [count : Nat, total : Nat]]
      /\ \A e \in Day : days'[e].count > 0 <=> days[e].count > 0
      /\ \A e \in Day : days[e].total > 0 => days'[e].total > 0
  BY <1>1 DEF Recorded
<1>3. Recorded(days') = Recorded(days) /\ Compliant(days) \subseteq Compliant(days')
  BY <1>1, <1>2 DEF Recorded, Compliant
<1>4. /\ IsFiniteSet(Recorded(days)) /\ Compliant(days') \subseteq Recorded(days)
      /\ Cardinality(Recorded(days)) \in Nat /\ Cardinality(Recorded(days)) > 0
      /\ Cardinality(Compliant(days)) \in Nat /\ Cardinality(Compliant(days')) \in Nat
      /\ ComplianceRate(days) \in Nat /\ ComplianceRate(days') \in Nat
  BY <1>1, <1>2, <1>3, RateIsNumber
<1>5. Cardinality(Compliant(days)) <= Cardinality(Compliant(days'))
  BY <1>3, <1>4, FS_Subset
<1>6. ComplianceRate(days') >= ComplianceRate(days)
  BY <1>3, <1>4, <1>5, QuantizedShare DEF ComplianceRate
<1>7. DailyLimit(days') >= DailyLimit(days)
  BY <1>3, <1>4, <1>6 DEF DailyLimit
<1>8. QED
  BY <1>3, <1>6, <1>7

(* Asking again for a day's limit never costs points.                      *)
THEOREM AskAgainHarmlessHolds == Spec => AskAgainHarmless
<1>1. IInv /\ [Next]_vars =>
        [AskedAgain =>
           /\ Recorded(days') = Recorded(days)
           /\ Compliant(days) \subseteq Compliant(days')
           /\ ComplianceRate(days') >= ComplianceRate(days)
           /\ DailyLimit(days') >= DailyLimit(days)]_vars
  <2> SUFFICES ASSUME IInv, [Next]_vars, AskedAgain
               PROVE  /\ Recorded(days') = Recorded(days)
                      /\ Compliant(days) \subseteq Compliant(days')
                      /\ ComplianceRate(days') >= ComplianceRate(days)
                      /\ DailyLimit(days') >= DailyLimit(days)
    OBVIOUS
  <2>1. PICK d \in Recorded(days) : days'[d].count > days[d].count
    BY DEF AskedAgain
  <2>2. days \in [Day -> [count : Nat, total : Nat]] /\ d \in Day
    BY DEF IInv, RowsOK, Recorded
  <2>3. days' # days
    BY <2>1, <2>2
  <2>4. PICK e \in Day, limit \in Limit : Calculate(e, limit)
    BY <2>3 DEF Next, vars, semester, Plan, Detect, StoreMonthly, StoreCategories, ViewRecap,
                RegisterBlacklist, BeginRelease, CommitRelease
  <2>5. e = d
    BY <2>1, <2>2, <2>4 DEF Calculate
  <2>6. QED
    BY <2>4, <2>5, AskAgain DEF IInv
<1>2. QED
  BY <1>1, InvariantHolds, PTL DEF Spec, AskAgainHarmless

--------------------------------------------------------------------------------
(* The recap.                                                              *)

LEMMA AmountsAreNumbers ==
  ASSUME RowsOK
  PROVE  Amounts \in [Rows -> Nat]
<1>1. \A k \in Rows : categories[k].amount \in Nat
  BY DEF RowsOK, Rows
<1>2. QED
  BY <1>1 DEF Amounts

(* What rounding to ten-thousandths leaves of a share.                     *)
LEMMA ShareNearest ==
  ASSUME NEW a \in Nat, NEW spent \in Nat, spent > 0
  PROVE  /\ Quantized(a, spent) \in Nat
         /\ 2 * (10000 * a) - spent <= 2 * (spent * Quantized(a, spent))
         /\ 2 * (spent * Quantized(a, spent)) <= 2 * (10000 * a) + spent
<1> DEFINE n == 10000 * a
<1>1. n \in Nat /\ Quantized(a, spent) = HalfEven(n, spent)
  BY QuantizedIsHalfEven
<1> HIDE DEF n
<1>2. /\ HalfEven(n, spent) \in Nat
      /\ 2 * n - spent <= 2 * (spent * HalfEven(n, spent))
      /\ 2 * (spent * HalfEven(n, spent)) <= 2 * n + spent
  BY <1>1, HalfEvenNearest
<1>3. QED
  BY <1>1, <1>2 DEF n

(* A share below, or from, three tenths as it is shown.                    *)
LEMMA ShareOfThird ==
  ASSUME NEW a \in Nat, NEW spent \in Nat, spent > 0
  PROVE  /\ Quantized(a, spent) < 3000 => 20000 * a <= 5999 * spent
         /\ Quantized(a, spent) >= 3000 => 20000 * a >= 5999 * spent
<1> DEFINE q == Quantized(a, spent)
<1>1. q \in Nat /\ 2 * (10000 * a) - spent <= 2 * (spent * q) /\ 2 * (spent * q) <= 2 * (10000 * a) + spent
  BY ShareNearest
<1> HIDE DEF q
<1>2. ASSUME q < 3000 PROVE 20000 * a <= 5999 * spent
  <2>1. spent * q + spent <= spent * 3000 /\ spent * q \in Nat
    BY <1>1, <1>2, OneMore
  <2>2. QED
    BY <1>1, <2>1
<1>3. ASSUME q >= 3000 PROVE 20000 * a >= 5999 * spent
  <2>1. 3000 * spent <= q * spent
    <3>1. q - 3000 \in Nat /\ (q - 3000) * spent \in Nat /\ q * spent = 3000 * spent + (q - 3000) * spent
      BY <1>1, <1>3
    <3>2. QED
      BY <3>1
  <2>2. q * spent = spent * q /\ spent * q \in Nat
    BY <1>1
  <2>3. QED
    BY <1>1, <2>1, <2>2
<1>4. QED
  BY <1>2, <1>3 DEF q

(* An unclassified share shown as 30 % is 30.5 % at most.                  *)
LEMMA UnclassifiedBounded ==
  ASSUME RowsOK, monthly # None, monthly.amount > 0,
         UnclassifiedShare(Amounts, monthly.amount) <= 30
  PROVE  1000 * Sum(Amounts, Unclassified) <= 305 * monthly.amount
<1> DEFINE spent == monthly.amount
           sum == Sum(Amounts, Unclassified)
           n == 100 * sum
           h == HalfEven(n, spent)
<1>1. spent \in Nat /\ spent > 0
  BY DEF RowsOK
<1>2. sum \in Nat
  <2> DEFINE S == Unclassified \intersect Rows
  <2>1. DOMAIN Amounts = Rows /\ \A k \in S : Amounts[k] \in Nat
    BY AmountsAreNumbers
  <2>2. IsFiniteSet(S)
    <3>1. IsFiniteSet(Unclassified)
      <4>1. Unclassified = ({"UNCLASSIFIED"} \union {"ETC"}) \union {""}
        BY DEF Unclassified
      <4>2. QED
        BY <4>1, FS_Singleton, FS_AddElement
    <3>2. QED
      BY <3>1, FS_Intersection
  <2> HIDE DEF S
  <2>3. SumFunctionOnSet(Amounts, S) \in Nat
    BY <2>1, <2>2, SumIsNat
  <2>4. QED
    BY <2>1, <2>3 DEF Sum, S
<1>3. h <= 30
  BY <1>1 DEF UnclassifiedShare
<1> HIDE DEF spent, sum
<1>4. n \in Nat
  BY <1>2
<1> HIDE DEF n
<1>5. h \in Nat /\ 2 * n - spent <= 2 * (spent * h)
  BY <1>1, <1>4, HalfEvenNearest
<1> HIDE DEF h
<1>6. spent * h <= 30 * spent
  <2>1. 30 - h \in Nat /\ (30 - h) * spent \in Nat /\ 30 * spent = spent * h + (30 - h) * spent
    BY <1>1, <1>3, <1>5
  <2>2. spent * h \in Nat
    BY <1>1, <1>5
  <2>3. QED
    BY <2>1, <2>2
<1>7. spent * h \in Nat
  BY <1>1, <1>5
<1>8. 1000 * sum <= 305 * spent
  BY <1>1, <1>2, <1>4, <1>5, <1>6, <1>7 DEF n
<1>9. QED
  BY <1>8 DEF sum, spent

(* Settled or not, a nickname is told only to who has enough transactions  *)
(* and known spending, and names a category that nothing exceeds; balanced *)
(* is a month in which nothing stands out. The limits are documented as    *)
(* 30 % (README.md 514-517). The code rounds first (recap_service.py 288,  *)
(* 345): what a user is told may rest on 30.5 % unclassified, and what     *)
(* stands out is 29.995 % and more.                                        *)
NicknameFitsRoundedMonth ==
  monthly # None => \A name \in ShownNicknames \ {NoNickname} :
    /\ inMonth >= MinTx
    /\ 1000 * Sum(Amounts, Unclassified) <= 305 * monthly.amount
    /\ IF name = Balanced
         THEN \A k \in Rows : 20000 * Amounts[k] <= 5999 * monthly.amount
         ELSE /\ name \in Rows \ Unclassified
              /\ \A k \in Rows : Amounts[k] <= Amounts[name]
              /\ 20000 * Amounts[name] >= 5999 * monthly.amount

LEMMA NicknameFits ==
  ASSUME RowsOK
  PROVE  NicknameFitsRoundedMonth
<1> SUFFICES ASSUME monthly # None, NEW name \in ShownNicknames \ {NoNickname}
    PROVE  /\ inMonth >= MinTx
           /\ 1000 * Sum(Amounts, Unclassified) <= 305 * monthly.amount
           /\ IF name = Balanced
                THEN \A k \in Rows : 20000 * Amounts[k] <= 5999 * monthly.amount
                ELSE /\ name \in Rows \ Unclassified
                     /\ \A k \in Rows : Amounts[k] <= Amounts[name]
                     /\ 20000 * Amounts[name] >= 5999 * monthly.amount
  BY DEF NicknameFitsRoundedMonth
<1> DEFINE spent == monthly.amount
<1>1. Amounts \in [Rows -> Nat] /\ spent \in Nat
  BY AmountsAreNumbers DEF RowsOK
<1>2. IsReliable(Amounts, spent, inMonth, MinTx)
  BY DEF ShownNicknames, Nicknames
<1>3. PICK top \in Rows : /\ IsTop(Amounts, top)
                          /\ name = IF Share(Amounts, spent, top) < 3000 THEN Balanced
                                    ELSE IF top \in Nicknamed THEN top ELSE NoNickname
  <2>1. DOMAIN Amounts = Rows
    BY <1>1
  <2>2. QED
    BY <1>2, <2>1 DEF ShownNicknames, Nicknames
<1>4. spent > 0 /\ inMonth >= MinTx /\ UnclassifiedShare(Amounts, spent) <= 30
  BY <1>2 DEF IsReliable
<1>5. 1000 * Sum(Amounts, Unclassified) <= 305 * monthly.amount
  BY <1>4, UnclassifiedBounded
<1>6. \A k \in Rows : Amounts[k] <= Amounts[top] /\ Amounts[k] \in Nat
  BY <1>1, <1>3 DEF IsTop
<1>7. Share(Amounts, spent, top) = Quantized(Amounts[top], spent)
  BY <1>4 DEF Share
<1>8. /\ Share(Amounts, spent, top) < 3000 => 20000 * Amounts[top] <= 5999 * spent
      /\ Share(Amounts, spent, top) >= 3000 => 20000 * Amounts[top] >= 5999 * spent
      /\ Share(Amounts, spent, top) \in Nat
  <2>1. Amounts[top] \in Nat
    BY <1>6
  <2>2. /\ Quantized(Amounts[top], spent) < 3000 => 20000 * Amounts[top] <= 5999 * spent
        /\ Quantized(Amounts[top], spent) >= 3000 => 20000 * Amounts[top] >= 5999 * spent
    BY <1>1, <1>4, <2>1, ShareOfThird
  <2>3. Quantized(Amounts[top], spent) \in Nat
    BY <1>1, <1>4, <2>1, QuantizedShare
  <2>4. QED
    BY <1>7, <2>2, <2>3
<1>9. CASE Share(Amounts, spent, top) < 3000
  <2>1. name = Balanced
    BY <1>3, <1>9
  <2>2. \A k \in Rows : 20000 * Amounts[k] <= 5999 * spent
    BY <1>1, <1>6, <1>8, <1>9
  <2>3. QED
    BY <1>4, <1>5, <2>1, <2>2
<1>10. CASE ~ Share(Amounts, spent, top) < 3000
  <2>1. name = top /\ top \in Nicknamed
    BY <1>3, <1>10
  <2>2. name # Balanced /\ top \notin Unclassified
    BY <2>1 DEF Nicknamed, Unclassified, Balanced
  <2>3. 20000 * Amounts[top] >= 5999 * spent
    BY <1>8, <1>10
  <2>4. QED
    BY <1>4, <1>5, <1>6, <2>1, <2>2, <2>3
<1>11. QED
  BY <1>9, <1>10

(* A nickname is told only within what rounding leaves of its limits,      *)
(* whichever topic came first.                                             *)
THEOREM NicknameFitsRoundedMonthHolds == Spec => []NicknameFitsRoundedMonth
<1>1. IInv => NicknameFitsRoundedMonth
  BY NicknameFits DEF IInv
<1>2. QED
  BY <1>1, InvariantHolds, PTL

(* The documented limit itself does not hold (README.md 514-517): a month  *)
(* with 30.4 % unclassified gets a nickname.                               *)
THEOREM NicknameBeyondLimit ==
  \E amounts : /\ 100 * Sum(amounts, Unclassified) > 30 * 23
               /\ "FOOD" \in Nicknames(amounts, 23, 10, 10)
<1> DEFINE amounts == [k \in {"FOOD", "CAFE", "ETC"} |-> IF k = "ETC" THEN 7 ELSE 8]
<1>1. Sum(amounts, Unclassified) = 7
  <2>1. Unclassified \intersect DOMAIN amounts = {"ETC"}
    BY DEF Unclassified
  <2>2. \A x \in {"ETC"} : amounts[x] \in Int
    OBVIOUS
  <2>3. amounts["ETC"] = 7 /\ {"ETC"} \ {"ETC"} = {}
    OBVIOUS
  <2> HIDE DEF amounts
  <2>4. SumFunctionOnSet(amounts, {"ETC"}) = amounts["ETC"] + SumFunctionOnSet(amounts, {"ETC"} \ {"ETC"})
    BY <2>2, FS_Singleton, SumAdd
  <2>5. SumFunctionOnSet(amounts, {"ETC"}) = 7
    BY <2>3, <2>4, SumEmpty
  <2>6. QED
    BY <2>1, <2>5 DEF Sum
<1>2. IsTop(amounts, "FOOD") /\ "FOOD" \in DOMAIN amounts
  BY DEF IsTop
<1>3. amounts["FOOD"] = 8 /\ DOMAIN amounts # {}
  OBVIOUS
<1> HIDE DEF amounts
<1>4. UnclassifiedShare(amounts, 23) <= 30
  <2>1. UnclassifiedShare(amounts, 23) = HalfEven(100 * 7, 23)
    BY <1>1 DEF UnclassifiedShare
  <2>2. HalfEven(100 * 7, 23) = 30
    BY DEF HalfEven
  <2>3. QED
    BY <2>1, <2>2
<1>5. IsReliable(amounts, 23, 10, 10)
  BY <1>3, <1>4 DEF IsReliable
<1>6. ~ Share(amounts, 23, "FOOD") < 3000
  <2>1. Share(amounts, 23, "FOOD") = Quantized(8, 23)
    BY <1>3 DEF Share
  <2>2. Quantized(8, 23) = HalfEven(10000 * 8, 23)
    BY QuantizedIsHalfEven
  <2>3. HalfEven(10000 * 8, 23) >= 3478 /\ HalfEven(10000 * 8, 23) \in Nat
    BY DEF HalfEven
  <2>4. QED
    BY <2>1, <2>2, <2>3
<1>7. "FOOD" \in Nicknames(amounts, 23, 10, 10)
  BY <1>2, <1>5, <1>6 DEF Nicknames, Nicknamed
<1>8. QED
  BY <1>1, <1>7

(* Settled rows add up to the month, since they are what Asset said.       *)
LEMMA SettledRows ==
  ASSUME IInv, Settled
  PROVE  /\ IsFiniteSet(Rows) /\ Amounts \in [Rows -> Nat] /\ DOMAIN Amounts = Rows
         /\ monthly.amount = SumFunctionOnSet(Amounts, Rows)
<1>1. monthly.rev \in Rev /\ Rows = DOMAIN Published[monthly.rev] /\ monthly.amount = Spent[monthly.rev]
  BY DEF Settled, IInv, RowsOK, RowsAsPublished
<1>2. \A k \in Rows : Amounts[k] = Published[monthly.rev][k]
  BY DEF Amounts, Settled, IInv, RowsAsPublished
<1>3. Amounts \in [Rows -> Nat]
  BY AmountsAreNumbers DEF IInv
<1>4. Published[monthly.rev] \in [Rows -> Nat]
  BY <1>1, InsightsAssumption
<1>5. Amounts = Published[monthly.rev]
  BY <1>2, <1>3, <1>4
<1>6. Spent[monthly.rev] = Sum(Published[monthly.rev], DOMAIN Published[monthly.rev])
  BY <1>1, InsightsAssumption
<1>7. IsFiniteSet(Rows)
  BY <1>1, InsightsAssumption
<1>8. Sum(Amounts, Rows) = SumFunctionOnSet(Amounts, Rows)
  <2>1. Rows \intersect DOMAIN Amounts = Rows
    BY <1>3
  <2>2. QED
    BY <2>1 DEF Sum
<1>9. QED
  BY <1>1, <1>3, <1>5, <1>6, <1>7, <1>8

(* q is a of spent in ten-thousandths, to the nearest one.                 *)
IsNear(q, a, spent) ==
  /\ 2 * (10000 * a) - spent <= 2 * (spent * q)
  /\ 2 * (spent * q) <= 2 * (10000 * a) + spent

LEMMA ShareIsNear ==
  ASSUME NEW a \in Nat, NEW spent \in Nat, spent > 0
  PROVE  Quantized(a, spent) \in Nat /\ IsNear(Quantized(a, spent), a, spent)
BY ShareNearest DEF IsNear

(* For any amounts that add up to what was spent: the shares make a whole. *)
LEMMA SharesAddUp ==
  ASSUME NEW S, IsFiniteSet(S), NEW amounts \in [S -> Nat],
         NEW spent \in Nat, spent > 0, spent = SumFunctionOnSet(amounts, S)
  PROVE  2 * Distance(SumFunction([k \in S |-> Share(amounts, spent, k)]), 10000) <= Cardinality(S)
<1>0. \A a \in Nat : Quantized(a, spent) \in Nat /\ IsNear(Quantized(a, spent), a, spent)
  BY ShareIsNear, Zenon
<1> DEFINE share == [k \in S |-> Share(amounts, spent, k)]
           sum == SumFunctionOnSet(share, S)
           n == Cardinality(S)
<1>1. n \in Nat
  BY FS_CardinalityType
<1>2. \A k \in S : amounts[k] \in Nat /\ share[k] \in Nat /\ IsNear(share[k], amounts[k], spent)
  BY <1>0 DEF Share
<1> HIDE DEF share
<1>3. sum \in Nat
  BY <1>2, SumIsNat
<1>4. AreRounded(share, amounts, 10000, spent, S)
  BY <1>2 DEF AreRounded, IsNear
<1>5. /\ 2 * (10000 * spent) - n * spent <= 2 * (spent * sum)
      /\ 2 * (spent * sum) <= 2 * (10000 * spent) + n * spent
  <2>1. PICK c \in Nat : c = 10000
    OBVIOUS
  <2>2. AreRounded(share, amounts, c, spent, S)
    BY <1>4, <2>1
  <2>3. \A k \in S : amounts[k] \in Nat
    BY <1>2
  <2>4. \A k \in S : share[k] \in Nat
    BY <1>2
  <2>5. /\ 2 * (c * SumFunctionOnSet(amounts, S)) - Cardinality(S) * spent <= 2 * (spent * SumFunctionOnSet(share, S))
        /\ 2 * (spent * SumFunctionOnSet(share, S)) <= 2 * (c * SumFunctionOnSet(amounts, S)) + Cardinality(S) * spent
    BY <2>2, <2>3, <2>4, SumOfRounded
  <2>6. QED
    BY <2>1, <2>5
<1> HIDE DEF sum, n
<1>6. 2 * sum <= 20000 + n
  <2> SUFFICES ASSUME 20000 + n < 2 * sum PROVE FALSE
    BY <1>1, <1>3
  <2>1. spent * (20000 + n) + spent <= spent * (2 * sum)
    BY <1>1, <1>3, OneMore
  <2>2. /\ spent * (20000 + n) = 2 * (10000 * spent) + n * spent
        /\ spent * (2 * sum) = 2 * (spent * sum)
        /\ n * spent \in Nat /\ spent * sum \in Nat
    BY <1>1, <1>3
  <2>3. QED
    BY <1>5, <2>1, <2>2
<1>7. 20000 <= 2 * sum + n
  <2> SUFFICES ASSUME 2 * sum + n < 20000 PROVE FALSE
    BY <1>1, <1>3
  <2>1. PICK c \in Nat : c = 20000
    OBVIOUS
  <2>2. spent * (2 * sum + n) + spent <= spent * c
    BY <1>1, <1>3, <2>1, OneMore
  <2>3. /\ spent * (2 * sum + n) = 2 * (spent * sum) + n * spent
        /\ spent * c = 2 * (10000 * spent)
        /\ n * spent \in Nat /\ spent * sum \in Nat
    BY <1>1, <1>3, <2>1
  <2>4. QED
    BY <1>5, <2>2, <2>3
<1>8. 2 * Distance(sum, 10000) <= n
  BY <1>1, <1>3, <1>6, <1>7 DEF Distance, MaxOf
<1>9. SumFunction(share) = sum
  BY DEF SumFunction, sum, share
<1>10. QED
  BY <1>8, <1>9 DEF share, n

(* What is not classified is a part of what was spent, and so is the rest. *)
LEMMA UnclassifiedIsPart ==
  ASSUME NEW S, IsFiniteSet(S), NEW amounts \in [S -> Nat],
         NEW spent \in Nat, spent = SumFunctionOnSet(amounts, S)
  PROVE  Sum(amounts, Unclassified) \in 0..spent
<1> DEFINE R == Unclassified \intersect S
<1>1. R \in SUBSET S /\ DOMAIN amounts = S /\ \A k \in S : amounts[k] \in Nat
  OBVIOUS
<1> HIDE DEF R
<1>2. SumFunctionOnSet(amounts, R) \in 0..SumFunctionOnSet(amounts, S)
  BY <1>1, PartIsLess, Zenon
<1>3. Sum(amounts, Unclassified) = SumFunctionOnSet(amounts, R)
  BY <1>1 DEF Sum, R
<1>4. QED
  BY <1>2, <1>3

LEMMA ShareOfPart ==
  ASSUME NEW u \in Nat, NEW spent \in Nat, spent > 0, u <= spent
  PROVE  HalfEven(100 * u, spent) \in 0..100
<1>1. PICK k \in Nat : k = 100
  OBVIOUS
<1> DEFINE n == 100 * u
<1>2. n \in Nat /\ n <= spent * k
  BY <1>1
<1> HIDE DEF n
<1>3. HalfEven(n, spent) \in Nat /\ HalfEven(n, spent) <= k
  BY <1>2, HalfEvenNearest, HalfEvenBounds
<1>4. QED
  BY <1>1, <1>3 DEF n

(* The classified transactions are some of the transactions.               *)
LEMMA ClassifiedOfAll ==
  ASSUME NEW amounts, NEW spent \in Nat, spent > 0,
         Sum(amounts, Unclassified) \in 0..spent, NEW tx \in Nat
  PROVE  ClassifiedTx(amounts, spent, tx) \subseteq 0..tx
<1> DEFINE classified == spent - Sum(amounts, Unclassified)
           n == tx * classified
           whole == n \div spent
<1>0. ClassifiedTx(amounts, spent, tx) =
        IF spent <= 0 THEN {0}
        ELSE IF classified > 0 /\ Truncated(n, spent) > 0 /\ n % spent = 0
          THEN {Truncated(n, spent) - 1, Truncated(n, spent)}
        ELSE {Truncated(n, spent)}
  BY DEF ClassifiedTx
<1>1. classified \in Nat /\ classified <= spent
  OBVIOUS
<1> HIDE DEF classified
<1>2. n \in Nat /\ n <= tx * spent
  <2>1. spent - classified \in Nat /\ tx * (spent - classified) \in Nat
    BY <1>1
  <2>2. tx * spent = tx * classified + tx * (spent - classified)
    BY <1>1
  <2>3. tx * classified \in Nat
    BY <1>1
  <2>4. QED
    BY <2>1, <2>2, <2>3
<1> HIDE DEF n
<1>3. whole \in Nat /\ spent * whole <= n
  BY <1>2, Division
<1> HIDE DEF whole
<1>4. whole <= tx
  <2> SUFFICES ASSUME tx < whole PROVE FALSE
    BY <1>3
  <2>1. spent * tx + spent <= spent * whole /\ spent * tx \in Nat /\ spent * tx = tx * spent
    BY <1>3, OneMore
  <2>2. QED
    BY <1>2, <1>3, <2>1
<1>5. Truncated(n, spent) = whole
  BY <1>2 DEF Truncated, whole
<1>6. ClassifiedTx(amounts, spent, tx) \subseteq {whole - 1, whole}
      /\ (~ whole > 0 => ClassifiedTx(amounts, spent, tx) \subseteq {whole})
  BY <1>0, <1>5
<1>7. QED
  BY <1>3, <1>4, <1>6

(* What is not among the three largest is a quarter of the whole at most.  *)
LEMMA FourthIsQuarter ==
  ASSUME NEW S, IsFiniteSet(S), NEW amounts \in [S -> Nat],
         NEW spent \in Nat, spent = SumFunctionOnSet(amounts, S),
         NEW top \in FirstThree(amounts), NEW k \in S \ top
  PROVE  4 * amounts[k] <= spent
<1> DEFINE F == SumFunctionOnSet(amounts, top)
<1>1. /\ top \in SUBSET S /\ DOMAIN amounts = S /\ amounts[k] \in Nat
      /\ \A x \in S : amounts[x] \in Nat
      /\ \A x \in top : amounts[k] <= amounts[x]
      /\ Cardinality(top) = MinOf(3, Cardinality(S))
  BY DEF FirstThree
<1>2. IsFiniteSet(top) /\ Cardinality(top) < Cardinality(S)
  <2>1. top # S
    OBVIOUS
  <2>2. IsFiniteSet(top) /\ Cardinality(top) <= Cardinality(S) /\ Cardinality(top) # Cardinality(S)
    BY <1>1, <2>1, FS_Subset
  <2>3. Cardinality(top) \in Nat /\ Cardinality(S) \in Nat
    BY <2>2, FS_CardinalityType
  <2>4. QED
    BY <2>2, <2>3
<1>3. Cardinality(top) = 3
  BY <1>1, <1>2, FS_CardinalityType DEF MinOf
<1>4. 3 * amounts[k] <= F /\ F \in Nat
  <2>1. \A x \in top : amounts[x] \in Nat
    BY <1>1
  <2>2. PICK least \in Nat : least = amounts[k]
    BY <1>1
  <2>3. Cardinality(top) * least <= SumFunctionOnSet(amounts, top)
    BY <1>1, <1>2, <2>1, <2>2, SumAtLeast
  <2>4. SumFunctionOnSet(amounts, top) \in Nat
    BY <1>2, <2>1, SumIsNat
  <2>5. QED
    BY <1>3, <2>2, <2>3, <2>4
<1> DEFINE U == top \union {k}
<1>5. U \in SUBSET S
  BY <1>1
<1>6. SumFunctionOnSet(amounts, U) = amounts[k] + F
  <2>1. \A y \in S : amounts[y] \in Int
    BY <1>1
  <2>2. SumFunctionOnSet(amounts, top \union {k}) = amounts[k] + SumFunctionOnSet(amounts, top)
    BY <1>1, <2>1, SumWith
  <2>3. QED
    BY <2>2
<1> HIDE DEF F, U
<1>7. SumFunctionOnSet(amounts, U) \in 0..SumFunctionOnSet(amounts, S)
  BY <1>1, <1>5, PartIsLess, Zenon
<1>8. QED
  BY <1>1, <1>4, <1>6, <1>7

(* A settled recap adds up, whatever Asset said of the month.              *)
THEOREM SettledRecapAddsUpHolds == Spec => []SettledRecapAddsUp
<1>1. IInv => SettledRecapAddsUp
  <2> SUFFICES ASSUME IInv, Settled, monthly.amount > 0
               PROVE  /\ 2 * Distance(SumFunction([k \in Rows |-> Share(Amounts, monthly.amount, k)]), 10000)
                           <= Cardinality(Rows)
                      /\ UnclassifiedShare(Amounts, monthly.amount) \in 0..100
                      /\ ClassifiedTx(Amounts, monthly.amount, inMonth) \subseteq 0..inMonth
                      /\ \A keep \in MustKeep :
                           ToldAbsent(Amounts, monthly.amount, inMonth, MinTx, keep) =>
                             \A k \in keep \intersect Rows : 4 * Amounts[k] <= monthly.amount
    BY DEF SettledRecapAddsUp
  <2>1. /\ IsFiniteSet(Rows) /\ Amounts \in [Rows -> Nat]
        /\ monthly.amount = SumFunctionOnSet(Amounts, Rows)
    BY SettledRows
  <2>2. monthly.amount \in Nat /\ inMonth \in Nat
    BY DEF IInv, RowsOK, Settled
  <2>3. 2 * Distance(SumFunction([k \in Rows |-> Share(Amounts, monthly.amount, k)]), 10000) <= Cardinality(Rows)
    BY <2>1, <2>2, SharesAddUp
  <2>4. Sum(Amounts, Unclassified) \in 0..monthly.amount
    BY <2>1, <2>2, UnclassifiedIsPart
  <2>5. UnclassifiedShare(Amounts, monthly.amount) \in 0..100
    <3>1. HalfEven(100 * Sum(Amounts, Unclassified), monthly.amount) \in 0..100
      BY <2>2, <2>4, ShareOfPart
    <3>2. QED
      BY <3>1 DEF UnclassifiedShare
  <2>6. ClassifiedTx(Amounts, monthly.amount, inMonth) \subseteq 0..inMonth
    BY <2>2, <2>4, ClassifiedOfAll
  <2>7. ASSUME NEW keep \in MustKeep, ToldAbsent(Amounts, monthly.amount, inMonth, MinTx, keep),
               NEW k \in keep \intersect Rows
        PROVE  4 * Amounts[k] <= monthly.amount
    <3>1. PICK top \in FirstThree(Amounts) : keep \intersect top = {}
      BY <2>7 DEF ToldAbsent
    <3>2. k \in Rows \ top
      BY <3>1
    <3>3. QED
      BY <2>1, <2>2, <3>2, FourthIsQuarter
  <2>8. QED
    BY <2>3, <2>5, <2>6, <2>7
<1>2. QED
  BY <1>1, InvariantHolds, PTL

--------------------------------------------------------------------------------
(* The blacklist.                                                          *)

(* A release alone clears the user, whatever was entered before.           *)
THEOREM ReleaseUnblocksHolds == Spec => ReleaseUnblocks
<1>1. IInv => [(releasing # None /\ releasing.alone /\ CommitRelease) => Check' = "clear"]_vars
  <2> SUFFICES ASSUME IInv, releasing # None, releasing.alone, CommitRelease
               PROVE  Check' = "clear"
    OBVIOUS
  <2>1. releasing.seen = Active
    BY DEF IInv, ReleaseSeesAll
  <2>2. \A b \in Entry : blacklist'[b] # "active"
    BY <2>1 DEF CommitRelease, Active
  <2>3. QED
    BY <2>2 DEF Check, Active
<1>2. QED
  BY <1>1, InvariantHolds, PTL DEF ReleaseUnblocks
================================================================================
