----------------------------- MODULE ScoringProofs -----------------------------
(***************************************************************************)
(* Machine-checked facts about the arithmetic of scores and plans, for all *)
(* numbers: what rounding keeps, that a month begun is counted, and what   *)
(* sums over finite sets are.                                              *)
(***************************************************************************)
EXTENDS Scoring, LifePlan, FiniteSetsExt, FiniteSetTheorems, TLAPS

(* Whole division, as the provers need it.                                 *)
LEMMA Division ==
  ASSUME NEW n \in Nat, NEW d \in Nat, d > 0
  PROVE  /\ n \div d \in Nat /\ n % d \in Nat
         /\ n = d * (n \div d) + (n % d) /\ n % d < d
  OBVIOUS

LEMMA QuotientUnique ==
  ASSUME NEW d \in Nat, d > 0, NEW p \in Nat, NEW q \in Nat, NEW r \in Nat, NEW s \in Nat,
         r < d, s < d, d * p + r = d * q + s
  PROVE  p = q /\ r = s
<1>1. ~ p < q
  <2> SUFFICES ASSUME p < q PROVE FALSE
    OBVIOUS
  <2>1. PICK k \in Nat : q = p + 1 + k
    <3>1. q - p - 1 \in Nat /\ q = p + 1 + (q - p - 1)
      OBVIOUS
    <3>2. QED
      BY <3>1
  <2>2. d * q = d * p + d + d * k /\ d * k \in Nat /\ d * p \in Nat
    BY <2>1
  <2>3. QED
    BY <2>2
<1>2. ~ q < p
  <2> SUFFICES ASSUME q < p PROVE FALSE
    OBVIOUS
  <2>1. PICK k \in Nat : p = q + 1 + k
    <3>1. p - q - 1 \in Nat /\ p = q + 1 + (p - q - 1)
      OBVIOUS
    <3>2. QED
      BY <3>1
  <2>2. d * p = d * q + d + d * k /\ d * k \in Nat /\ d * q \in Nat
    BY <2>1
  <2>3. QED
    BY <2>2
<1>3. p = q
  BY <1>1, <1>2
<1>4. d * p \in Nat
  OBVIOUS
<1>5. QED
  BY <1>3, <1>4

(* Rounding is off by half a unit at most.                                 *)
LEMMA HalfEvenNearest ==
  ASSUME NEW n \in Nat, NEW d \in Nat, d > 0
  PROVE  /\ HalfEven(n, d) \in Nat
         /\ 2 * n - d <= 2 * (d * HalfEven(n, d))
         /\ 2 * (d * HalfEven(n, d)) <= 2 * n + d
<1> DEFINE whole == n \div d
           rest == n % d
           up == 2 * rest > d \/ (2 * rest = d /\ whole % 2 = 1)
<1>1. /\ whole \in Nat /\ rest \in Nat
      /\ n = d * whole + rest /\ rest < d
  BY Division
<1>2. HalfEven(n, d) = IF up THEN whole + 1 ELSE whole
  BY DEF HalfEven
<1>3. up => 2 * rest >= d
  BY <1>1
<1>4. ~ up => 2 * rest <= d
  BY <1>1
<1> HIDE DEF whole, rest, up
<1>5. d * whole \in Nat /\ d * (whole + 1) = d * whole + d
  BY <1>1
<1>6. CASE up
  <2>1. HalfEven(n, d) = whole + 1
    BY <1>2, <1>6
  <2>2. d * HalfEven(n, d) = d * whole + d
    BY <1>5, <2>1
  <2>3. QED
    BY <1>1, <1>3, <1>5, <1>6, <2>1, <2>2
<1>7. CASE ~ up
  <2>1. HalfEven(n, d) = whole
    BY <1>2, <1>7
  <2>2. QED
    BY <1>1, <1>4, <1>5, <1>7, <2>1
<1>8. QED
  BY <1>6, <1>7

(* Multiplying keeps a gap of one.                                         *)
LEMMA OneMore ==
  ASSUME NEW d \in Nat, NEW x \in Nat, NEW y \in Nat, x < y
  PROVE  d * x + d <= d * y /\ d * x \in Nat /\ d * y \in Nat
<1>1. y - x - 1 \in Nat /\ d * (y - x - 1) \in Nat
  OBVIOUS
<1>2. d * y = d * x + d + d * (y - x - 1)
  OBVIOUS
<1>3. d * x \in Nat /\ d * y \in Nat
  OBVIOUS
<1>4. QED
  BY <1>1, <1>2, <1>3

(* A whole number of times that fits is in the quotient.                   *)
LEMMA QuotientAtLeast ==
  ASSUME NEW n \in Nat, NEW d \in Nat, d > 0, NEW k \in Nat, d * k <= n
  PROVE  k <= n \div d
<1> DEFINE q == n \div d
           r == n % d
<1>1. q \in Nat /\ r \in Nat /\ n = d * q + r /\ r < d
  BY Division
<1> HIDE DEF q, r
<1>2. ~ q < k
  <2> SUFFICES ASSUME q < k PROVE FALSE
    OBVIOUS
  <2>1. d * q + d <= d * k /\ d * q \in Nat /\ d * k \in Nat
    BY <1>1, OneMore
  <2>2. QED
    BY <1>1, <2>1
<1>3. k <= q
  BY <1>1, <1>2
<1>4. QED
  BY <1>3 DEF q

(* Rounding keeps the order.                                               *)
LEMMA HalfEvenMonotone ==
  ASSUME NEW n \in Nat, NEW m \in Nat, NEW d \in Nat, d > 0, n <= m
  PROVE  HalfEven(n, d) <= HalfEven(m, d)
<1>1. CASE n = m
  BY <1>1, HalfEvenNearest
<1>2. CASE n < m
  <2> DEFINE low == HalfEven(n, d)
             high == HalfEven(m, d)
  <2>1. low \in Nat /\ 2 * (d * low) <= 2 * n + d
    BY HalfEvenNearest
  <2>2. high \in Nat /\ 2 * m - d <= 2 * (d * high)
    BY HalfEvenNearest
  <2> HIDE DEF low, high
  <2>3. ~ high < low
    <3> SUFFICES ASSUME high < low PROVE FALSE
      OBVIOUS
    <3>1. d * high + d <= d * low /\ d * high \in Nat /\ d * low \in Nat
      BY <2>1, <2>2, OneMore
    <3>2. QED
      BY <1>2, <2>1, <2>2, <3>1
  <2>4. QED
    BY <2>1, <2>2, <2>3 DEF low, high
<1>3. QED
  BY <1>1, <1>2

(* A whole bound survives rounding, from either side.                      *)
LEMMA HalfEvenBounds ==
  ASSUME NEW n \in Nat, NEW d \in Nat, d > 0, NEW k \in Nat
  PROVE  /\ n <= d * k => HalfEven(n, d) <= k
         /\ d * k <= n => k <= HalfEven(n, d)
<1> DEFINE h == HalfEven(n, d)
<1>1. /\ h \in Nat /\ 2 * n - d <= 2 * (d * h) /\ 2 * (d * h) <= 2 * n + d
  BY HalfEvenNearest
<1> HIDE DEF h
<1>2. ASSUME n <= d * k PROVE h <= k
  <2> SUFFICES ASSUME k < h PROVE FALSE
    BY <1>1
  <2>1. d * k + d <= d * h /\ d * k \in Nat /\ d * h \in Nat
    BY <1>1, OneMore
  <2>2. QED
    BY <1>1, <1>2, <2>1
<1>3. ASSUME d * k <= n PROVE k <= h
  <2> SUFFICES ASSUME h < k PROVE FALSE
    BY <1>1
  <2>1. d * h + d <= d * k /\ d * k \in Nat /\ d * h \in Nat
    BY <1>1, OneMore
  <2>2. QED
    BY <1>1, <1>3, <2>1
<1>4. QED
  BY <1>2, <1>3 DEF h

(* q is n divided by b, with what is left.                                 *)
IsQuotient(q, n, b) ==
  /\ q \in [whole : Nat, rest : Nat, by : Nat \ {0}] /\ q.by = b
  /\ q.rest < b /\ n = b * q.whole + q.rest

LEMMA NextDigitQuotient ==
  ASSUME NEW b \in Nat, b > 0, NEW n \in Nat, NEW q, IsQuotient(q, n, b)
  PROVE  IsQuotient(NextDigit[q], 10 * n, b)
<1>1. /\ q.whole \in Nat /\ q.rest \in Nat /\ q.by = b
      /\ n = b * q.whole + q.rest /\ q.rest < b
  BY DEF IsQuotient
<1>2. PICK w \in Nat, r \in Nat : w = q.whole /\ r = q.rest
  BY <1>1
<1>3. PICK d \in Nat, s \in Nat :
        d = (10 * r) \div b /\ s = (10 * r) % b /\ 10 * r = b * d + s /\ s < b
  <2>1. 10 * r \in Nat
    OBVIOUS
  <2>2. QED
    BY <2>1, Division
<1>4. NextDigit[q] = [whole |-> 10 * w + d, rest |-> s, by |-> b]
  BY <1>1, <1>2, <1>3 DEF IsQuotient, NextDigit
<1>5. 10 * n = b * (10 * w + d) + s
  <2>1. PICK y \in Nat, z \in Nat : y = b * w /\ z = b * d
    OBVIOUS
  <2>2. b * (10 * w + d) = 10 * y + z
    <3>1. b * (10 * w + d) = 10 * (b * w) + b * d
      OBVIOUS
    <3>2. QED
      BY <2>1, <3>1
  <2>3. n = y + r /\ 10 * r = z + s
    BY <1>1, <1>2, <1>3, <2>1
  <2>4. QED
    BY <2>2, <2>3
<1>6. 10 * w + d \in Nat
  OBVIOUS
<1> DEFINE x == 10 * w + d
<1>7. NextDigit[q] = [whole |-> x, rest |-> s, by |-> b] /\ x \in Nat /\ 10 * n = b * x + s
  BY <1>4, <1>5, <1>6
<1> HIDE DEF x
<1>8. QED
  BY <1>3, <1>7 DEF IsQuotient

(* Digit by digit come the same four digits.                               *)
LEMMA QuantizedIsHalfEven ==
  ASSUME NEW a \in Nat, NEW b \in Nat, b > 0
  PROVE  Quantized(a, b) = HalfEven(10000 * a, b)
<1> DEFINE q0 == [whole |-> a \div b, rest |-> a % b, by |-> b]
           q1 == NextDigit[q0]
           q2 == NextDigit[q1]
           q3 == NextDigit[q2]
           q4 == NextDigit[q3]
           w == (10000 * a) \div b
           r == (10000 * a) % b
<1>1. IsQuotient(q0, a, b)
  <2>1. a \div b \in Nat /\ a % b \in Nat /\ a = b * (a \div b) + (a % b) /\ a % b < b
    BY Division
  <2>2. QED
    BY <2>1 DEF IsQuotient
<1>2. Quantized(a, b) = Rounded[q4] /\ HalfEven(10000 * a, b) =
        (IF 2 * r > b \/ (2 * r = b /\ w % 2 = 1) THEN w + 1 ELSE w)
  BY DEF Quantized, HalfEven
<1>3. w \in Nat /\ r \in Nat /\ 10000 * a = b * w + r /\ r < b
  BY Division
<1> HIDE DEF q0, w, r
<1>4. IsQuotient(q1, 10 * a, b)
  BY <1>1, NextDigitQuotient
<1> HIDE DEF q1
<1>5. IsQuotient(q2, 100 * a, b)
  <2>1. IsQuotient(q2, 10 * (10 * a), b)
    BY <1>4, NextDigitQuotient
  <2>2. QED
    BY <2>1
<1> HIDE DEF q2
<1>6. IsQuotient(q3, 1000 * a, b)
  <2>1. IsQuotient(q3, 10 * (100 * a), b)
    BY <1>5, NextDigitQuotient
  <2>2. QED
    BY <2>1
<1> HIDE DEF q3
<1>7. IsQuotient(q4, 10000 * a, b)
  <2>1. IsQuotient(q4, 10 * (1000 * a), b)
    BY <1>6, NextDigitQuotient
  <2>2. QED
    BY <2>1
<1> HIDE DEF q4
<1>8. /\ q4 \in [whole : Nat, rest : Nat, by : Nat \ {0}] /\ q4.by = b
      /\ q4.rest < b /\ b * q4.whole + q4.rest = b * w + r
  BY <1>3, <1>7 DEF IsQuotient
<1>9. q4.whole \in Nat /\ q4.rest \in Nat
  BY <1>8
<1>10. q4.whole = w /\ q4.rest = r
  <2>1. PICK x \in Nat, y \in Nat : x = q4.whole /\ y = q4.rest
    BY <1>9
  <2>2. PICK v \in Nat, s \in Nat : v = w /\ s = r
    BY <1>3
  <2>3. y < b /\ s < b /\ b * x + y = b * v + s
    BY <1>3, <1>8, <2>1, <2>2
  <2>4. x = v /\ y = s
    BY <2>3, QuotientUnique
  <2>5. QED
    BY <2>1, <2>2, <2>4
<1>11. Rounded[q4] = IF 2 * q4.rest > q4.by \/ (2 * q4.rest = q4.by /\ q4.whole % 2 = 1)
                      THEN q4.whole + 1 ELSE q4.whole
  BY <1>8 DEF Rounded
<1>12. QED
  BY <1>2, <1>8, <1>10, <1>11

(* A share is a number, at most the whole for a part of it, and grows with *)
(* the part.                                                               *)
LEMMA QuantizedShare ==
  ASSUME NEW a \in Nat, NEW b \in Nat, b > 0
  PROVE  /\ Quantized(a, b) \in Nat
         /\ a <= b => Quantized(a, b) <= 10000
         /\ \A c \in Nat : a <= c => Quantized(a, b) <= Quantized(c, b)
<1>1. \A x \in Nat : 10000 * x \in Nat /\ Quantized(x, b) = HalfEven(10000 * x, b)
  BY QuantizedIsHalfEven
<1>2. HalfEven(10000 * a, b) \in Nat
  BY HalfEvenNearest
<1>3. ASSUME a <= b PROVE HalfEven(10000 * a, b) <= 10000
  <2>1. 10000 * a <= b * 10000
    BY <1>3
  <2>2. QED
    BY <2>1, HalfEvenBounds
<1>4. ASSUME NEW c \in Nat, a <= c PROVE HalfEven(10000 * a, b) <= HalfEven(10000 * c, b)
  BY <1>4, HalfEvenMonotone
<1>5. QED
  BY <1>1, <1>2, <1>3, <1>4

(* Safety points as a percentage, at the borders that grades are made of.  *)
LEMMA SafetyPercentBounds ==
  ASSUME NEW p \in Nat, p <= 40
  PROVE  /\ SafetyPercent(p) \in Nat /\ SafetyPercent(p) <= 100
         /\ p >= 22 => SafetyPercent(p) >= 55
         /\ SafetyPercent(p) >= 90 <=> p >= 36
<1>1. PICK d \in Nat : d = 40
  OBVIOUS
<1>2. PICK n \in Nat : n = 100 * p
  OBVIOUS
<1>3. /\ n <= d * 100 /\ d > 0
      /\ p >= 22 => d * 55 <= n
      /\ p >= 36 => d * 90 <= n
      /\ ~ p >= 36 => n <= d * 88
  BY <1>1, <1>2
<1>4. PICK h \in Nat : h = HalfEven(n, d)
  BY <1>3, HalfEvenNearest
<1>5. /\ h <= 100
      /\ p >= 22 => 55 <= h
      /\ p >= 36 => 90 <= h
      /\ ~ p >= 36 => h <= 88
  BY <1>3, <1>4, HalfEvenBounds
<1>6. SafetyPercent(p) = IF p = 23 THEN 57 ELSE h
  BY <1>1, <1>2, <1>4, Zenon DEF SafetyPercent
<1>7. QED
  BY <1>5, <1>6
--------------------------------------------------------------------------------
(* Months to the goal.                                                     *)

(* Rounding to the won moves an amount by half a won at most.              *)
LEMMA WonNearest ==
  ASSUME NEW v \in Int
  PROVE  /\ Won(v) \in Int /\ v - 5 <= Won(v) /\ Won(v) <= v + 5
         /\ v \in Nat => Won(v) \in Nat
         /\ v % 10 = 0 => Won(v) = v
  BY DEF Won

(* The months named are enough, and one less is not.                       *)
LEMMA MonthsEnough ==
  ASSUME NEW gap \in Nat, NEW savable \in Int
  PROVE  LET m == MonthsToGoal(gap, savable)
         IN  /\ gap = 0 => m = 0
             /\ (gap > 0 /\ savable <= 0) => m = Unknown
             /\ (gap > 0 /\ savable > 0) =>
                  m \in Nat /\ m > 0 /\ gap <= savable * m /\ savable * (m - 1) < gap
<1>1. gap = 0 => MonthsToGoal(gap, savable) = 0
  BY DEF MonthsToGoal
<1>2. (gap > 0 /\ savable <= 0) => MonthsToGoal(gap, savable) = Unknown
  BY DEF MonthsToGoal
<1>3. ASSUME gap > 0, savable > 0
      PROVE  LET m == MonthsToGoal(gap, savable)
             IN  m \in Nat /\ m > 0 /\ gap <= savable * m /\ savable * (m - 1) < gap
  <2> DEFINE n == gap + savable - 1
             m == n \div savable
             r == n % savable
  <2>1. n \in Nat /\ savable \in Nat
    BY <1>3
  <2>2. m \in Nat /\ r \in Nat /\ n = savable * m + r /\ r < savable
    <3> HIDE DEF n
    <3>1. QED
      BY <1>3, <2>1, Division
  <2>3. MonthsToGoal(gap, savable) = m
    <3>1. gap # 0 /\ ~ savable <= 0
      BY <1>3
    <3>2. QED
      BY <3>1, Zenon DEF MonthsToGoal
  <2> HIDE DEF m, r
  <2>4. savable * m \in Nat /\ savable * (m - 1) = savable * m - savable
    BY <2>1, <2>2
  <2>5. gap <= savable * m /\ savable * (m - 1) < gap
    BY <2>1, <2>2, <2>4
  <2>6. m # 0
    BY <1>3, <2>1, <2>2, <2>5
  <2>7. QED
    BY <2>2, <2>3, <2>5, <2>6
<1>4. QED
  BY <1>1, <1>2, <1>3

(* Putting more aside never takes longer.                                  *)
LEMMA MonthsMonotone ==
  ASSUME NEW gap \in Nat, NEW savable \in Int, NEW more \in Int, savable <= more,
         MonthsToGoal(gap, savable) # Unknown
  PROVE  MonthsToGoal(gap, more) \in 0..MonthsToGoal(gap, savable)
<1>1. CASE gap = 0
  BY <1>1, MonthsEnough
<1>2. CASE gap > 0
  <2> DEFINE m == MonthsToGoal(gap, savable)
             k == MonthsToGoal(gap, more)
  <2>1. savable > 0 /\ more > 0
    BY <1>2, MonthsEnough
  <2>2. /\ m \in Nat /\ m > 0 /\ gap <= savable * m
        /\ k \in Nat /\ k > 0 /\ more * (k - 1) < gap
    BY <1>2, <2>1, MonthsEnough
  <2> HIDE DEF m, k
  <2>3. ~ m < k
    <3> SUFFICES ASSUME m < k PROVE FALSE
      OBVIOUS
    <3>1. k - 1 - m \in Nat /\ more - savable \in Nat /\ more \in Nat
      BY <2>1, <2>2
    <3>2. more * (k - 1) = savable * m + (more - savable) * m + more * (k - 1 - m)
      BY <2>1, <2>2, <3>1
    <3>3. (more - savable) * m \in Nat /\ more * (k - 1 - m) \in Nat
      BY <2>2, <3>1
    <3>4. savable * m \in Int /\ more * (k - 1) \in Int
      BY <2>1, <2>2
    <3> DEFINE x == (more - savable) * m
               y == more * (k - 1 - m)
    <3> HIDE DEF x, y
    <3>5. more * (k - 1) = savable * m + x + y /\ x \in Nat /\ y \in Nat
      BY <3>2, <3>3 DEF x, y
    <3>6. QED
      BY <2>2, <3>4, <3>5
  <2>4. QED
    BY <2>2, <2>3 DEF m, k
<1>3. QED
  BY <1>1, <1>2
--------------------------------------------------------------------------------
(* Sums over finite sets.                                                 *)

(* Induction over a finite set needs no schema: a set of parts that has    *)
(* none left with the property is empty, since it would have a smallest.   *)

(* Among parts of a finite set there is one that contains no other.        *)
LEMMA SmallestPart ==
  ASSUME NEW S, IsFiniteSet(S), NEW Bad \in SUBSET SUBSET S, Bad # {}
  PROVE  \E T \in Bad : \A U \in SUBSET T : U # T => U \notin Bad
<1> DEFINE R == StrictSubsetOrdering(S)
<1>1. IsWellFoundedOn(R, FiniteSubsetsOf(S))
  BY FS_StrictSubsetOrderingWellFounded
<1>2. Bad \subseteq FiniteSubsetsOf(S)
  BY FS_Subset DEF FiniteSubsetsOf
<1> HIDE DEF R
<1>3. PICK T \in Bad : \A U \in Bad : <<U, T>> \notin R
  BY <1>1, <1>2, WFMin
<1>4. QED
  BY <1>3 DEF R, StrictSubsetOrdering

(* Induction over a finite set: Good is the set of parts it is about.      *)
LEMMA SetInduction ==
  ASSUME NEW S, IsFiniteSet(S), NEW Good, {} \in Good,
         \A T \in SUBSET S : \A x \in S \ T : T \in Good => T \union {x} \in Good
  PROVE  \A T \in SUBSET S : T \in Good
<1> DEFINE Bad == {T \in SUBSET S : T \notin Good}
<1> SUFFICES ASSUME Bad # {} PROVE FALSE
  OBVIOUS
<1>1. PICK T \in Bad : \A U \in SUBSET T : U # T => U \notin Bad
  <2>1. Bad \in SUBSET SUBSET S
    OBVIOUS
  <2> HIDE DEF Bad
  <2>2. QED
    BY <2>1, SmallestPart
<1>2. PICK x \in T : TRUE
  OBVIOUS
<1> DEFINE U == T \ {x}
<1>3. U \in SUBSET S /\ U \in Good /\ U \union {x} = T /\ x \in S \ U
  BY <1>1
<1> HIDE DEF U
<1>4. T \in Good
  BY <1>3
<1>5. QED
  BY <1>4

(* The order of adding, or multiplying, does not matter.                   *)
Exchanges(op) ==
  /\ op \in [Int -> [Int -> Int]]
  /\ \A a, b, c \in Int : op[a][op[b][c]] = op[b][op[a][c]]

(* g puts the numbers f of every part of S together, from base on, with    *)
(* any element taken last.                                                 *)
IsFold(g, op, base, f, S) ==
  /\ g \in [SUBSET S -> Int] /\ g[{}] = base
  /\ \A T \in SUBSET S : \A x \in T : g[T] = op[f[x]][g[T \ {x}]]

LEMMA FoldExists ==
  ASSUME NEW op, Exchanges(op), NEW base \in Int,
         NEW S, IsFiniteSet(S), NEW f, \A x \in S : f[x] \in Int
  PROVE  \E g : IsFold(g, op, base, f, S)
<1> DEFINE Good == {T \in SUBSET S : \E g : IsFold(g, op, base, f, T)}
<1>1. {} \in Good
  <2> DEFINE g == [T \in {{}} |-> base]
  <2>1. SUBSET {} = {{}}
    OBVIOUS
  <2>2. IsFold(g, op, base, f, {})
    BY <2>1 DEF IsFold
  <2>3. QED
    BY <2>2
<1>2. ASSUME NEW U \in SUBSET S, NEW y \in S \ U, U \in Good PROVE U \union {y} \in Good
  <2>1. PICK g : IsFold(g, op, base, f, U)
    BY <1>2
  <2> DEFINE V == U \union {y}
             h == [T \in SUBSET V |-> IF y \in T THEN op[f[y]][g[T \ {y}]] ELSE g[T]]
  <2>2. \A T \in SUBSET V : T \ {y} \in SUBSET U /\ (y \notin T => T \in SUBSET U)
    OBVIOUS
  <2>3. \A a, b \in Int : op[a][b] \in Int
    BY DEF Exchanges
  <2>4. h \in [SUBSET V -> Int]
    <3>1. ASSUME NEW T \in SUBSET V
          PROVE  (IF y \in T THEN op[f[y]][g[T \ {y}]] ELSE g[T]) \in Int
      <4>1. CASE y \in T
        BY <2>1, <2>2, <2>3, <4>1 DEF IsFold
      <4>2. CASE y \notin T
        BY <2>1, <2>2, <4>2 DEF IsFold
      <4>3. QED
        BY <4>1, <4>2
    <3>2. QED
      BY <3>1
  <2>5. h[{}] = base
    BY <2>1, SMTT(20) DEF IsFold
  <2>6. ASSUME NEW T \in SUBSET V, NEW x \in T PROVE h[T] = op[f[x]][h[T \ {x}]]
    <3>1. CASE y \notin T
      BY <2>1, <2>2, <3>1 DEF IsFold
    <3>2. CASE x = y
      BY <2>2, <3>2
    <3>3. CASE y \in T /\ x # y
      <4>1. /\ h[T] = op[f[y]][g[T \ {y}]]
            /\ h[T \ {x}] = op[f[y]][g[(T \ {x}) \ {y}]]
        BY <2>6, <3>3
      <4>2. /\ (T \ {x}) \ {y} = (T \ {y}) \ {x}
            /\ T \ {y} \in SUBSET U /\ x \in T \ {y}
        BY <2>2, <3>3
      <4>3. /\ g[T \ {y}] = op[f[x]][g[(T \ {y}) \ {x}]]
            /\ g[(T \ {y}) \ {x}] \in Int
        BY <2>1, <4>2 DEF IsFold
      <4>4. f[x] \in Int /\ f[y] \in Int
        OBVIOUS
      <4> HIDE DEF h
      <4>5. \A a, b, c \in Int : op[a][op[b][c]] = op[b][op[a][c]]
        BY DEF Exchanges
      <4>6. h[T] = op[f[y]][op[f[x]][g[(T \ {y}) \ {x}]]]
        BY <4>1, <4>3
      <4>7. h[T \ {x}] = op[f[y]][g[(T \ {y}) \ {x}]]
        BY <4>1, <4>2
      <4>8. QED
        BY <4>3, <4>4, <4>5, <4>6, <4>7
    <3>4. QED
      BY <3>1, <3>2, <3>3
  <2> HIDE DEF h
  <2>7. IsFold(h, op, base, f, V)
    BY <2>4, <2>5, <2>6 DEF IsFold
  <2>8. QED
    BY <2>7
<1> HIDE DEF Good
<1>3. \A T \in SUBSET S : T \in Good
  BY <1>1, <1>2, SetInduction
<1>4. QED
  BY <1>3 DEF Good

(* Two functions of the parts of S are the same if each makes the value of *)
(* a part of what is left without some element of it.                      *)
LEMMA SameOnParts ==
  ASSUME NEW S, IsFiniteSet(S), NEW g, NEW h, g[{}] = h[{}],
         \A T \in SUBSET S : T # {} => \E x \in T : g[T \ {x}] = h[T \ {x}] => g[T] = h[T]
  PROVE  g[S] = h[S]
<1> DEFINE Bad == {T \in SUBSET S : g[T] # h[T]}
<1> SUFFICES ASSUME Bad # {} PROVE FALSE
  OBVIOUS
<1>1. PICK T \in Bad : \A U \in SUBSET T : U # T => U \notin Bad
  <2>1. Bad \in SUBSET SUBSET S
    OBVIOUS
  <2> HIDE DEF Bad
  <2>2. QED
    BY <2>1, SmallestPart
<1>2. PICK x \in T : g[T \ {x}] = h[T \ {x}] => g[T] = h[T]
  <2>1. T # {} /\ T \in SUBSET S
    OBVIOUS
  <2>2. QED
    BY <2>1
<1> DEFINE U == T \ {x}
<1>3. U \in SUBSET T /\ U # T /\ U \in SUBSET S
  OBVIOUS
<1>4. U \notin Bad
  BY <1>1, <1>3
<1>5. g[U] = h[U]
  BY <1>3, <1>4
<1>6. QED
  BY <1>2, <1>5

Plus == [a \in Int |-> [b \in Int |-> a + b]]
Times == [a \in Int |-> [b \in Int |-> a * b]]

LEMMA PlusTimes == Exchanges(Plus) /\ Exchanges(Times)
  BY DEF Exchanges, Plus, Times


LEMMA SumFound ==
  ASSUME NEW S, IsFiniteSet(S), NEW f, \A x \in S : f[x] \in Int,
         NEW g, IsFold(g, Plus, 0, f, S)
  PROVE  SumFunctionOnSet(f, S) = g[S]
<1> DEFINE pick(s) == CHOOSE x \in s : TRUE
           next(i) == [s \in SUBSET S |-> IF s = {} THEN 0 ELSE f[pick(s)] + i[s \ {pick(s)}]]
           sum == CHOOSE i : i = next(i)
<1>1. SumFunctionOnSet(f, S) = sum[S]
  BY DEF SumFunctionOnSet, FoldFunctionOnSet, MapThenFoldSet
<1>2. \A s \in SUBSET S : s # {} => pick(s) \in s
  OBVIOUS
<1> HIDE DEF pick
<1>3. \A s \in SUBSET S : g[s] = IF s = {} THEN 0 ELSE f[pick(s)] + g[s \ {pick(s)}]
  <2>1. g \in [SUBSET S -> Int] /\ g[{}] = 0
    BY DEF IsFold
  <2>2. ASSUME NEW s \in SUBSET S, s # {}
        PROVE  g[s] = f[pick(s)] + g[s \ {pick(s)}]
    <3>1. /\ g[s] = Plus[f[pick(s)]][g[s \ {pick(s)}]]
          /\ f[pick(s)] \in Int /\ g[s \ {pick(s)}] \in Int
      BY <1>2, <2>2 DEF IsFold
    <3>2. QED
      BY <3>1 DEF Plus
  <2>3. QED
    BY <2>1, <2>2
<1>4. g = next(g)
  BY <1>3 DEF IsFold
<1>5. sum = next(sum)
  <2>1. \E i : i = next(i)
    BY <1>4
  <2> HIDE DEF next
  <2>2. QED
    BY <2>1
<1> HIDE DEF sum
<1>6. \A s \in SUBSET S : sum[s] = IF s = {} THEN 0 ELSE f[pick(s)] + sum[s \ {pick(s)}]
  BY <1>5
<1>7. ASSUME NEW T \in SUBSET S, T # {}
      PROVE  \E x \in T : sum[T \ {x}] = g[T \ {x}] => sum[T] = g[T]
  BY <1>2, <1>3, <1>6, <1>7
<1>8. sum[{}] = g[{}]
  BY <1>3, <1>6
<1>9. sum[S] = g[S]
  BY <1>7, <1>8, SameOnParts
<1>10. QED
  BY <1>1, <1>9

--------------------------------------------------------------------------------
(* What the folds come to.                                                 *)

(* A fold of S is one of every part of it.                                 *)
LEMMA FoldOfPart ==
  ASSUME NEW g, NEW op, NEW base, NEW f, NEW S, NEW T \in SUBSET S, IsFold(g, op, base, f, S)
  PROVE  \E h : IsFold(h, op, base, f, T) /\ h[T] = g[T]
<1> DEFINE h == [U \in SUBSET T |-> g[U]]
<1>1. h \in [SUBSET T -> Int] /\ h[{}] = base
  BY DEF IsFold
<1>2. \A U \in SUBSET T : \A x \in U : h[U] = op[f[x]][h[U \ {x}]]
  BY DEF IsFold
<1> HIDE DEF h
<1>3. IsFold(h, op, base, f, T)
  BY <1>1, <1>2 DEF IsFold
<1>4. h[T] = g[T]
  BY DEF h
<1>5. QED
  BY <1>3, <1>4

LEMMA SumEmpty == \A f : SumFunctionOnSet(f, {}) = 0
<1> SUFFICES ASSUME NEW f PROVE SumFunctionOnSet(f, {}) = 0
  OBVIOUS
<1>1. PICK g : IsFold(g, Plus, 0, f, {})
  BY FoldExists, FS_EmptySet, PlusTimes
<1>2. QED
  BY <1>1, SumFound, FS_EmptySet DEF IsFold

(* Any element may be taken out of a sum.                                  *)
LEMMA SumAdd ==
  ASSUME NEW S, IsFiniteSet(S), NEW f, \A x \in S : f[x] \in Int, NEW x \in S
  PROVE  /\ SumFunctionOnSet(f, S) = f[x] + SumFunctionOnSet(f, S \ {x})
         /\ SumFunctionOnSet(f, S) \in Int /\ SumFunctionOnSet(f, S \ {x}) \in Int
<1>1. PICK g : IsFold(g, Plus, 0, f, S)
  BY FoldExists, PlusTimes
<1>2. PICK h : IsFold(h, Plus, 0, f, S \ {x}) /\ h[S \ {x}] = g[S \ {x}]
  BY <1>1, FoldOfPart
<1>3. IsFiniteSet(S \ {x})
  BY FS_Subset
<1>4. SumFunctionOnSet(f, S) = g[S] /\ SumFunctionOnSet(f, S \ {x}) = g[S \ {x}]
  BY <1>1, <1>2, <1>3, SumFound
<1>5. g[S] = Plus[f[x]][g[S \ {x}]] /\ f[x] \in Int /\ g[S \ {x}] \in Int
  BY <1>1 DEF IsFold
<1>6. QED
  BY <1>4, <1>5 DEF Plus

LEMMA SumIsInt ==
  ASSUME NEW S, IsFiniteSet(S), NEW f, \A x \in S : f[x] \in Int
  PROVE  SumFunctionOnSet(f, S) \in Int
<1>1. CASE S = {}
  BY <1>1, SumEmpty
<1>2. CASE S # {}
  BY <1>2, SumAdd
<1>3. QED
  BY <1>1, <1>2

(* The same for one more element, as inductions need it.                   *)
LEMMA SumWith ==
  ASSUME NEW S, IsFiniteSet(S), NEW f, \A y \in S : f[y] \in Int,
         NEW T \in SUBSET S, NEW x \in S \ T
  PROVE  /\ SumFunctionOnSet(f, T \union {x}) = f[x] + SumFunctionOnSet(f, T)
         /\ SumFunctionOnSet(f, T) \in Int
         /\ Cardinality(T) \in Nat /\ Cardinality(T \union {x}) = Cardinality(T) + 1
<1> DEFINE U == T \union {x}
<1>1. U \in SUBSET S /\ x \in U /\ U \ {x} = T
  OBVIOUS
<1>2. IsFiniteSet(T) /\ IsFiniteSet(U)
  BY <1>1, FS_Subset
<1>3. Cardinality(T) \in Nat /\ Cardinality(U) = Cardinality(T) + 1
  BY <1>2, FS_CardinalityType, FS_AddElement
<1> HIDE DEF U
<1>4. SumFunctionOnSet(f, U) = f[x] + SumFunctionOnSet(f, T) /\ SumFunctionOnSet(f, T) \in Int
  BY <1>1, <1>2, SumAdd
<1>5. QED
  BY <1>3, <1>4 DEF U

LEMMA SumIsNat ==
  ASSUME NEW S, IsFiniteSet(S), NEW f, \A x \in S : f[x] \in Nat
  PROVE  \A T \in SUBSET S : SumFunctionOnSet(f, T) \in Nat
<1> DEFINE Good == {T \in SUBSET S : SumFunctionOnSet(f, T) \in Nat}
<1>1. {} \in Good
  BY SumEmpty
<1>2. ASSUME NEW T \in SUBSET S, NEW x \in S \ T, T \in Good PROVE T \union {x} \in Good
  <2>1. SumFunctionOnSet(f, T \union {x}) = f[x] + SumFunctionOnSet(f, T)
    BY SumWith
  <2>2. QED
    BY <1>2, <2>1
<1> HIDE DEF Good
<1>3. \A T \in SUBSET S : T \in Good
  BY <1>1, <1>2, SetInduction
<1>4. QED
  BY <1>3 DEF Good

(* A sum is that of a part and of the rest.                                *)
LEMMA SumOfPart ==
  ASSUME NEW S, IsFiniteSet(S), NEW f, \A x \in S : f[x] \in Nat, NEW R \in SUBSET S
  PROVE  /\ SumFunctionOnSet(f, R) \in Nat /\ SumFunctionOnSet(f, S \ R) \in Nat
         /\ SumFunctionOnSet(f, S) = SumFunctionOnSet(f, R) + SumFunctionOnSet(f, S \ R)
<1> DEFINE rest == S \ R
           Good == {T \in SUBSET rest :
                      SumFunctionOnSet(f, R \union T) = SumFunctionOnSet(f, R) + SumFunctionOnSet(f, T)}
<1>1. \A T \in SUBSET S : SumFunctionOnSet(f, T) \in Nat
  BY SumIsNat
<1>2. {} \in Good
  <2>1. R \union {} = R
    OBVIOUS
  <2>2. QED
    BY <1>1, <2>1, SumEmpty
<1>3. ASSUME NEW T \in SUBSET rest, NEW x \in rest \ T, T \in Good PROVE T \union {x} \in Good
  <2>1. /\ T \in SUBSET S /\ x \in S \ T
        /\ R \union T \in SUBSET S /\ x \in S \ (R \union T)
        /\ R \union (T \union {x}) = (R \union T) \union {x}
    OBVIOUS
  <2> HIDE DEF rest
  <2>2. SumFunctionOnSet(f, T \union {x}) = f[x] + SumFunctionOnSet(f, T)
    BY <2>1, SumWith, SMTT(20)
  <2>3. SumFunctionOnSet(f, R \union (T \union {x})) = f[x] + SumFunctionOnSet(f, R \union T)
    <3> DEFINE V == R \union T
    <3>1. V \in SUBSET S /\ x \in S \ V /\ R \union (T \union {x}) = V \union {x}
      BY <2>1
    <3> HIDE DEF V
    <3>2. SumFunctionOnSet(f, V \union {x}) = f[x] + SumFunctionOnSet(f, V)
      BY <3>1, SumWith, SMTT(20)
    <3>3. QED
      BY <3>1, <3>2 DEF V
  <2>4. SumFunctionOnSet(f, R \union T) = SumFunctionOnSet(f, R) + SumFunctionOnSet(f, T)
    BY <1>3
  <2>5. f[x] \in Nat /\ SumFunctionOnSet(f, R) \in Nat /\ SumFunctionOnSet(f, T) \in Nat
    BY <1>1, <2>1
  <2>6. SumFunctionOnSet(f, R \union (T \union {x}))
          = SumFunctionOnSet(f, R) + SumFunctionOnSet(f, T \union {x})
    BY <2>2, <2>3, <2>4, <2>5
  <2>7. QED
    BY <2>6
<1>4. IsFiniteSet(rest)
  BY FS_Subset
<1> HIDE DEF Good, rest
<1>5. \A T \in SUBSET rest : T \in Good
  BY <1>2, <1>3, <1>4, SetInduction
<1>6. rest \in Good
  BY <1>5
<1>7. R \union rest = S /\ rest \in SUBSET S
  BY DEF rest
<1>8. SumFunctionOnSet(f, R \union rest) = SumFunctionOnSet(f, R) + SumFunctionOnSet(f, rest)
  BY <1>6 DEF Good
<1>9. QED
  BY <1>1, <1>7, <1>8 DEF rest

(* A part of natural numbers sums to no more than the whole.               *)
LEMMA PartIsLess ==
  ASSUME NEW S, IsFiniteSet(S), NEW f, \A x \in S : f[x] \in Nat, NEW R \in SUBSET S
  PROVE  SumFunctionOnSet(f, R) \in 0..SumFunctionOnSet(f, S)
<1>1. /\ SumFunctionOnSet(f, R) \in Nat /\ SumFunctionOnSet(f, S \ R) \in Nat
      /\ SumFunctionOnSet(f, S) = SumFunctionOnSet(f, R) + SumFunctionOnSet(f, S \ R)
  BY SumOfPart, Zenon
<1>2. QED
  BY <1>1

(* With no term below least, a sum is that many times least.               *)
LEMMA SumAtLeast ==
  ASSUME NEW S, IsFiniteSet(S), NEW f, \A x \in S : f[x] \in Nat,
         NEW least \in Nat, \A x \in S : least <= f[x]
  PROVE  Cardinality(S) * least <= SumFunctionOnSet(f, S)
<1> DEFINE Good == {T \in SUBSET S : Cardinality(T) * least <= SumFunctionOnSet(f, T)}
<1>1. {} \in Good
  BY SumEmpty, FS_EmptySet
<1>2. ASSUME NEW T \in SUBSET S, NEW x \in S \ T, T \in Good PROVE T \union {x} \in Good
  <2>1. /\ SumFunctionOnSet(f, T \union {x}) = f[x] + SumFunctionOnSet(f, T)
        /\ SumFunctionOnSet(f, T) \in Int
        /\ Cardinality(T) \in Nat /\ Cardinality(T \union {x}) = Cardinality(T) + 1
    BY SumWith
  <2>2. /\ (Cardinality(T) + 1) * least = Cardinality(T) * least + least
        /\ Cardinality(T) * least \in Nat
    BY <2>1
  <2>3. Cardinality(T) * least <= SumFunctionOnSet(f, T) /\ least <= f[x] /\ f[x] \in Nat
    BY <1>2
  <2>4. QED
    BY <2>1, <2>2, <2>3
<1> HIDE DEF Good
<1>3. \A T \in SUBSET S : T \in Good
  BY <1>1, <1>2, SetInduction
<1>4. QED
  BY <1>3 DEF Good

(* Each h[x] is c * f[x] / d, rounded.                                     *)
AreRounded(h, f, c, d, S) ==
  \A x \in S : /\ 2 * (c * f[x]) - d <= 2 * (d * h[x])
               /\ 2 * (d * h[x]) <= 2 * (c * f[x]) + d

(* Together they are off by half a unit for each of them at most.          *)
LEMMA SumOfRounded ==
  ASSUME NEW S, IsFiniteSet(S), NEW f, \A x \in S : f[x] \in Nat, NEW h, \A x \in S : h[x] \in Nat,
         NEW c \in Nat, NEW d \in Nat, AreRounded(h, f, c, d, S)
  PROVE  /\ 2 * (c * SumFunctionOnSet(f, S)) - Cardinality(S) * d <= 2 * (d * SumFunctionOnSet(h, S))
         /\ 2 * (d * SumFunctionOnSet(h, S)) <= 2 * (c * SumFunctionOnSet(f, S)) + Cardinality(S) * d
<1> DEFINE Good == {T \in SUBSET S :
             /\ 2 * (c * SumFunctionOnSet(f, T)) - Cardinality(T) * d <= 2 * (d * SumFunctionOnSet(h, T))
             /\ 2 * (d * SumFunctionOnSet(h, T)) <= 2 * (c * SumFunctionOnSet(f, T)) + Cardinality(T) * d}
<1>1. {} \in Good
  <2>1. /\ SumFunctionOnSet(f, {}) = 0 /\ SumFunctionOnSet(h, {}) = 0 /\ Cardinality({}) = 0
        /\ c * 0 = 0 /\ d * 0 = 0 /\ 0 * d = 0
    BY SumEmpty, FS_EmptySet
  <2>2. QED
    BY <2>1
<1>2. ASSUME NEW T \in SUBSET S, NEW x \in S \ T, T \in Good PROVE T \union {x} \in Good
  <2> DEFINE F == SumFunctionOnSet(f, T)
             H == SumFunctionOnSet(h, T)
             n == Cardinality(T)
             U == T \union {x}
  <2> HIDE DEF Good
  <2>1. /\ SumFunctionOnSet(f, U) = f[x] + F /\ F \in Int
        /\ n \in Nat /\ Cardinality(U) = n + 1
    <3>1. \A y \in S : f[y] \in Int
      OBVIOUS
    <3> HIDE DEF U, F, n
    <3>2. /\ SumFunctionOnSet(f, T \union {x}) = f[x] + SumFunctionOnSet(f, T)
          /\ SumFunctionOnSet(f, T) \in Int
          /\ Cardinality(T) \in Nat /\ Cardinality(T \union {x}) = Cardinality(T) + 1
      BY <3>1, SumWith
    <3>3. QED
      BY <3>2 DEF U, F, n
  <2>2. SumFunctionOnSet(h, U) = h[x] + H /\ H \in Int
    <3>1. \A y \in S : h[y] \in Int
      OBVIOUS
    <3> HIDE DEF U, H
    <3>2. /\ SumFunctionOnSet(h, T \union {x}) = h[x] + SumFunctionOnSet(h, T)
          /\ SumFunctionOnSet(h, T) \in Int
      BY <3>1, SumWith
    <3>3. QED
      BY <3>2 DEF U, H
  <2>3. /\ 2 * (c * F) - n * d <= 2 * (d * H) /\ 2 * (d * H) <= 2 * (c * F) + n * d
        /\ 2 * (c * f[x]) - d <= 2 * (d * h[x]) /\ 2 * (d * h[x]) <= 2 * (c * f[x]) + d
        /\ f[x] \in Nat /\ h[x] \in Nat
    BY <1>2 DEF Good, AreRounded
  <2> HIDE DEF F, H, n
  <2>4. /\ c * (f[x] + F) = c * f[x] + c * F
        /\ d * (h[x] + H) = d * h[x] + d * H
        /\ (n + 1) * d = n * d + d
        /\ c * f[x] \in Int /\ c * F \in Int /\ d * h[x] \in Int /\ d * H \in Int /\ n * d \in Int
    BY <2>1, <2>2, <2>3
  <2>5. /\ 2 * (c * (f[x] + F)) - (n + 1) * d <= 2 * (d * (h[x] + H))
        /\ 2 * (d * (h[x] + H)) <= 2 * (c * (f[x] + F)) + (n + 1) * d
    BY <2>3, <2>4
  <2>6. U \in SUBSET S
    OBVIOUS
  <2> HIDE DEF U
  <2>7. U \in Good
    BY <2>1, <2>2, <2>5, <2>6 DEF Good
  <2>8. QED
    BY <2>7 DEF U
<1> HIDE DEF Good
<1>3. \A T \in SUBSET S : T \in Good
  BY <1>1, <1>2, SetInduction
<1>4. QED
  BY <1>3 DEF Good
================================================================================
