-------------------------------- MODULE LifePlan --------------------------------
(***************************************************************************)
(* The Future Simulator: what a chosen life costs, what is left of the     *)
(* income and how many months the goal is away.                            *)
(*                                                                         *)
(* Money is in tenths of a won. The baselines are whole won; what the user *)
(* gives need not be, and is rounded in some places and not in others.     *)
(***************************************************************************)
EXTENDS Integers

Unknown == -1  \* None: no amount given, no number of months

Deposit(housing) ==
  CASE housing = "WITH_FAMILY" -> 0         [] housing = "JEONSE" -> 1000000000
    [] housing = "DORM_SHARE"  -> 20000000  [] OTHER -> 100000000

Income(workEnv) ==
  CASE workEnv = "LARGE_CORP" -> 30000000 [] workEnv = "FREELANCE" -> 22000000
    [] OTHER -> 25000000

(* Tenths of the average.                                                  *)
LeisureFactor(style) ==
  CASE style = "HOME_REST" -> 6 [] style = "SELF_DEV" -> 9 [] style = "CULTURE" -> 12
    [] style = "SOCIAL" -> 13   [] style = "OUTDOOR" -> 11 [] OTHER -> 10

(* To the won, a half away from zero.                                      *)
Won(v) == IF v >= 0 THEN 10 * ((v + 5) \div 10) ELSE 0 - 10 * ((5 - v) \div 10)

(* What the user gives wins over what is assumed.                          *)
Resolve(given, baseline) == IF given = Unknown THEN baseline ELSE given

(* The balance: what the user says of it, or else what Asset answers. With *)
(* no account linked (FAILED_PRECONDITION), no certificate or any failure  *)
(* the plan goes on from zero.                                             *)
CurrentAsset(reply) == IF reply.status \in {"INPUT", "OK"} THEN reply.amount ELSE 0

AtHome(choices) == choices.housing = "WITH_FAMILY"

MonthlyIncome(choices, given) == Resolve(given.income, Income(choices.work))

(* 15.8 % of an income, to the won; taken apart to keep the products small.*)
Rent(income) ==
  10 * (158 * (income \div 10000) + (158 * (income % 10000) + 5000) \div 10000)

(* No rent is assumed when staying with the family.                        *)
MonthlyExpense(choices, given) ==
  Resolve(given.housing, IF AtHome(choices) THEN 0 ELSE Rent(MonthlyIncome(choices, given)))
  + Resolve(given.living, 7000000)
  + Resolve(given.leisure, 187000 * LeisureFactor(choices.leisure))

(* Deposit, moving in and three months of expenses.                        *)
Target(choices, given) ==
  Won(Resolve(given.deposit, Deposit(choices.housing))
      + Resolve(given.moveIn, IF AtHome(choices) THEN 0 ELSE 30000000)
      + Won(3 * MonthlyExpense(choices, given)))

Savable(choices, given) == MonthlyIncome(choices, given) - MonthlyExpense(choices, given)

Gap(choices, given, asset) ==
  LET missing == Target(choices, given) - asset IN IF missing > 0 THEN missing ELSE 0

(* Faulty variant: a month begun is not counted.                           *)
MonthsRoundedDown(gap, savable) ==
  IF gap = 0 THEN 0 ELSE IF savable <= 0 THEN Unknown ELSE gap \div savable

(* Whole months, rounded up; unknown when nothing can be put aside. (The   *)
(* code divides floats. They are exact for whole won; with a fraction, a   *)
(* gap that a whole number of months would just close may take one more.)  *)
MonthsToGoal(gap, savable) ==
  IF gap = 0 THEN 0
  ELSE IF savable <= 0 THEN Unknown
  ELSE (gap + savable - 1) \div savable

(* A quotient by q.by, one digit longer.                                   *)
NextDigit ==
  [q \in [whole : Nat, rest : Nat, by : Nat \ {0}] |->
     [whole |-> 10 * q.whole + (10 * q.rest) \div q.by, rest |-> (10 * q.rest) % q.by,
      by    |-> q.by]]

Rounded ==
  [q \in [whole : Nat, rest : Nat, by : Nat \ {0}] |->
     IF 2 * q.rest > q.by \/ (2 * q.rest = q.by /\ q.whole % 2 = 1)
       THEN q.whole + 1 ELSE q.whole]

(* a / b in ten-thousandths, to the nearest, a tie to the even one; digit  *)
(* by digit, which keeps the products small.                               *)
Quantized(a, b) ==
  Rounded[NextDigit[NextDigit[NextDigit[NextDigit[
    [whole |-> a \div b, rest |-> a % b, by |-> b]]]]]]

(* The share of the target that is there, at most 1.0.                     *)
Progress(choices, given, asset) ==
  IF Target(choices, given) = 0 \/ asset >= Target(choices, given) THEN 10000
  ELSE Quantized(asset, Target(choices, given))

(* simulate_adjustment: the same gap with more or less spent each month.   *)
(* It starts from what the plan shows to be put aside, rounded to the won, *)
(* where the plan itself has counted with the exact amount.                *)
AdjustedMonths(choices, given, asset, delta) ==
  MonthsToGoal(Gap(choices, given, asset), Won(Savable(choices, given)) - delta)
================================================================================
