------------------------------- MODULE MoneyRecap -------------------------------
(***************************************************************************)
(* What Money Recap makes of a month: the shares of its categories, how    *)
(* far they can be trusted and the nickname.                               *)
(*                                                                         *)
(* amounts maps the categories that have a row to their amount; spent is   *)
(* the month's total, which comes by another topic, and tx how many        *)
(* transactions of that month are in the log. Shares are in                *)
(* ten-thousandths, the unclassified share in hundredths.                  *)
(***************************************************************************)
EXTENDS Scoring, LifePlan, FiniteSets, FiniteSetsExt

Unclassified == {"UNCLASSIFIED", "ETC", ""}

Nicknamed == {"FOOD", "DELIVERY", "CAFE", "TRANSPORT", "SHOPPING", "CULTURE",
              "HEALTH", "EDUCATION", "TRAVEL", "BEAUTY"}

Sum(amounts, S) == SumFunctionOnSet(amounts, S \intersect DOMAIN amounts)

(* Faulty variant: the share of what is classified.                        *)
ShareOfClassified(amounts, spent, k) ==
  LET known == spent - Sum(amounts, Unclassified)
  IN IF known > 0 THEN Quantized(amounts[k], known) ELSE 0

Share(amounts, spent, k) == IF spent > 0 THEN Quantized(amounts[k], spent) ELSE 0

(* The rows come by amount, the largest first; which of two equal ones is  *)
(* first is up to the database.                                            *)
IsTop(amounts, k) ==
  k \in DOMAIN amounts /\ \A o \in DOMAIN amounts : amounts[o] <= amounts[k]

--------------------------------------------------------------------------------
(* Coverage.                                                               *)

UnclassifiedShare(amounts, spent) ==
  IF spent > 0 THEN HalfEven(100 * Sum(amounts, Unclassified), spent) ELSE 0

(* int() cuts towards zero; the row's total and the categories may be of   *)
(* different revisions, and then less than nothing may be classified.      *)
Truncated(n, d) == IF n >= 0 THEN n \div d ELSE - ((- n) \div d)

(* The classified money as a share of the transactions. The quotient has   *)
(* 28 digits: one that never ends may leave a whole result one short.      *)
ClassifiedTx(amounts, spent, tx) ==
  LET classified == spent - Sum(amounts, Unclassified)
      whole      == Truncated(tx * classified, spent)
  IN IF spent <= 0 THEN {0}
     ELSE IF classified > 0 /\ whole > 0 /\ (tx * classified) % spent = 0
       THEN {whole - 1, whole}
     ELSE {whole}

(* minTx is MIN_TX_FOR_NICKNAME; no transaction at all is a case of less.  *)
IsReliable(amounts, spent, tx, minTx) ==
  /\ DOMAIN amounts # {} /\ spent > 0
  /\ tx > 0 /\ tx >= minTx
  /\ UnclassifiedShare(amounts, spent) <= 30

--------------------------------------------------------------------------------

NoNickname == "none"
Balanced == "balanced"

(* The nicknames a month may get: more than one only if categories tie.    *)
Nicknames(amounts, spent, tx, minTx) ==
  IF ~ IsReliable(amounts, spent, tx, minTx) THEN {NoNickname}
  ELSE {IF Share(amounts, spent, k) < 3000 THEN Balanced
        ELSE IF k \in Nicknamed THEN k ELSE NoNickname
          : k \in {o \in DOMAIN amounts : IsTop(amounts, o)}}

--------------------------------------------------------------------------------

(* What the answer to Q8, a spending he wants to keep, is looked for in.   *)
MustKeep == {{"FOOD", "DELIVERY", "CAFE"}, {"CULTURE", "SHOPPING"},
             {"TRAVEL", "TRANSPORT"}, {"BEAUTY", "SHOPPING"},
             {"FOOD", "CULTURE"}, {"EDUCATION"}}

(* The first three rows; with ties there are several such sets.            *)
FirstThree(amounts) ==
  {top \in SUBSET DOMAIN amounts :
    /\ Cardinality(top) = MinOf(3, Cardinality(DOMAIN amounts))
    /\ \A k \in top, o \in DOMAIN amounts \ top : amounts[o] <= amounts[k]}

(* Whether a recap may say that what he wants to keep was not up there.    *)
ToldAbsent(amounts, spent, tx, minTx, keep) ==
  /\ IsReliable(amounts, spent, tx, minTx)
  /\ \E top \in FirstThree(amounts) : keep \intersect top = {}
================================================================================
