----------------------------- MODULE MonthRegister -----------------------------
(***************************************************************************)
(* What is stored of one user's month, with no handler, redelivery or      *)
(* failure in sight: a message is stored in one step, each of its rows by  *)
(* RevisionRegister's rule. The total and the categories come apart and in *)
(* any order, and the latter of older revisions stay beside newer ones.    *)
(***************************************************************************)
EXTENDS Naturals

CONSTANTS
  Category,  \* category codes
  Totals,    \* messages with the month's total: records of rev and amount
  Shares,    \* messages with its categories: records of rev and amounts
  None       \* no row yet

VARIABLES
  monthly,    \* [rev, amount], or None
  categories  \* Category -> [rev, amount], or None

Newer(row, rev) == row # None => rev > row.rev

Init == monthly = None /\ categories = [k \in Category |-> None]

StoreTotal(e) ==
  /\ Newer(monthly, e.rev)
  /\ monthly' = [rev |-> e.rev, amount |-> e.amount]
  /\ UNCHANGED categories

StoreShares(e) ==
  /\ categories' = [k \in Category |->
       IF k \in DOMAIN e.amounts /\ Newer(categories[k], e.rev)
         THEN [rev |-> e.rev, amount |-> e.amounts[k]] ELSE categories[k]]
  /\ UNCHANGED monthly

Next == (\E e \in Totals : StoreTotal(e)) \/ (\E e \in Shares : StoreShares(e))

Spec == Init /\ [][Next]_<<monthly, categories>>
================================================================================
