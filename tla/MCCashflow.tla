------------------------------ MODULE MCCashflow ------------------------------
(* Cashflow on a small instance. Amounts and categories are interchange-  *)
(* able.                                                                   *)
EXTENDS Cashflow, TLC

Symmetry == Permutations(Amount) \union Permutations(Category)
===============================================================================
