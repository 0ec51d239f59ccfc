------------------------------- MODULE MCInsights -------------------------------
(* Three days, one of them in an exam and two in another event; months     *)
(* with a clear favourite, with an even spread, and with a tie beside      *)
(* unclassified spending of 30.4 %.                                        *)
EXTENDS Insights, TLC

MCEvent == {[days |-> {"mon"}, exam |-> TRUE], [days |-> {"tue", "wed"}, exam |-> FALSE]}
MCPublished == <<[k \in {"FOOD", "ETC"} |-> IF k = "FOOD" THEN 6 ELSE 1],
                 [k \in {"FOOD", "CAFE", "HOUSING", "ETC"} |-> 7],
                 [k \in {"FOOD", "CAFE", "ETC"} |-> IF k = "ETC" THEN 7 ELSE 8]>>
MCSpent == <<7, 28, 23>>

Symmetry == Permutations(Entry)
=================================================================================
