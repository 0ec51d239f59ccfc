---------------------------- MODULE MCScheduleCache ----------------------------
(* ScheduleCache on a small instance: one university with two terms, and a *)
(* second one whose first term begins later and reaches beyond the first's.*)
EXTENDS ScheduleCache, TLC

MCEntry ==
  {[univ |-> "hanshin", term |-> 1, start |-> 1, end |-> 2],
   [univ |-> "ajou",    term |-> 1, start |-> 2, end |-> 4],
   [univ |-> "hanshin", term |-> 2, start |-> 5, end |-> 6]}

MCOwn == {[name |-> "trip", start |-> 2, end |-> 2]}

MCSoon == {r \in MCEntry \union MCOwn : r.start = 2}

Symmetry == Permutations(Session)
================================================================================
