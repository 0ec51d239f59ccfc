---------------------------- MODULE RevisionRegister ----------------------------
(***************************************************************************)
(* The rule Asset's re-issued aggregates are stored by, with no handler,   *)
(* redelivery or failure in sight: a larger revision replaces what is      *)
(* held, anything else changes nothing ("Work 는 가장 큰 revision 만 최종  *)
(* 결과로 사용", consumer.py).                                             *)
(***************************************************************************)
EXTENDS Naturals

CONSTANTS Rev,      \* revision numbers
          Content,  \* what an aggregate says
          None      \* nothing held yet

VARIABLE held       \* [rev, amount], or None

Init == held = None

Replace(rev, content) ==
  /\ held # None => rev > held.rev
  /\ held' = [rev |-> rev, amount |-> content]

Next == \E rev \in Rev, content \in Content : Replace(rev, content)

Spec == Init /\ [][Next]_held
=================================================================================
