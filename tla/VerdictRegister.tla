---------------------------- MODULE VerdictRegister ----------------------------
(***************************************************************************)
(* What FdsDetector.detect promises its callers, with no session, lock or  *)
(* snapshot in sight: a transaction is judged at most once, and whoever    *)
(* asks about it, however often and from wherever, is told that judgement. *)
(* ("판정은 거래 시점의 것이 정본이다", detector.py: the verdict given at   *)
(* the time of the transaction is the authoritative one.)                  *)
(***************************************************************************)
CONSTANTS Tx,        \* the transactions of one user
          Verdict,   \* the outcomes detect() can return
          None       \* "not judged yet"

VARIABLES verdict,   \* verdict[t]: the judgement of t, or None
          answers    \* the pairs <<t, v>> callers have been told

vars == <<verdict, answers>>

Init ==
  /\ verdict = [t \in Tx |-> None]
  /\ answers = {}

Decide(t, v) ==
  /\ verdict[t] = None
  /\ verdict' = [verdict EXCEPT ![t] = v]
  /\ UNCHANGED answers

Answer(t) ==
  /\ verdict[t] # None
  /\ answers' = answers \union {<<t, verdict[t]>>}
  /\ UNCHANGED verdict

Next == \E t \in Tx : Answer(t) \/ \E v \in Verdict : Decide(t, v)

Spec == Init /\ [][Next]_vars
================================================================================
