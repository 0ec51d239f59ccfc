--------------------------- MODULE FdsPipelineProofs ---------------------------
(***************************************************************************)
(* Machine-checked proofs about FdsPipeline, for any number of sessions,   *)
(* transactions, verdicts and clock readings.                              *)
(***************************************************************************)
EXTENDS FdsPipeline, FiniteSetTheorems, TLAPS

--------------------------------------------------------------------------------
(* The inductive invariant.                                                *)

(* A profile row is never deleted, so one seen in a snapshot still exists. *)
ProfileStays ==
  \A s \in Session : work[s] # None /\ work[s].snap # None => profile # None

(* Who may have inserted the log row, and what everybody else will answer. *)
RowOwnership ==
  \A s \in Session : work[s] # None =>
    /\ work[s].step = "insert" => ~ work[s].owns
    /\ work[s].step = "publish" => work[s].owns
    /\ work[s].owns => inferenceLog[work[s].tx] = None /\ work[s].step # "reply"
    /\ work[s].step \in {"fold", "commit", "reply"} /\ ~ work[s].owns =>
         inferenceLog[work[s].tx] = work[s].verdict

(* The unique index: at most one open transaction holds a log row's key.   *)
OneHolder ==
  \A r, s \in Session :
    /\ work[r] # None /\ work[r].owns
    /\ work[s] # None /\ work[s].owns
    /\ work[r].tx = work[s].tx
    => r = s

(* What a client was told is what is stored.                               *)
AnswersCommitted ==
  \A t \in Tx, v \in Verdict : <<t, v>> \in answers => inferenceLog[t] = v

(* A verdict on its way to a commit has its alert out already.             *)
AlertBeforeCommit ==
  \A s \in Session :
    /\ work[s] # None /\ work[s].owns
    /\ work[s].verdict \in Alerting
    /\ work[s].step # "publish"
    => \E m \in alertTopic : m.tx = work[s].tx

IInv ==
  /\ TypeOK
  /\ ProfileStays
  /\ RowOwnership
  /\ OneHolder
  /\ AnswersCommitted
  /\ AlertBeforeCommit
  /\ AlertedVerdictPublished

--------------------------------------------------------------------------------

(* What a session commits is a profile row, or leaves the row as it is.    *)
LEMMA CommittedProfileType ==
  ASSUME NEW w \in Detection, profile \in ProfileRow \union {None},
         w.snap # None => profile # None
  PROVE  /\ ProfileAfter(w) \in ProfileRow \union {None}
         /\ profile # None => ProfileAfter(w) # None
<1>1. CASE w.fold = "create"
  <2>1. [FreshProfile.folded EXCEPT ![w.tx] = 1] \in [Tx -> Nat]
    BY DEF FreshProfile, Detection
  <2>2. QED
    BY <1>1, <2>1, PipelineAssumption DEF ProfileAfter, ProfileRow
<1>2. CASE w.fold # "create" /\ w.snap # None
  <2>1. w.snap \in ProfileRow /\ profile \in ProfileRow
    BY <1>2 DEF Detection
  <2>2. CountedBy(w) \in Nat
    BY <2>1 DEF CountedBy, ProfileRow, Detection
  <2>3. [w.snap.folded EXCEPT ![w.tx] = @ + 1] \in [Tx -> Nat]
    BY <2>1 DEF ProfileRow, Detection
  <2>4. QED
    <3> DEFINE count == IF CountedBy(w) # w.snap.count THEN CountedBy(w) ELSE profile.count
               folded == IF w.fold = "update" THEN [w.snap.folded EXCEPT ![w.tx] = @ + 1]
                         ELSE profile.folded
    <3>1. count \in Nat /\ folded \in [Tx -> Nat]
      BY <2>1, <2>2, <2>3 DEF ProfileRow
    <3>2. ProfileAfter(w) = [count |-> count, folded |-> folded]
      BY <1>2 DEF ProfileAfter
    <3> HIDE DEF count, folded
    <3>3. QED
      BY <3>1, <3>2, PipelineAssumption DEF ProfileRow
<1>3. CASE w.fold # "create" /\ w.snap = None
  BY <1>3, SMTT(20) DEF ProfileAfter
<1>4. QED
  BY <1>1, <1>2, <1>3

(* The heart of the proofs: every handler of every session preserves the   *)
(* inductive invariant.                                                    *)
LEMMA IInvStep == IInv /\ [Next]_vars => IInv'
<1> SUFFICES ASSUME IInv, [Next]_vars PROVE IInv'
  OBVIOUS
<1> USE PipelineAssumption DEF IInv, TypeOK, ProfileStays, RowOwnership, OneHolder,
      AnswersCommitted, AlertBeforeCommit, AlertedVerdictPublished
<1>1. ASSUME NEW s \in Session, NEW t \in Tx, FindVerdict(s, t) PROVE IInv'
  BY <1>1 DEF FindVerdict, Idle, Detection, Step
<1>2. ASSUME NEW s \in Session, NEW t \in Tx, NEW v \in Verdict, Score(s, t, v) PROVE IInv'
  BY <1>2 DEF Score, Idle, Detection, Step
<1>3. ASSUME NEW s \in Session, InsertLog(s) PROVE IInv'
  BY <1>3, SMTT(20) DEF InsertLog, At, AfterDetect, Locked, Detection, Step
<1>4. ASSUME NEW s \in Session, LoseRace(s) PROVE IInv'
  BY <1>4 DEF LoseRace, At, AfterDetect, Detection, Step
<1>5. ASSUME NEW s \in Session, NEW ms \in Stamp, PublishAlert(s, ms) PROVE IInv'
  <2> DEFINE m == [ms |-> ms, tx |-> work[s].tx]
  <2>1. work[s] \in Detection /\ m \in Message /\ m.tx = work[s].tx /\ m \in alertTopic'
    BY <1>5 DEF PublishAlert, At, Message, Detection
  <2> HIDE DEF m
  <2>2. (TypeOK /\ ProfileStays /\ RowOwnership /\ OneHolder /\ AnswersCommitted)'
    BY <1>5, <2>1 DEF PublishAlert, At, AfterDetect, Message, Detection, Step
  <2>3. AlertBeforeCommit'
    BY <1>5, <2>1 DEF PublishAlert, At, AfterDetect, Detection
  <2>4. AlertedVerdictPublished'
    BY <1>5 DEF PublishAlert
  <2>5. QED
    BY <2>2, <2>3, <2>4
<1>6. ASSUME NEW s \in Session, NEW ms \in Stamp, PublishUnconfirmed(s, ms) PROVE IInv'
  BY <1>6 DEF PublishUnconfirmed, At, Message, Detection, Step
<1>7. ASSUME NEW s \in Session, UpdateProfile(s) PROVE IInv'
  BY <1>7 DEF UpdateProfile, At, Detection, Step
<1>8. ASSUME NEW s \in Session, Commit(s) PROVE IInv'
  <2>1. work[s] \in Detection /\ work[s].step = "commit"
    BY <1>8 DEF Commit, At
  <2>2. /\ profile' \in ProfileRow \union {None}
        /\ profile # None => profile' # None
    BY <1>8, <2>1, CommittedProfileType DEF Commit
  <2> HIDE DEF ProfileStays, RowOwnership, OneHolder, AnswersCommitted,
               AlertBeforeCommit, AlertedVerdictPublished
  <2>3. /\ inferenceLog' \in [Tx -> Verdict \union {None}]
        /\ \A t \in Tx : inferenceLog[t] # None => inferenceLog'[t] = inferenceLog[t]
    BY <1>8, <2>1 DEF Commit, Detection, RowOwnership
  <2>4. work' \in [Session -> Detection \union {None}]
    BY <1>8, <2>1 DEF Commit, Detection, Step
  <2>5. TypeOK' /\ ProfileStays'
    BY <1>8, <2>1, <2>2, <2>3, <2>4 DEF Commit, ProfileStays
  <2>6. RowOwnership'
    <3>1. \A r \in Session : r # s => work'[r] = work[r]
      BY <1>8 DEF Commit
    <3>2. \A r \in Session : r # s /\ work[r] # None /\ work[r].owns /\ work[s].owns
                              => work[r].tx # work[s].tx
      BY <2>1 DEF OneHolder, Detection
    <3>3. work'[s] # None =>
            /\ work'[s].step = "reply" /\ ~ work'[s].owns
            /\ work'[s].tx = work[s].tx /\ work'[s].verdict = work[s].verdict
            /\ inferenceLog'[work[s].tx] = work[s].verdict
      BY <1>8, <2>1 DEF Commit, RowOwnership, Detection
    <3>4. QED
      BY <1>8, <2>1, <2>3, <2>4, <3>1, <3>2, <3>3
      DEF Commit, RowOwnership, Detection
  <2>7. OneHolder'
    BY <1>8, <2>1 DEF Commit, OneHolder
  <2>8. AnswersCommitted'
    BY <1>8, <2>3 DEF Commit, AnswersCommitted
  <2>9. AlertBeforeCommit'
    BY <1>8, <2>1 DEF Commit, AlertBeforeCommit
  <2>10. AlertedVerdictPublished'
    BY <1>8, <2>1 DEF Commit, AlertBeforeCommit, AlertedVerdictPublished
  <2>11. QED
    BY <2>5, <2>6, <2>7, <2>8, <2>9, <2>10
<1>9. ASSUME NEW s \in Session, Reply(s) PROVE IInv'
  BY <1>9 DEF Reply, At, Detection, Step
<1>10. ASSUME NEW s \in Session, Abort(s) PROVE IInv'
  BY <1>10 DEF Abort, Detection, Step
<1>11. ASSUME CreateProfile PROVE IInv'
  BY <1>11 DEF CreateProfile, FreshProfile, ProfileRow, Detection, Step
<1>12. ASSUME NEW c \in Consumer, NEW m \in alertTopic, ReadAlert(c, m) PROVE IInv'
  BY <1>12 DEF ReadAlert, Detection, Step
<1>13. ASSUME NEW c \in Consumer, SaveAlert(c) PROVE IInv'
  BY <1>13 DEF SaveAlert, Detection, Step
<1>14. ASSUME NEW c \in Consumer, DropAlert(c) PROVE IInv'
  BY <1>14 DEF DropAlert, Detection, Step
<1>15. ASSUME Crash PROVE IInv'
  BY <1>15 DEF Crash, Detection, Step
<1>16. CASE UNCHANGED vars
  BY <1>16 DEF vars
<1>17. QED
  BY <1>1, <1>2, <1>3, <1>4, <1>5, <1>6, <1>7, <1>8, <1>9, <1>10, <1>11, <1>12, <1>13, <1>14, <1>15, <1>16 DEF Next, Detect, HandleAlert

LEMMA IInvInit == Init => IInv
  BY PipelineAssumption
  DEF Init, IInv, TypeOK, ProfileStays, RowOwnership, OneHolder, AnswersCommitted,
      AlertBeforeCommit, AlertedVerdictPublished, FreshProfile, ProfileRow

THEOREM InvariantHolds == Spec => []IInv
  BY IInvInit, IInvStep, PTL DEF Spec

(* Every handler leaves rows, topics and sessions of the shape the code    *)
(* expects; no session ever answers with a missing row (the FOR SHARE read *)
(* of the winner, detector.py 177).                                        *)
THEOREM TypeCorrect == Spec => []TypeOK
  BY InvariantHolds, PTL DEF IInv

(* A committed HIGH verdict always has its alert on the topic, whatever    *)
(* fails: detect publishes before the commit and lets a failure undo it.   *)
THEOREM AlertedVerdictsArePublished == Spec => []AlertedVerdictPublished
  BY InvariantHolds, PTL DEF IInv

--------------------------------------------------------------------------------

(* Each step of the pipeline is a step of the abstract register or leaves  *)
(* it unchanged: only the holder of the unique key commits a verdict, and  *)
(* what is answered is what is stored.                                     *)
LEMMA RegisterStep == IInv /\ [Next]_vars => [Register!Next]_(Register!vars)
<1> SUFFICES ASSUME IInv, [Next]_vars PROVE [Register!Next]_(Register!vars)
  OBVIOUS
<1> USE DEF Register!vars
<1>1. ASSUME NEW s \in Session, Commit(s) PROVE [Register!Next]_(Register!vars)
  <2>1. work[s] \in Detection
    BY <1>1 DEF Commit, At, IInv, TypeOK
  <2>2. CASE work[s].owns
    <3>1. inferenceLog[work[s].tx] = None
      BY <1>1, <2>2 DEF Commit, At, IInv, RowOwnership
    <3>2. Register!Decide(work[s].tx, work[s].verdict)
      BY <1>1, <2>2, <3>1 DEF Commit, Register!Decide
    <3>3. QED
      BY <2>1, <3>2 DEF Register!Next, Detection
  <2>3. CASE ~ work[s].owns
    BY <1>1, <2>3 DEF Commit
  <2>4. QED
    BY <2>2, <2>3
<1>2. ASSUME NEW s \in Session, Reply(s) PROVE [Register!Next]_(Register!vars)
  <2>1. work[s] \in Detection
    BY <1>2 DEF Reply, At, IInv, TypeOK
  <2>2. inferenceLog[work[s].tx] = work[s].verdict
    BY <1>2, <2>1 DEF Reply, At, IInv, RowOwnership
  <2>3. Register!Answer(work[s].tx)
    BY <1>2, <2>1, <2>2, PipelineAssumption DEF Reply, Register!Answer, Detection
  <2>4. QED
    BY <2>1, <2>3 DEF Register!Next, Detection
<1>3. CASE UNCHANGED <<inferenceLog, answers>>
  BY <1>3
<1>4. QED
  BY <1>1, <1>2, <1>3
  DEF Next, Detect, HandleAlert, vars, FindVerdict, Score, InsertLog, LoseRace,
      PublishAlert, PublishUnconfirmed, UpdateProfile, Abort, CreateProfile,
      ReadAlert, SaveAlert, DropAlert, Crash

(* The pipeline implements the abstract register: a transaction gets one   *)
(* verdict, for good, and everybody asking is told that one.               *)
THEOREM VerdictOnceHolds == Spec => VerdictOnce
<1>1. Init => Register!Init
  BY DEF Init, Register!Init
<1>2. QED
  BY <1>1, RegisterStep, InvariantHolds, PTL DEF Spec, VerdictOnce, Register!Spec

--------------------------------------------------------------------------------
(* The counter and the log, for any number of consumer loops.              *)

Judged == {t \in Tx : inferenceLog[t] # None}

(* No snapshot holds a count beyond the log, a consumer alone folds, as    *)
(* the last thing before its commit, and updates what it has seen.         *)
CountView ==
  \A s \in Session : work[s] # None =>
    /\ s \notin Consumer => work[s].fold = "none" /\ work[s].step # "fold"
    /\ work[s].fold # "none" => work[s].step = "commit"
    /\ work[s].fold = "update" => work[s].snap # None
    /\ work[s].snap # None => work[s].snap.count <= Cardinality(Judged)

(* What a commit makes of the number of judged transactions: one more if   *)
(* the session inserted the row, and never none.                           *)
LEMMA JudgedGrows ==
  ASSUME IsFiniteSet(Tx), IInv, NEW s \in Session, Commit(s)
  PROVE  /\ Cardinality(Judged) \in Nat /\ Cardinality(Judged') \in Nat
         /\ Cardinality(Judged') =
              Cardinality(Judged) + (IF work[s].owns THEN 1 ELSE 0)
         /\ Cardinality(Judged') >= 1
<1>1. /\ work[s] \in Detection /\ work[s].step = "commit" /\ work[s].tx \in Tx
      /\ work[s].verdict \in Verdict /\ work[s].verdict # None
  BY PipelineAssumption DEF Commit, At, IInv, TypeOK, Detection
<1>2. /\ work[s].owns => inferenceLog[work[s].tx] = None
      /\ ~ work[s].owns => inferenceLog[work[s].tx] = work[s].verdict
  BY <1>1 DEF Commit, At, IInv, RowOwnership
<1>3. Judged' = IF work[s].owns THEN Judged \union {work[s].tx} ELSE Judged
  BY <1>1, <1>2 DEF Commit, Judged, IInv, TypeOK
<1>4. work[s].tx \in Judged' /\ (work[s].owns => work[s].tx \notin Judged)
  BY <1>1, <1>2, <1>3 DEF Judged
<1>5. /\ IsFiniteSet(Judged) /\ IsFiniteSet(Judged')
  <2>1. Judged \subseteq Tx /\ Judged' \subseteq Tx
    BY DEF Judged
  <2>2. QED
    BY <2>1, FS_Subset
<1>6. Cardinality(Judged) \in Nat /\ Cardinality(Judged') \in Nat
  BY <1>5, FS_CardinalityType
<1>7. Cardinality(Judged') = Cardinality(Judged) + (IF work[s].owns THEN 1 ELSE 0)
  BY <1>3, <1>4, <1>5, <1>6, FS_AddElement
<1>8. Cardinality(Judged') # 0
  BY <1>4, <1>5, FS_EmptySet
<1>9. QED
  BY <1>6, <1>7, <1>8

(* Of all steps only a commit can raise the counter or lengthen the log.   *)
LEMMA CountStep ==
  IsFiniteSet(Tx) /\ IInv /\ CountView /\ CountWithinLog /\ [Next]_vars
    => (CountView /\ CountWithinLog)'
<1> SUFFICES ASSUME IsFiniteSet(Tx), IInv, CountView, CountWithinLog, [Next]_vars
             PROVE  (CountView /\ CountWithinLog)'
  OBVIOUS
<1> DEFINE n == Cardinality(Judged)
<1>0. TypeOK
  BY DEF IInv
<1>1. profile # None => profile.count <= n
  BY DEF CountWithinLog, Judged
<1>2. n \in Nat
  <2>1. Judged \subseteq Tx
    BY DEF Judged
  <2>2. QED
    BY <2>1, FS_Subset, FS_CardinalityType
<1>3. ASSUME NEW s \in Session, Commit(s) PROVE (CountView /\ CountWithinLog)'
  <2>1. /\ n' \in Nat /\ n' >= 1
        /\ n' = n + (IF work[s].owns THEN 1 ELSE 0)
    BY <1>3, JudgedGrows
  <2>2. work[s] \in Detection /\ work[s].step = "commit" /\ work[s] # None
    BY <1>0, <1>3 DEF Commit, At, TypeOK
  <2> HIDE DEF n
  <2>3. profile' # None => profile'.count <= n'
    <3>1. profile' = ProfileAfter(work[s])
      BY <1>3 DEF Commit
    <3>2. CASE work[s].fold = "create"
      BY <2>1, <3>1, <3>2 DEF ProfileAfter
    <3>3. CASE work[s].fold # "create" /\ work[s].snap # None
      <4>1. work[s].snap.count \in Nat /\ work[s].snap.count <= n
        BY <2>2, <3>3 DEF CountView, n, Detection, ProfileRow
      <4>2. profile # None /\ profile.count \in Nat /\ profile.count <= n
        BY <1>0, <1>1, <2>2, <3>3 DEF IInv, ProfileStays, TypeOK, ProfileRow
      <4>3. CountedBy(work[s]) <= n'
        BY <2>1, <2>2, <4>1, <1>2 DEF CountedBy, Detection
      <4>4. profile'.count = IF CountedBy(work[s]) # work[s].snap.count
                               THEN CountedBy(work[s]) ELSE profile.count
        BY <3>1, <3>3 DEF ProfileAfter
      <4>5. profile.count <= n'
        BY <1>2, <2>1, <2>2, <4>2 DEF Detection
      <4>6. QED
        BY <4>3, <4>4, <4>5
    <3>4. CASE work[s].fold # "create" /\ work[s].snap = None
      <4>1. profile' = profile
        BY <3>1, <3>4 DEF ProfileAfter
      <4>2. profile # None => profile.count \in Nat
        BY <1>0 DEF TypeOK, ProfileRow
      <4>3. QED
        BY <1>1, <1>2, <2>1, <2>2, <4>1, <4>2 DEF Detection
    <3>5. QED
      BY <3>2, <3>3, <3>4
  <2>4. CountWithinLog'
    BY <2>3 DEF CountWithinLog, Judged, n
  <2>5. CountView'
    <3> SUFFICES ASSUME NEW r \in Session, work'[r] # None
                 PROVE  /\ r \notin Consumer => work'[r].fold = "none" /\ work'[r].step # "fold"
                        /\ work'[r].fold # "none" => work'[r].step = "commit"
                        /\ work'[r].fold = "update" => work'[r].snap # None
                        /\ work'[r].snap # None => work'[r].snap.count <= n'
      BY DEF CountView, n
    <3>1. n <= n'
      BY <1>2, <2>1, <2>2 DEF Detection
    <3>2. /\ work[r] # None /\ work[r] \in Detection
          /\ work'[r].fold = work[r].fold /\ work'[r].snap = work[r].snap
          /\ work'[r].step = work[r].step \/ (r \notin Consumer /\ work'[r].step = "reply")
      BY <1>0, <1>3, <2>2 DEF Commit, TypeOK, Detection
    <3>3. work[r].snap # None => work[r].snap.count \in Nat /\ work[r].snap.count <= n
      BY <3>2 DEF CountView, n, Detection, ProfileRow
    <3>4. work[r].snap # None => work[r].snap.count <= n'
      BY <1>2, <2>1, <3>1, <3>3
    <3>5. QED
      BY <3>2, <3>4 DEF CountView
  <2>6. QED
    BY <2>4, <2>5
<1> HIDE DEF n
<1>4. ASSUME CreateProfile PROVE (CountView /\ CountWithinLog)'
  <2>1. Judged' = Judged /\ profile'.count = 0 /\ work' = work
    BY <1>4 DEF CreateProfile, Judged, FreshProfile
  <2>2. QED
    BY <1>2, <2>1 DEF CountView, CountWithinLog, Judged, n
<1>5. ASSUME UNCHANGED <<inferenceLog, profile>>
      PROVE  CountWithinLog' /\ n' = n
  BY <1>5 DEF CountWithinLog, Judged, n
<1> DEFINE Fits(s) ==
      work'[s] # None =>
        /\ s \notin Consumer => work'[s].fold = "none" /\ work'[s].step # "fold"
        /\ work'[s].fold # "none" => work'[s].step = "commit"
        /\ work'[s].fold = "update" => work'[s].snap # None
        /\ work'[s].snap # None => work'[s].snap.count <= n
<1>6. ASSUME NEW s \in Session, UNCHANGED <<inferenceLog, profile>>,
             work' = [work EXCEPT ![s] = work'[s]], Fits(s)
      PROVE  (CountView /\ CountWithinLog)'
  <2>1. \A r \in Session : r # s => work'[r] = work[r]
    BY <1>0, <1>6 DEF TypeOK
  <2>2. \A r \in Session : Fits(r)
    BY <1>6, <2>1 DEF CountView, n
  <2>3. CountView'
    BY <1>5, <1>6, <2>2 DEF CountView, n
  <2>4. QED
    BY <1>5, <1>6, <2>3
<1> USE <1>0, <1>1 DEF TypeOK, CountView, n
<1>7. ASSUME NEW s \in Session, NEW t \in Tx, FindVerdict(s, t) PROVE (CountView /\ CountWithinLog)'
  BY <1>7, <1>6 DEF FindVerdict, Idle
<1>8. ASSUME NEW s \in Session, NEW t \in Tx, NEW v \in Verdict, Score(s, t, v) PROVE (CountView /\ CountWithinLog)'
  BY <1>8, <1>6 DEF Score, Idle
<1>9. ASSUME NEW s \in Session, InsertLog(s) PROVE (CountView /\ CountWithinLog)'
  BY <1>9, <1>6, SMTT(20) DEF InsertLog, At, AfterDetect, Detection
<1>10. ASSUME NEW s \in Session, LoseRace(s) PROVE (CountView /\ CountWithinLog)'
  BY <1>10, <1>6 DEF LoseRace, At, AfterDetect, Detection
<1>11. ASSUME NEW s \in Session, NEW ms \in Stamp, PublishAlert(s, ms) PROVE (CountView /\ CountWithinLog)'
  BY <1>11, <1>6, ZenonT(20) DEF PublishAlert, At, AfterDetect, Detection
<1>12. ASSUME NEW s \in Session, NEW ms \in Stamp, PublishUnconfirmed(s, ms) PROVE (CountView /\ CountWithinLog)'
  BY <1>12, <1>6 DEF PublishUnconfirmed, At
<1>13. ASSUME NEW s \in Session, UpdateProfile(s) PROVE (CountView /\ CountWithinLog)'
  BY <1>13, <1>6 DEF UpdateProfile, At, Detection
<1>14. ASSUME NEW s \in Session, Reply(s) PROVE (CountView /\ CountWithinLog)'
  BY <1>14, <1>6 DEF Reply, At
<1>15. ASSUME NEW s \in Session, Abort(s) PROVE (CountView /\ CountWithinLog)'
  BY <1>15, <1>6 DEF Abort
<1>16. ASSUME UNCHANGED <<inferenceLog, profile>>,
              work' = work \/ work' = [s \in Session |-> None]
       PROVE  (CountView /\ CountWithinLog)'
  BY <1>16, <1>5 DEF CountView, n
<1>17. QED
  BY <1>3, <1>4, <1>7, <1>8, <1>9, <1>10, <1>11, <1>12, <1>13, <1>14, <1>15, <1>16
  DEF Next, Detect, HandleAlert, ReadAlert, SaveAlert, DropAlert, Crash, vars

(* However sessions race, crash and lose counts, tx_count never exceeds    *)
(* the number of judged transactions (detector.py 379-381 and              *)
(* spending_service.py's already_counted).                                 *)
THEOREM CountWithinLogHolds == IsFiniteSet(Tx) => (Spec => []CountWithinLog)
<1> SUFFICES ASSUME IsFiniteSet(Tx) PROVE Spec => []CountWithinLog
  OBVIOUS
<1>1. Init => CountView /\ CountWithinLog
  <2> SUFFICES ASSUME Init PROVE CountView /\ CountWithinLog
    OBVIOUS
  <2>1. CountView
    BY DEF Init, CountView
  <2>2. Cardinality(Judged) \in Nat
    <3>1. Judged \subseteq Tx
      BY DEF Judged
    <3>2. QED
      BY <3>1, FS_Subset, FS_CardinalityType
  <2>3. CountWithinLog
    BY <2>2 DEF Init, CountWithinLog, Judged, FreshProfile
  <2>4. QED
    BY <2>1, <2>3
<1>2. IInv /\ CountView /\ CountWithinLog /\ [Next]_vars => (CountView /\ CountWithinLog)'
  BY CountStep
<1>3. QED
  BY <1>1, <1>2, InvariantHolds, PTL DEF Spec

--------------------------------------------------------------------------------
(* What holds because one consumer loop runs, as docker-compose deploys    *)
(* it.                                                                     *)

OneConsumer == \A c, d \in Consumer : c = d

(* While the consumer works on a transaction nobody else touches avg / std *)
(* or folds that transaction in.                                           *)
FoldView ==
  \A s \in Session : work[s] # None =>
    /\ s \notin Consumer => work[s].fold = "none" /\ work[s].step # "fold"
    /\ work[s].fold # "none" => work[s].step = "commit"
    /\ work[s].fold = "create" => profile = None
    /\ work[s].fold = "update" => work[s].snap # None
    /\ s \in Consumer /\ work[s].snap # None => work[s].snap.folded = profile.folded
    /\ s \in Consumer /\ profile # None => profile.folded[work[s].tx] = 0

LEMMA FoldStep ==
  OneConsumer /\ IInv /\ FoldView /\ FoldedOnce /\ [Next]_vars
    => (FoldView /\ FoldedOnce)'
<1> SUFFICES ASSUME OneConsumer, IInv, FoldView, FoldedOnce, [Next]_vars
             PROVE  (FoldView /\ FoldedOnce)'
  OBVIOUS
<1>0. TypeOK /\ ProfileStays /\ RowOwnership
  BY DEF IInv
<1> USE <1>0, PipelineAssumption
    DEF OneConsumer, FoldView, FoldedOnce, TypeOK, ProfileStays
<1>1. ASSUME NEW s \in Session, NEW t \in Tx, FindVerdict(s, t) PROVE (FoldView /\ FoldedOnce)'
  BY <1>1 DEF FindVerdict, Idle, Detection, Step, ProfileRow
<1>2. ASSUME NEW s \in Session, NEW t \in Tx, NEW v \in Verdict, Score(s, t, v) PROVE (FoldView /\ FoldedOnce)'
  BY <1>2 DEF Score, Idle, Detection, Step, ProfileRow
<1>3. ASSUME NEW s \in Session, InsertLog(s) PROVE (FoldView /\ FoldedOnce)'
  BY <1>3, SMTT(20) DEF InsertLog, At, AfterDetect, Detection, Step, ProfileRow
<1>4. ASSUME NEW s \in Session, LoseRace(s) PROVE (FoldView /\ FoldedOnce)'
  BY <1>4 DEF LoseRace, At, AfterDetect, Detection, Step, ProfileRow
<1>5. ASSUME NEW s \in Session, NEW ms \in Stamp, PublishAlert(s, ms) PROVE (FoldView /\ FoldedOnce)'
  BY <1>5 DEF PublishAlert, At, AfterDetect, Detection, Step, ProfileRow
<1>6. ASSUME NEW s \in Session, NEW ms \in Stamp, PublishUnconfirmed(s, ms) PROVE (FoldView /\ FoldedOnce)'
  BY <1>6 DEF PublishUnconfirmed, At, Detection, Step, ProfileRow
<1>7. ASSUME NEW s \in Session, UpdateProfile(s) PROVE (FoldView /\ FoldedOnce)'
  BY <1>7, SMTT(20) DEF UpdateProfile, At, Detection, Step, ProfileRow
<1>8. ASSUME NEW s \in Session, Commit(s) PROVE (FoldView /\ FoldedOnce)'
  BY <1>8 DEF Commit, At, ProfileAfter, RowOwnership, FreshProfile, ProfileRow, Detection, Step, ProfileRow
<1>9. ASSUME NEW s \in Session, Reply(s) PROVE (FoldView /\ FoldedOnce)'
  BY <1>9 DEF Reply, At, Detection, Step, ProfileRow
<1>10. ASSUME NEW s \in Session, Abort(s) PROVE (FoldView /\ FoldedOnce)'
  BY <1>10 DEF Abort, Detection, Step, ProfileRow
<1>11. ASSUME CreateProfile PROVE (FoldView /\ FoldedOnce)'
  BY <1>11 DEF CreateProfile, FreshProfile, ProfileLocked, Detection, Step, ProfileRow
<1>12. ASSUME NEW c \in Consumer, NEW m \in alertTopic, ReadAlert(c, m) PROVE (FoldView /\ FoldedOnce)'
  BY <1>12 DEF ReadAlert, Detection, Step, ProfileRow
<1>13. ASSUME NEW c \in Consumer, SaveAlert(c) PROVE (FoldView /\ FoldedOnce)'
  BY <1>13 DEF SaveAlert, Detection, Step, ProfileRow
<1>14. ASSUME NEW c \in Consumer, DropAlert(c) PROVE (FoldView /\ FoldedOnce)'
  BY <1>14 DEF DropAlert, Detection, Step, ProfileRow
<1>15. ASSUME Crash PROVE (FoldView /\ FoldedOnce)'
  BY <1>15 DEF Crash, Detection, Step, ProfileRow
<1>16. CASE UNCHANGED vars
  BY <1>16 DEF vars
<1>17. QED
  BY <1>1, <1>2, <1>3, <1>4, <1>5, <1>6, <1>7, <1>8, <1>9, <1>10, <1>11, <1>12, <1>13, <1>14, <1>15, <1>16 DEF Next, Detect, HandleAlert

(* With one consumer loop no transaction is folded into the profile twice, *)
(* nor without its verdict, through any redelivery, crash or race.         *)
THEOREM FoldedOnceHolds == OneConsumer => (Spec => []FoldedOnce)
<1> SUFFICES ASSUME OneConsumer PROVE Spec => []FoldedOnce
  OBVIOUS
<1>1. Init => FoldView /\ FoldedOnce
  BY DEF Init, FoldView, FoldedOnce, FreshProfile
<1>2. IInv /\ FoldView /\ FoldedOnce /\ [Next]_vars => (FoldView /\ FoldedOnce)'
  BY FoldStep
<1>3. QED
  BY <1>1, <1>2, InvariantHolds, PTL DEF Spec

(* The message a consumer is saving has no row yet, under its id.          *)
AlertView ==
  \A c \in Consumer : handling[c] # None =>
    \A n \in Message : n.ms = handling[c].ms => alertLog[n] = 0

(* With one consumer loop the read-then-insert of handle_fds_alert is      *)
(* enough: an alert id never gets two rows, though no index forbids it.    *)
THEOREM AlertRowOncePerMessageHolds ==
  OneConsumer => (Spec => []AlertRowOncePerMessage)
<1> SUFFICES ASSUME OneConsumer PROVE Spec => []AlertRowOncePerMessage
  OBVIOUS
<1> DEFINE Inv == AlertView /\ AlertRowOncePerMessage
<1>1. Init => Inv
  BY DEF Init, AlertView, AlertRowOncePerMessage
<1>2. TypeOK /\ Inv /\ [Next]_vars => Inv'
  <2> SUFFICES ASSUME TypeOK, Inv, [Next]_vars PROVE Inv'
    OBVIOUS
  <2> USE PipelineAssumption
      DEF OneConsumer, AlertView, AlertRowOncePerMessage, TypeOK, Message
  <2>1. ASSUME NEW c \in Consumer, NEW m \in alertTopic, ReadAlert(c, m) PROVE Inv'
    BY <2>1 DEF ReadAlert
  <2>2. ASSUME NEW c \in Consumer, SaveAlert(c) PROVE Inv'
    BY <2>2 DEF SaveAlert
  <2>3. ASSUME NEW c \in Consumer, DropAlert(c) PROVE Inv'
    BY <2>3 DEF DropAlert
  <2>4. CASE Crash
    BY <2>4 DEF Crash
  <2>5. CASE UNCHANGED <<alertLog, handling>>
    BY <2>5
  <2>6. QED
    BY <2>1, <2>2, <2>3, <2>4, <2>5
    DEF Next, Detect, HandleAlert, vars, FindVerdict, Score, InsertLog, LoseRace,
        PublishAlert, PublishUnconfirmed, UpdateProfile, Commit, Reply, Abort,
        CreateProfile
<1>3. QED
  BY <1>1, <1>2, TypeCorrect, PTL DEF Spec

--------------------------------------------------------------------------------
(* Where the two findings end: what must not happen for the documented     *)
(* behaviour to hold.                                                      *)

(* No detection is undone after its alert reached the topic.               *)
NothingWithdrawn ==
  \A m \in alertTopic : inferenceLog[m.tx] # None \/ Locked(m.tx)

(* A transaction has one message, of which all rows are made.              *)
AlertedOnce ==
  /\ \A m, n \in alertTopic : m.tx = n.tx => m = n
  /\ \A s \in Session : At(s, "publish") => \A m \in alertTopic : m.tx # work[s].tx
  /\ \A m \in Message : alertLog[m] > 0 => m \in alertTopic
  /\ \A c \in Consumer : handling[c] # None => handling[c] \in alertTopic

LEMMA AlertedOnceStep ==
  IInv /\ NothingWithdrawn /\ AlertedOnce /\ [Next]_vars => AlertedOnce'
<1> SUFFICES ASSUME IInv, NothingWithdrawn, AlertedOnce, [Next]_vars PROVE AlertedOnce'
  OBVIOUS
<1>0. TypeOK /\ RowOwnership /\ OneHolder
  BY DEF IInv
<1> USE <1>0 DEF AlertedOnce, TypeOK
<1>1. ASSUME NEW s \in Session, InsertLog(s) PROVE AlertedOnce'
  <2>1. \A m \in alertTopic : m.tx # work[s].tx
    BY <1>1 DEF InsertLog, NothingWithdrawn
  <2>2. QED
    BY <1>1, <2>1 DEF InsertLog, At
<1>2. ASSUME NEW s \in Session, NEW ms \in Stamp,
             PublishAlert(s, ms) \/ PublishUnconfirmed(s, ms)
      PROVE  AlertedOnce'
  <2> DEFINE new == [ms |-> ms, tx |-> work[s].tx]
  <2>1. /\ At(s, "publish") /\ new.tx = work[s].tx
        /\ alertTopic' = alertTopic \union {new}
        /\ UNCHANGED <<alertLog, handling>>
    BY <1>2 DEF PublishAlert, PublishUnconfirmed
  <2> HIDE DEF new
  <2>2. \A r \in Session : work'[r] # None /\ work'[r].step = "publish" =>
                            r # s /\ work'[r] = work[r]
    BY <1>2, <2>1 DEF PublishAlert, PublishUnconfirmed, At, AfterDetect, Detection
  <2>3. \A r \in Session : At(r, "publish") /\ r # s => work[r].tx # work[s].tx
    BY <2>1 DEF At, RowOwnership, OneHolder
  <2>4. \A r \in Session : At(r, "publish")' =>
          \A m \in alertTopic' : m.tx # work'[r].tx
    BY <2>1, <2>2, <2>3 DEF At
  <2>5. \A m, n \in alertTopic' : m.tx = n.tx => m = n
    BY <2>1
  <2>6. QED
    BY <2>1, <2>4, <2>5
<1>3. ASSUME UNCHANGED <<alertTopic, alertLog, handling>>,
             \A s \in Session : work'[s] # None /\ work'[s].step = "publish" =>
                                work'[s] = work[s]
      PROVE  AlertedOnce'
  BY <1>3 DEF At
<1>4. ASSUME NEW s \in Session,
             \/ \E t \in Tx : FindVerdict(s, t)
             \/ \E t \in Tx, v \in Verdict : Score(s, t, v)
             \/ LoseRace(s) \/ UpdateProfile(s) \/ Commit(s) \/ Reply(s) \/ Abort(s)
      PROVE  AlertedOnce'
  <2>1. UNCHANGED <<alertTopic, alertLog, handling>>
    BY <1>4 DEF FindVerdict, Score, LoseRace, UpdateProfile, Commit, Reply, Abort
  <2>2. \A r \in Session : r # s => work'[r] = work[r]
    BY <1>4 DEF FindVerdict, Score, LoseRace, UpdateProfile, Commit, Reply, Abort
  <2>3. work'[s] # None => work'[s].step # "publish"
    <3>1. CASE LoseRace(s) \/ UpdateProfile(s)
      BY <3>1 DEF LoseRace, UpdateProfile, AfterDetect, At, Detection
    <3>2. CASE Commit(s)
      BY <3>2 DEF Commit, At, Detection
    <3>3. CASE ~ (LoseRace(s) \/ UpdateProfile(s) \/ Commit(s))
      BY <1>4, <3>3 DEF FindVerdict, Score, Reply, Abort
    <3>4. QED
      BY <3>1, <3>2, <3>3
  <2>4. QED
    BY <1>3, <2>1, <2>2, <2>3
<1>5. ASSUME NEW c \in Consumer, HandleAlert(c) PROVE AlertedOnce'
  BY <1>5 DEF HandleAlert, ReadAlert, SaveAlert, DropAlert, At
<1>6. CASE CreateProfile \/ UNCHANGED vars
  BY <1>3, <1>6 DEF CreateProfile, vars
<1>7. CASE Crash
  BY <1>7 DEF Crash, At
<1>8. QED
  BY <1>1, <1>2, <1>4, <1>5, <1>6, <1>7 DEF Next, Detect

(* handle_fds_alert keeps its docstring's promise, one row per transaction *)
(* (consumer.py 74), unless a detection is undone after it published:      *)
(* neither races nor redelivery alone can break it.                        *)
THEOREM OneRowUnlessWithdrawn ==
  Spec /\ []NothingWithdrawn => []AlertRowOncePerTransaction
<1>1. Init => AlertedOnce
  BY DEF Init, AlertedOnce, At
<1>2. IInv /\ NothingWithdrawn /\ AlertedOnce /\ [Next]_vars => AlertedOnce'
  BY AlertedOnceStep
<1>3. AlertedOnce => AlertRowOncePerTransaction
  BY DEF AlertedOnce, AlertRowOncePerTransaction
<1>4. QED
  BY <1>1, <1>2, <1>3, InvariantHolds, PTL DEF Spec

(* A detection up to its commit, and no two of them at once.               *)
Detecting(s) == work[s] # None /\ work[s].step # "reply"

OneAtATime == \A r, s \in Session : Detecting(r) /\ Detecting(s) => r = s

(* The counter is the log's length, and so is the one a snapshot shows.    *)
CountCurrent ==
  /\ profile # None /\ profile.count = Cardinality(Judged)
  /\ \A s \in Session :
       Detecting(s) => work[s].snap = profile /\ work[s].fold # "create"

LEMMA CountCurrentStep ==
  IsFiniteSet(Tx) /\ IInv /\ OneAtATime /\ CountCurrent /\ [Next]_vars => CountCurrent'
<1> SUFFICES ASSUME IsFiniteSet(Tx), IInv, OneAtATime, CountCurrent, [Next]_vars
             PROVE  CountCurrent'
  OBVIOUS
<1>0. TypeOK
  BY DEF IInv
<1> USE <1>0 DEF TypeOK
<1>1. ASSUME NEW s \in Session, Commit(s) PROVE CountCurrent'
  <2> DEFINE n == Cardinality(Judged)
  <2>1. n' \in Nat /\ n' >= 1 /\ n' = n + (IF work[s].owns THEN 1 ELSE 0)
    BY <1>1, JudgedGrows
  <2>2. /\ work[s] \in Detection /\ Detecting(s) /\ profile \in ProfileRow
        /\ work[s].snap = profile /\ work[s].snap # None /\ work[s].fold # "create"
        /\ profile.count = n
    BY <1>1 DEF Commit, At, Detecting, CountCurrent
  <2> HIDE DEF n
  <2>3. profile.count \in Nat /\ work[s].owns \in BOOLEAN
    BY <2>2 DEF ProfileRow, Detection
  <2>4. CountedBy(work[s]) = n'
    BY <2>1, <2>2, <2>3 DEF CountedBy
  <2>5. profile'.count = n'
    <3>1. profile' = ProfileAfter(work[s])
      BY <1>1 DEF Commit
    <3>2. profile'.count = IF CountedBy(work[s]) # work[s].snap.count
                             THEN CountedBy(work[s]) ELSE profile.count
      BY <2>2, <3>1 DEF ProfileAfter
    <3>3. QED
      BY <2>2, <2>4, <3>2
  <2>6. profile' # None
    BY <1>1, <2>2, CommittedProfileType DEF Commit
  <2>7. \A r \in Session : ~ Detecting(r)'
    BY <1>1, <2>2 DEF Commit, Detecting, OneAtATime, Detection
  <2>8. QED
    BY <2>5, <2>6, <2>7 DEF CountCurrent, n
<1>2. ASSUME UNCHANGED <<inferenceLog, profile>>,
             \A s \in Session : Detecting(s)' =>
                work'[s].snap = profile /\ work'[s].fold # "create"
      PROVE  CountCurrent'
  BY <1>2 DEF CountCurrent, Judged
<1>3. ASSUME NEW s \in Session,
             \/ \E t \in Tx : FindVerdict(s, t)
             \/ \E t \in Tx, v \in Verdict : Score(s, t, v)
             \/ InsertLog(s) \/ LoseRace(s)
             \/ \E ms \in Stamp : PublishAlert(s, ms) \/ PublishUnconfirmed(s, ms)
             \/ Reply(s) \/ Abort(s)
      PROVE  CountCurrent'
  <2>1. UNCHANGED <<inferenceLog, profile>>
    BY <1>3 DEF FindVerdict, Score, InsertLog, LoseRace, PublishAlert,
       PublishUnconfirmed, Reply, Abort
  <2>2. \A r \in Session : r # s => work'[r] = work[r]
    BY <1>3 DEF FindVerdict, Score, InsertLog, LoseRace, PublishAlert,
       PublishUnconfirmed, Reply, Abort
  <2>3. work'[s] # None =>
          \/ work'[s].snap = profile /\ work'[s].fold = "none"
          \/ Detecting(s) /\ work'[s].snap = work[s].snap /\ work'[s].fold = work[s].fold
    BY <1>3 DEF FindVerdict, Score, InsertLog, LoseRace, PublishAlert,
       PublishUnconfirmed, Reply, Abort, At, Detecting, Detection
  <2>4. QED
    BY <1>2, <2>1, <2>2, <2>3 DEF CountCurrent, Detecting
<1>4. ASSUME NEW s \in Session, UpdateProfile(s) PROVE CountCurrent'
  BY <1>2, <1>4 DEF UpdateProfile, At, Detecting, CountCurrent, Detection
<1>5. ASSUME CreateProfile PROVE FALSE
  BY <1>5 DEF CreateProfile, CountCurrent
<1>6. CASE Crash
  BY <1>2, <1>6 DEF Crash, Detecting
<1>7. CASE UNCHANGED <<inferenceLog, profile, work>>
  BY <1>2, <1>7 DEF CountCurrent, Detecting
<1>8. QED
  BY <1>1, <1>3, <1>4, <1>5, <1>6, <1>7
  DEF Next, Detect, HandleAlert, ReadAlert, SaveAlert, DropAlert, vars

(* tx_count is what its description says, the number of transactions so    *)
(* far (README 706), for a user whose profile exists and whose detections  *)
(* never overlap before their commits: aborts, crashes, repeated requests  *)
(* and redelivery lose and double nothing (already_counted).               *)
THEOREM CountExactAlone ==
  IsFiniteSet(Tx) =>
    (profile # None /\ Spec /\ []OneAtATime => []CountIsTotal)
<1> SUFFICES ASSUME IsFiniteSet(Tx)
             PROVE  profile # None /\ Spec /\ []OneAtATime => []CountIsTotal
  OBVIOUS
<1>1. profile # None /\ Init => CountCurrent
  <2> SUFFICES ASSUME profile # None, Init PROVE CountCurrent
    OBVIOUS
  <2>1. Judged = {} /\ profile.count = 0
    BY DEF Init, Judged, FreshProfile
  <2>2. QED
    BY <2>1, FS_EmptySet DEF Init, CountCurrent, Detecting
<1>2. IInv /\ OneAtATime /\ CountCurrent /\ [Next]_vars => CountCurrent'
  BY CountCurrentStep
<1>3. CountCurrent => CountIsTotal
  BY DEF CountCurrent, CountIsTotal, Judged
<1>4. QED
  BY <1>1, <1>2, <1>3, InvariantHolds, PTL DEF Spec
================================================================================
