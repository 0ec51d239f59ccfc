---------------------------- MODULE OnboardingProofs ----------------------------
(***************************************************************************)
(* Machine-checked proofs about Onboarding, for any finite set of          *)
(* questions and any number of overlapping requests.                       *)
(***************************************************************************)
EXTENDS Onboarding, FiniteSetTheorems, TLAPS

--------------------------------------------------------------------------------
(* The inductive invariant.                                                *)

(* Answers and the profile row are never deleted, so a snapshot is behind. *)
SnapshotBehind ==
  \A r \in Request : work[r] # None =>
    /\ \A q \in Question : work[r].seen[q] # None => answers[q] # None
    /\ work[r].row # None => profile # None

(* A snapshot shows a complete profile only together with all its answers. *)
SnapshotWhole ==
  \A r \in Request :
    (work[r] # None /\ work[r].row # None /\ work[r].row.completed) =>
      \A q \in Question : work[r].seen[q] # None

(* The unique key of future_profile: one open creator, and no row yet.     *)
OneCreator ==
  \A r \in Request :
    (work[r] # None /\ work[r].rebuilt /\ work[r].row = None) =>
      /\ profile = None
      /\ \A o \in Request :
           (work[o] # None /\ work[o].rebuilt /\ work[o].row = None) => o = r

(* A request that overlaps no other finds everything as it read it.        *)
AloneCurrent ==
  \A r \in Request : (work[r] # None /\ work[r].alone) =>
    /\ work[r].seen = answers /\ work[r].row = profile
    /\ \A o \in Request : work[o] # None => o = r

IInv ==
  /\ TypeOK
  /\ SnapshotBehind
  /\ SnapshotWhole
  /\ OneCreator
  /\ AloneCurrent
  /\ CompletedHasAnswers
  /\ CountNotAhead

--------------------------------------------------------------------------------

(* What a request sees of the answers is again a row of answers, and       *)
(* everything in its snapshot is answered in it.                           *)
LEMMA OwnType ==
  ASSUME NEW w \in Submission
  PROVE  /\ Own(w) \in Answers
         /\ \A q \in Question : w.seen[q] # None => Own(w)[q] # None
         /\ \A q \in DOMAIN w.asked : q \in Question /\ w.asked[q] \in Code
<1>1. PICK S \in SUBSET Question : w.asked \in [S -> Code]
  BY DEF Submission, Submitted
<1>2. w.seen \in [Question -> Code \union {None}]
  BY DEF Submission, Answers
<1>3. QED
  BY <1>1, <1>2, OnboardingAssumption DEF Own, Answers

(* Counting answered questions: a number, and monotone.                    *)
LEMMA AnsweredCount ==
  ASSUME NEW a, NEW b, \A q \in Question : a[q] # None => b[q] # None
  PROVE  /\ Cardinality(AnsweredIn(a)) \in Nat
         /\ Cardinality(AnsweredIn(a)) <= Cardinality(AnsweredIn(b))
<1>1. AnsweredIn(a) \subseteq Question /\ AnsweredIn(b) \subseteq Question
  BY DEF AnsweredIn
<1>2. IsFiniteSet(AnsweredIn(a)) /\ IsFiniteSet(AnsweredIn(b))
  BY <1>1, FS_Subset, OnboardingAssumption
<1>3. AnsweredIn(a) \subseteq AnsweredIn(b)
  BY DEF AnsweredIn
<1>4. QED
  BY <1>2, <1>3, FS_Subset, FS_CardinalityType

(* rebuild_profile builds a profile row.                                   *)
LEMMA RebuiltType ==
  ASSUME NEW w \in Submission
  PROVE  /\ Rebuilt(w) \in Profile
         /\ Rebuilt(w) # None
         /\ Rebuilt(w).answered = Cardinality(AnsweredIn(Own(w)))
         /\ Rebuilt(w).completed = (\A q \in Question : Own(w)[q] # None)
         /\ Rebuilt(w).fields = Own(w)
         /\ w.row # None => Rebuilt(w).stamps >= w.row.stamps
<1> DEFINE count == Cardinality(AnsweredIn(Own(w)))
           done == \A q \in Question : Own(w)[q] # None
           was == w.row # None /\ w.row.completed
           stamps == (IF w.row = None THEN 0 ELSE w.row.stamps) + (IF done /\ ~ was THEN 1 ELSE 0)
<1>1. count \in Nat
  BY AnsweredCount
<1>2. done \in BOOLEAN
  OBVIOUS
<1>3. stamps \in Nat /\ (w.row # None => stamps >= w.row.stamps)
  BY DEF Submission, Profile
<1>4. Own(w) \in Answers
  BY OwnType
<1>5. Rebuilt(w) = [answered |-> count, completed |-> done, fields |-> Own(w), stamps |-> stamps]
  BY DEF Rebuilt
<1> HIDE DEF count, done, stamps
<1>6. Rebuilt(w) \in Profile
  BY <1>1, <1>2, <1>3, <1>4, <1>5 DEF Profile
<1>7. /\ Rebuilt(w).answered = count /\ Rebuilt(w).completed = done
      /\ Rebuilt(w).fields = Own(w) /\ Rebuilt(w).stamps = stamps
  BY <1>5
<1>8. QED
  BY <1>3, <1>6, <1>7, OnboardingAssumption DEF count, done

(* What a commit does to the answers: everything the request saw or gave   *)
(* is answered afterwards, and nothing is unanswered again.                *)
LEMMA CommitAnswers ==
  ASSUME TypeOK, SnapshotBehind, NEW r \in Request, Commit(r)
  PROVE  /\ work[r] \in Submission
         /\ answers' \in Answers
         /\ \A q \in Question : answers[q] # None => answers'[q] # None
         /\ \A q \in Question : Own(work[r])[q] # None => answers'[q] # None
<1> DEFINE w == work[r]
<1>1. w \in Submission /\ answers \in Answers
  BY DEF Commit, TypeOK
<1>2. \A q \in DOMAIN w.asked : q \in Question /\ w.asked[q] \in Code
  BY <1>1, OwnType
<1>3. answers' = [q \in Question |-> IF q \in Writes(w) THEN w.asked[q] ELSE answers[q]]
  BY DEF Commit
<1>4. \A q \in Question : w.seen[q] # None => answers[q] # None
  BY DEF Commit, SnapshotBehind
<1> HIDE DEF w
<1>5. \A q \in Writes(w) : w.asked[q] \in Code
  BY <1>2 DEF Writes
<1>6. answers' \in Answers
  BY <1>1, <1>3, <1>5 DEF Answers
<1>7. \A q \in Question : answers[q] # None => answers'[q] # None
  BY <1>3, <1>5, OnboardingAssumption
<1>8. ASSUME NEW q \in Question, Own(w)[q] # None PROVE answers'[q] # None
  <2>1. CASE q \in Writes(w)
    BY <1>3, <1>5, <2>1, OnboardingAssumption
  <2>2. CASE q \notin Writes(w)
    <3>1. w.seen[q] # None
      BY <1>8, <2>2 DEF Own, Writes
    <3>2. QED
      BY <1>3, <1>4, <2>2, <3>1
  <2>3. QED
    BY <2>1, <2>2
<1>9. QED
  BY <1>1, <1>6, <1>7, <1>8 DEF w

(* What a commit does to the profile row: each column is the rebuilt one   *)
(* or the one already there.                                               *)
LEMMA CommitProfile ==
  ASSUME TypeOK, SnapshotBehind, NEW r \in Request, Commit(r)
  PROVE  LET new == Rebuilt(work[r])
         IN  /\ profile' \in Profile /\ profile' # None
             /\ work[r].row = None => profile' = new
             /\ work[r].row # None =>
                  /\ profile # None
                  /\ profile'.answered \in {new.answered, profile.answered}
                  /\ profile'.completed =
                       Column(new.completed, work[r].row.completed, profile.completed)
<1> DEFINE w == work[r]
           new == Rebuilt(w)
<1>1. w \in Submission /\ profile \in Profile \union {None}
  BY DEF Commit, TypeOK
<1>2. /\ new \in Profile /\ new # None
      /\ w.row # None => new.stamps >= w.row.stamps
  BY <1>1, RebuiltType
<1>3. profile' = ChangedColumns(w)
  BY DEF Commit
<1>4. w.row # None => profile # None
  BY DEF Commit, SnapshotBehind
<1>5. CASE w.row = None
  BY <1>2, <1>3, <1>5 DEF ChangedColumns
<1>6. CASE w.row # None
  <2> DEFINE answered == Column(new.answered, w.row.answered, profile.answered)
             completed == Column(new.completed, w.row.completed, profile.completed)
             fields == [q \in Question |->
                         Column(new.fields[q], w.row.fields[q], profile.fields[q])]
             stamps == profile.stamps + (new.stamps - w.row.stamps)
  <2>1. profile' = [answered |-> answered, completed |-> completed,
                    fields |-> fields, stamps |-> stamps]
    BY <1>3, <1>6 DEF ChangedColumns
  <2>2. profile \in Profile /\ w.row \in Profile
    BY <1>1, <1>4, <1>6 DEF Submission
  <2> HIDE DEF w, new
  <2>3. answered \in Nat /\ answered \in {new.answered, profile.answered}
    BY <1>2, <2>2 DEF Column, Profile
  <2>4. completed \in BOOLEAN
    BY <1>2, <2>2 DEF Column, Profile
  <2>5. fields \in Answers
    <3>1. new.fields \in Answers /\ profile.fields \in Answers
      BY <1>2, <2>2 DEF Profile
    <3>2. QED
      BY <3>1 DEF Column, Answers
  <2>6. stamps \in Nat
    BY <1>2, <1>6, <2>2 DEF Profile
  <2> HIDE DEF answered, completed, fields, stamps
  <2>7. profile' \in Profile
    BY <2>1, <2>3, <2>4, <2>5, <2>6 DEF Profile
  <2>8. profile'.answered = answered /\ profile'.completed = completed
    BY <2>1
  <2>9. QED
    BY <1>4, <1>6, <2>3, <2>7, <2>8, OnboardingAssumption DEF completed, new, w
<1>7. QED
  BY <1>5, <1>6, <1>2

(* Completion is never taken back: a request that saw it complete rebuilds *)
(* it complete, one that did not leaves the column or sets it.             *)
LEMMA CommitKeepsCompleted ==
  ASSUME IInv, NEW r \in Request, Commit(r), profile # None, profile.completed
  PROVE  profile'.completed
<1> DEFINE w == work[r]
           new == Rebuilt(w)
<1>1. TypeOK /\ SnapshotBehind /\ OneCreator /\ SnapshotWhole
  BY DEF IInv
<1>2. w \in Submission /\ work[r] # None /\ work[r].rebuilt
  BY <1>1 DEF TypeOK, Commit
<1>3. w.row # None
  BY <1>1, <1>2 DEF OneCreator
<1>4. profile'.completed = Column(new.completed, w.row.completed, profile.completed)
  BY <1>1, <1>3, CommitProfile
<1>5. w.row \in Profile /\ new \in Profile /\ profile \in Profile
  BY <1>1, <1>2, <1>3, RebuiltType DEF Submission, TypeOK
<1>6. w.row.completed \in BOOLEAN /\ new.completed \in BOOLEAN
  BY <1>5 DEF Profile
<1>7. CASE w.row.completed
  <2>1. \A q \in Question : w.seen[q] # None
    BY <1>1, <1>2, <1>3, <1>7 DEF SnapshotWhole
  <2>2. \A q \in Question : Own(w)[q] # None
    BY <1>2, <2>1, OwnType
  <2>3. new.completed = (\A q \in Question : Own(w)[q] # None)
    BY <1>2, RebuiltType
  <2>4. new.completed
    BY <2>2, <2>3
  <2> HIDE DEF new, w
  <2>5. QED
    BY <1>4, <2>4 DEF Column
<1>8. CASE ~ w.row.completed
  <2> HIDE DEF new, w
  <2>1. CASE new.completed = w.row.completed
    BY <1>4, <2>1 DEF Column
  <2>2. CASE new.completed # w.row.completed
    BY <1>4, <1>6, <1>8, <2>2 DEF Column
  <2>3. QED
    BY <2>1, <2>2
<1>9. QED
  BY <1>7, <1>8

(* A complete row has its answers stored by the commit that completes it.  *)
LEMMA CommitCompletedHasAnswers ==
  ASSUME IInv, NEW r \in Request, Commit(r)
  PROVE  CompletedHasAnswers' /\ CountNotAhead'
<1> DEFINE w == work[r]
           new == Rebuilt(w)
<1>1. TypeOK /\ SnapshotBehind /\ CompletedHasAnswers /\ CountNotAhead
  BY DEF IInv
<1>2. /\ w \in Submission
      /\ \A q \in Question : answers[q] # None => answers'[q] # None
      /\ \A q \in Question : Own(w)[q] # None => answers'[q] # None
  BY <1>1, CommitAnswers
<1>3. /\ new \in Profile
      /\ new.answered = Cardinality(AnsweredIn(Own(w)))
      /\ new.completed = (\A q \in Question : Own(w)[q] # None)
  BY <1>2, RebuiltType
<1>4. /\ w.row = None => profile' = new
      /\ w.row # None =>
           /\ profile # None
           /\ profile'.answered \in {new.answered, profile.answered}
           /\ profile'.completed = Column(new.completed, w.row.completed, profile.completed)
  BY <1>1, CommitProfile
<1>5. /\ Cardinality(AnsweredIn(Own(w))) <= Cardinality(AnsweredIn(answers'))
      /\ Cardinality(AnsweredIn(answers)) <= Cardinality(AnsweredIn(answers'))
      /\ Cardinality(AnsweredIn(answers)) \in Nat
      /\ Cardinality(AnsweredIn(answers')) \in Nat
  BY <1>2, AnsweredCount
<1> HIDE DEF w, new
<1>6. CompletedHasAnswers'
  <2> SUFFICES ASSUME profile'.completed PROVE \A q \in Question : answers'[q] # None
    BY DEF CompletedHasAnswers
  <2>1. new.completed \/ (profile # None /\ profile.completed)
    BY <1>4 DEF Column
  <2>2. CASE new.completed
    BY <1>2, <1>3, <2>2
  <2>3. CASE profile # None /\ profile.completed
    BY <1>1, <1>2, <2>3 DEF CompletedHasAnswers
  <2>4. QED
    BY <2>1, <2>2, <2>3
<1>7. CountNotAhead'
  <2>1. profile'.answered = new.answered \/ (profile # None /\ profile'.answered = profile.answered)
    BY <1>4
  <2>2. new.answered <= Cardinality(AnsweredIn(answers'))
    BY <1>3, <1>5
  <2>3. profile # None => profile.answered <= Cardinality(AnsweredIn(answers'))
    <3>1. profile # None => profile.answered \in Nat
      BY <1>1 DEF TypeOK, Profile
    <3>2. QED
      BY <1>1, <1>5, <3>1 DEF CountNotAhead
  <2>4. QED
    BY <2>1, <2>2, <2>3 DEF CountNotAhead
<1>8. QED
  BY <1>6, <1>7

LEMMA IInvInit == Init => IInv
  BY DEF Init, IInv, TypeOK, Answers, SnapshotBehind, SnapshotWhole, OneCreator, AloneCurrent,
         CompletedHasAnswers, CountNotAhead

(* Every step of every request preserves the inductive invariant.          *)
LEMMA IInvStep == IInv /\ [Next]_vars => IInv'
<1> SUFFICES ASSUME IInv, [Next]_vars PROVE IInv'
  OBVIOUS
<1>i. /\ TypeOK /\ SnapshotBehind /\ SnapshotWhole /\ OneCreator /\ AloneCurrent
      /\ CompletedHasAnswers /\ CountNotAhead
  BY DEF IInv
<1>1. ASSUME NEW r \in Request, NEW asked \in Submitted, Begin(r, asked) PROVE IInv'
  <2> DEFINE w == [asked |-> asked, todo |-> DOMAIN asked, rebuilt |-> FALSE,
                   seen |-> answers, row |-> profile,
                   alone |-> \A o \in Request : work[o] = None]
  <2>1. w \in Submission
    <3>1. DOMAIN asked \in SUBSET Question
      BY DEF Submitted
    <3>2. QED
      BY <1>i, <3>1 DEF Submission, TypeOK
  <2>2. /\ w.rebuilt = FALSE /\ w.seen = answers /\ w.row = profile
        /\ w.alone = (\A o \in Request : work[o] = None)
    OBVIOUS
  <2> HIDE DEF w
  <2>3. work' = [p \in Request |-> IF p = r THEN w
                  ELSE IF work[p] # None THEN [work[p] EXCEPT !.alone = FALSE] ELSE None]
    BY <1>1 DEF Begin, w
  <2>4. ASSUME NEW p \in Request, p # r, work[p] # None
        PROVE  /\ work'[p] \in Submission
               /\ work'[p].asked = work[p].asked /\ work'[p].seen = work[p].seen
               /\ work'[p].row = work[p].row /\ work'[p].rebuilt = work[p].rebuilt
               /\ work'[p].alone = FALSE
    <3>1. work[p] \in Submission
      BY <1>i, <2>4 DEF TypeOK
    <3>2. work'[p] = [work[p] EXCEPT !.alone = FALSE]
      BY <2>3, <2>4
    <3>3. QED
      BY <3>1, <3>2 DEF Submission
  <2>5. \A p \in Request : p # r /\ work[p] = None => work'[p] = None
    BY <2>3
  <2>6. work'[r] = w /\ answers' = answers /\ profile' = profile
    BY <1>1, <2>3 DEF Begin
  <2>7. work' \in [Request -> Submission \union {None}]
    <3>1. \A p \in Request : work'[p] \in Submission \union {None}
      BY <2>1, <2>4, <2>5, <2>6
    <3>2. QED
      BY <2>3, <3>1
  <2>8. TypeOK'
    BY <1>i, <2>6, <2>7 DEF TypeOK
  <2>9. SnapshotBehind' /\ SnapshotWhole'
    <3> SUFFICES ASSUME NEW p \in Request, work'[p] # None
                 PROVE  /\ \A q \in Question : work'[p].seen[q] # None => answers'[q] # None
                        /\ work'[p].row # None => profile' # None
                        /\ (work'[p].row # None /\ work'[p].row.completed) =>
                             \A q \in Question : work'[p].seen[q] # None
      BY DEF SnapshotBehind, SnapshotWhole
    <3>1. CASE p = r
      BY <1>i, <2>2, <2>6, <3>1 DEF CompletedHasAnswers
    <3>2. CASE p # r
      <4>1. work[p] # None
        BY <2>5, <3>2
      <4>2. work'[p].seen = work[p].seen /\ work'[p].row = work[p].row
        BY <2>4, <3>2, <4>1
      <4>3. QED
        BY <1>i, <2>6, <4>1, <4>2 DEF SnapshotBehind, SnapshotWhole
    <3>3. QED
      BY <3>1, <3>2
  <2>10. OneCreator'
    <3>1. ~ work'[r].rebuilt
      BY <2>2, <2>6
    <3>2. ASSUME NEW p \in Request, work'[p] # None, work'[p].rebuilt, work'[p].row = None
          PROVE  work[p] # None /\ work[p].rebuilt /\ work[p].row = None /\ p # r
      <4>1. p # r
        BY <3>1, <3>2
      <4>2. work[p] # None
        BY <2>5, <3>2, <4>1
      <4>3. QED
        BY <2>4, <3>2, <4>1, <4>2
    <3> DEFINE Creating(p) == work[p] # None /\ work[p].rebuilt /\ work[p].row = None
    <3>3. \A p \in Request : Creating(p)' => Creating(p)
      BY <3>2
    <3>4. \A p \in Request : Creating(p) =>
            profile = None /\ \A o \in Request : Creating(o) => o = p
      BY <1>i DEF OneCreator
    <3>5. \A p \in Request : Creating(p)' =>
            profile' = None /\ \A o \in Request : Creating(o)' => o = p
      <4> HIDE DEF Creating
      <4>1. QED
        BY <2>6, <3>3, <3>4
    <3>6. QED
      BY <3>5 DEF OneCreator
  <2>11. AloneCurrent'
    BY <1>i, <2>2, <2>4, <2>5, <2>6 DEF AloneCurrent
  <2>12. CompletedHasAnswers' /\ CountNotAhead'
    BY <1>i, <2>6 DEF CompletedHasAnswers, CountNotAhead
  <2>13. QED
    BY <2>8, <2>9, <2>10, <2>11, <2>12 DEF IInv
<1>2. ASSUME NEW r \in Request, NEW q \in Question, SaveAnswer(r, q) PROVE IInv'
  <2>1. /\ work[r] \in Submission /\ work' = [work EXCEPT ![r].todo = @ \ {q}]
        /\ answers' = answers /\ profile' = profile
    BY <1>2, <1>i DEF SaveAnswer, TypeOK
  <2>2. QED
    BY <1>i, <2>1, OnboardingAssumption
       DEF IInv, TypeOK, Submission, SnapshotBehind, SnapshotWhole, OneCreator, AloneCurrent,
           CompletedHasAnswers, CountNotAhead
<1>3. ASSUME NEW r \in Request, RebuildProfile(r) PROVE IInv'
  <2>1. /\ work[r] \in Submission /\ work' = [work EXCEPT ![r].rebuilt = TRUE]
        /\ answers' = answers /\ profile' = profile
    BY <1>3, <1>i DEF RebuildProfile, TypeOK
  <2>2. (TypeOK /\ SnapshotBehind /\ SnapshotWhole /\ AloneCurrent
          /\ CompletedHasAnswers /\ CountNotAhead)'
    BY <1>i, <2>1, OnboardingAssumption, ZenonT(30)
       DEF TypeOK, Submission, SnapshotBehind, SnapshotWhole, AloneCurrent,
           CompletedHasAnswers, CountNotAhead
  <2>3. OneCreator'
    <3>1. \A o \in Request : work[o] # None => Rebuilt(work[o]) # None
      BY <1>i, RebuiltType DEF TypeOK
    <3>2. work[r].row = None =>
            /\ profile = None
            /\ \A o \in Request \ {r} :
                 ~ (work[o] # None /\ work[o].rebuilt /\ work[o].row = None)
      BY <1>3, <2>1, <3>1, OnboardingAssumption DEF RebuildProfile, HoldsProfile
    <3>3. /\ \A o \in Request \ {r} : work'[o] = work[o]
          /\ work'[r].row = work[r].row
      BY <1>i, <2>1 DEF TypeOK, Submission
    <3>4. QED
      BY <1>i, <2>1, <3>2, <3>3 DEF OneCreator
  <2>4. QED
    BY <2>2, <2>3 DEF IInv
<1>4. ASSUME NEW r \in Request, Commit(r) PROVE IInv'
  <2>1. /\ \A o \in Request \ {r} : work'[o] = work[o]
        /\ work'[r] = None
        /\ work[r] # None /\ work[r].rebuilt
    BY <1>i, <1>4 DEF Commit, TypeOK
  <2>2. /\ answers' \in Answers
        /\ \A q \in Question : answers[q] # None => answers'[q] # None
    BY <1>i, <1>4, CommitAnswers
  <2>3. profile' \in Profile /\ profile' # None
    BY <1>i, <1>4, CommitProfile
  <2>4. TypeOK'
    BY <1>i, <1>4, <2>2, <2>3 DEF TypeOK, Commit
  <2>5. SnapshotBehind' /\ SnapshotWhole'
    BY <1>i, <2>1, <2>2, <2>3 DEF SnapshotBehind, SnapshotWhole
  <2>6. OneCreator'
    BY <1>i, <2>1 DEF OneCreator, SnapshotBehind
  <2>7. AloneCurrent'
    BY <1>i, <2>1 DEF AloneCurrent
  <2>8. CompletedHasAnswers' /\ CountNotAhead'
    BY <1>4, CommitCompletedHasAnswers
  <2>9. QED
    BY <2>4, <2>5, <2>6, <2>7, <2>8 DEF IInv
<1>5. ASSUME NEW r \in Request, Abort(r) PROVE IInv'
  <2>1. /\ work' = [work EXCEPT ![r] = None] /\ answers' = answers /\ profile' = profile
    BY <1>5 DEF Abort
  <2>2. QED
    BY <1>i, <2>1
       DEF IInv, TypeOK, SnapshotBehind, SnapshotWhole, OneCreator, AloneCurrent,
           CompletedHasAnswers, CountNotAhead
<1>6. CASE UNCHANGED vars
  BY <1>i, <1>6
     DEF vars, IInv, TypeOK, SnapshotBehind, SnapshotWhole, OneCreator, AloneCurrent,
         CompletedHasAnswers, CountNotAhead
<1>7. QED
  BY <1>1, <1>2, <1>3, <1>4, <1>5, <1>6 DEF Next, Submit

THEOREM InvariantHolds == Spec => []IInv
  BY IInvInit, IInvStep, PTL DEF Spec

(* Rows and requests keep their shape.                                     *)
THEOREM TypeCorrect == Spec => []TypeOK
<1>1. IInv => TypeOK
  BY DEF IInv
<1>2. QED
  BY <1>1, InvariantHolds, PTL

(* A complete profile always has every answer stored.                      *)
THEOREM CompletedHasAnswersHolds == Spec => []CompletedHasAnswers
<1>1. IInv => CompletedHasAnswers
  BY DEF IInv
<1>2. QED
  BY <1>1, InvariantHolds, PTL

(* The answered count never runs ahead of the answers.                     *)
THEOREM CountNotAheadHolds == Spec => []CountNotAhead
<1>1. IInv => CountNotAhead
  BY DEF IInv
<1>2. QED
  BY <1>1, InvariantHolds, PTL

(* Onboarding once complete stays complete.                                *)
THEOREM StaysCompletedHolds == Spec => StaysCompleted
<1>1. IInv /\ [Next]_vars => [(profile # None /\ profile.completed) => profile'.completed]_vars
  <2> SUFFICES ASSUME IInv, [Next]_vars, profile # None, profile.completed
               PROVE  profile'.completed
    OBVIOUS
  <2>1. ASSUME NEW r \in Request, Commit(r) PROVE profile'.completed
    BY <2>1, CommitKeepsCompleted
  <2>2. (\A r \in Request : ~ Commit(r)) => profile' = profile
    BY DEF Next, Submit, Begin, SaveAnswer, RebuildProfile, Abort, vars
  <2>3. QED
    BY <2>1, <2>2
<1>2. QED
  BY <1>1, InvariantHolds, PTL DEF Spec, StaysCompleted

(* Alone, a request leaves the answers and the profile agreeing.           *)
LEMMA AloneMirrors ==
  ASSUME IInv, NEW r \in Request, Commit(r), work[r].alone
  PROVE  Mirrors'
<1> DEFINE w == work[r]
           new == Rebuilt(w)
<1>1. w \in Submission /\ w.seen = answers /\ w.row = profile
  BY DEF IInv, TypeOK, AloneCurrent, Commit
<1>2. /\ new \in Profile
      /\ new.answered = Cardinality(AnsweredIn(Own(w)))
      /\ new.completed = (\A q \in Question : Own(w)[q] # None)
      /\ new.fields = Own(w)
      /\ Own(w) \in Answers
  BY <1>1, RebuiltType, OwnType
<1>3. answers' = [q \in Question |-> IF q \in Writes(w) THEN w.asked[q] ELSE answers[q]]
  BY DEF Commit
<1>4. answers' = Own(w)
  <2>1. \A q \in Question : (IF q \in Writes(w) THEN w.asked[q] ELSE answers[q]) = Own(w)[q]
    BY <1>1 DEF Own, Writes
  <2>2. Own(w) = [q \in Question |-> Own(w)[q]]
    BY DEF Own
  <2>3. QED
    BY <1>3, <2>1, <2>2
<1>5. profile' = ChangedColumns(w)
  BY DEF Commit
<1>6. /\ profile' # None
      /\ profile'.answered = new.answered
      /\ profile'.completed = new.completed
      /\ profile'.fields = new.fields
  <2>1. profile' # None
    BY CommitProfile DEF IInv
  <2>2. CASE w.row = None
    BY <1>5, <2>1, <2>2 DEF ChangedColumns
  <2>3. CASE w.row # None
    <3> DEFINE fields == [q \in Question |->
                            Column(new.fields[q], w.row.fields[q], profile.fields[q])]
               stamps == profile.stamps + (new.stamps - w.row.stamps)
    <3>1. profile' = [answered  |-> Column(new.answered, w.row.answered, profile.answered),
                      completed |-> Column(new.completed, w.row.completed, profile.completed),
                      fields    |-> fields, stamps |-> stamps]
      BY <1>5, <2>3 DEF ChangedColumns
    <3>2. \A a, b : Column(a, b, b) = a
      BY DEF Column
    <3> HIDE DEF w, new
    <3>3. fields = [q \in Question |-> new.fields[q]]
      BY <1>1, <3>2
    <3>4. fields = new.fields
      BY <1>2, <3>3 DEF Answers
    <3> HIDE DEF fields, stamps
    <3>5. QED
      BY <1>1, <2>1, <3>1, <3>2, <3>4
  <2>4. QED
    BY <2>2, <2>3
<1> HIDE DEF w, new
<1>7. QED
  BY <1>2, <1>4, <1>6 DEF Mirrors

(* The next request that overlaps no other repairs the profile.            *)
THEOREM AloneRepairsHolds == Spec => AloneRepairs
<1>1. IInv => [\A r \in Request :
         (work[r] # None /\ work[r].alone /\ work[r].rebuilt /\ Commit(r)) => Mirrors']_vars
  BY AloneMirrors
<1>2. QED
  BY <1>1, InvariantHolds, PTL DEF AloneRepairs
--------------------------------------------------------------------------------
(* The moment of completion.                                               *)

(* A profile row has a moment of completion exactly when it is complete.   *)
Dated == profile # None => (profile.completed <=> profile.stamps > 0)

(* A rebuild sets the moment once more exactly when it completes the row.  *)
LEMMA RebuiltStamps ==
  ASSUME NEW w \in Submission
  PROVE  LET new == Rebuilt(w)
         IN  /\ w.row = None => new.stamps = (IF new.completed THEN 1 ELSE 0)
             /\ w.row # None =>
                  new.stamps = w.row.stamps
                                 + (IF new.completed /\ ~ w.row.completed THEN 1 ELSE 0)
<1> DEFINE new == Rebuilt(w)
           done == \A q \in Question : Own(w)[q] # None
           was == w.row # None /\ w.row.completed
<1>1. /\ new.completed = done
      /\ new.stamps = (IF w.row = None THEN 0 ELSE w.row.stamps)
                         + (IF done /\ ~ was THEN 1 ELSE 0)
  BY DEF Rebuilt
<1> HIDE DEF new, done
<1>2. QED
  BY <1>1 DEF new

(* A commit keeps the moment and the flag together: whoever sets the flag  *)
(* adds the moment, and whoever does not, leaves both.                     *)
LEMMA CommitDated ==
  ASSUME IInv, Dated, NEW r \in Request, Commit(r)
  PROVE  /\ profile' # None
         /\ profile'.completed <=> profile'.stamps > 0
         /\ (work[r].alone /\ profile # None /\ profile.completed) =>
              profile'.stamps = profile.stamps
<1> DEFINE w == work[r]
           new == Rebuilt(w)
           step == IF new.completed /\ ~ w.row.completed THEN 1 ELSE 0
<1>1. /\ TypeOK /\ SnapshotBehind /\ OneCreator /\ SnapshotWhole /\ AloneCurrent
      /\ w \in Submission /\ w # None /\ w.rebuilt
  BY DEF IInv, TypeOK, Commit
<1>2. /\ new \in Profile /\ profile' # None
      /\ w.row = None => profile' = new
      /\ w.row # None =>
           /\ profile # None
           /\ profile'.completed = Column(new.completed, w.row.completed, profile.completed)
  BY <1>1, RebuiltType, CommitProfile
<1>3. CASE w.row = None
  <2>1. new.stamps = (IF new.completed THEN 1 ELSE 0)
    BY <1>1, <1>3, RebuiltStamps
  <2>2. profile = None
    BY <1>1, <1>3 DEF OneCreator
  <2> HIDE DEF w, new
  <2>3. QED
    BY <1>2, <1>3, <2>1, <2>2
<1>4. CASE w.row # None
  <2>1. /\ w.row \in Profile /\ profile \in Profile
        /\ profile.completed <=> profile.stamps > 0
    BY <1>1, <1>2, <1>4 DEF Submission, TypeOK, Dated
  <2>2. /\ w.row.completed \in BOOLEAN /\ new.completed \in BOOLEAN
        /\ profile.completed \in BOOLEAN
        /\ w.row.stamps \in Nat /\ new.stamps \in Nat /\ profile.stamps \in Nat
    BY <1>2, <2>1 DEF Profile
  <2>3. profile'.stamps = profile.stamps + (new.stamps - w.row.stamps)
    <3>1. profile' = ChangedColumns(w)
      BY DEF Commit
    <3> HIDE DEF w, new
    <3>2. QED
      BY <3>1, <1>4 DEF ChangedColumns, new
  <2>4. new.stamps = w.row.stamps + step
    BY <1>1, <1>4, RebuiltStamps
  <2>5. w.row.completed => new.completed
    <3> SUFFICES ASSUME w.row.completed PROVE \A q \in Question : Own(w)[q] # None
      BY <1>1, RebuiltType
    <3>1. \A q \in Question : w.seen[q] # None
      BY <1>1, <1>4 DEF SnapshotWhole
    <3>2. QED
      BY <1>1, <3>1, OwnType
  <2>6. (profile.completed) => profile'.completed
    BY <1>2, <1>4, CommitKeepsCompleted
  <2>7. w.alone => w.row = profile
    BY <1>1 DEF AloneCurrent
  <2>8. step \in {0, 1} /\ (step = 1 <=> (new.completed /\ ~ w.row.completed))
    OBVIOUS
  <2> HIDE DEF w, new, step
  <2>9. profile'.stamps = profile.stamps + step
    BY <2>2, <2>3, <2>4, <2>8
  <2>10. profile'.completed <=> (profile.completed \/ step = 1)
    <3>1. CASE new.completed # w.row.completed
      BY <1>2, <1>4, <2>2, <2>5, <2>8, <3>1 DEF Column
    <3>2. CASE new.completed = w.row.completed
      BY <1>2, <1>4, <2>2, <2>8, <3>2 DEF Column
    <3>3. QED
      BY <3>1, <3>2
  <2>11. profile'.completed <=> profile'.stamps > 0
    BY <2>1, <2>2, <2>8, <2>9, <2>10
  <2>12. (w.alone /\ profile.completed) => profile'.stamps = profile.stamps
    BY <2>2, <2>7, <2>8, <2>9
  <2>13. QED
    BY <1>2, <2>11, <2>12 DEF w
<1>5. QED
  BY <1>3, <1>4

(* Only a commit changes the profile row.                                  *)
LEMMA DatedStep == IInv /\ Dated /\ [Next]_vars => Dated'
<1> SUFFICES ASSUME IInv, Dated, [Next]_vars PROVE Dated'
  OBVIOUS
<1>1. ASSUME NEW r \in Request, Commit(r) PROVE Dated'
  BY <1>1, CommitDated DEF Dated
<1>2. (\A r \in Request : ~ Commit(r)) => profile' = profile
  BY DEF Next, Submit, Begin, SaveAnswer, RebuildProfile, Abort, vars
<1>3. QED
  BY <1>1, <1>2 DEF Dated

(* The flag and the moment of completion come in one commit, and who       *)
(* re-answers alone leaves the moment.                                     *)
THEOREM DatedOnceHolds == Spec => DatedOnce
<1>1. Init => Dated
  BY DEF Init, Dated
<1>2. IInv /\ Dated => [\A r \in Request : (work[r] # None /\ work[r].rebuilt /\ Commit(r)) =>
         /\ profile'.completed <=> profile'.stamps > 0
         /\ (work[r].alone /\ profile # None /\ profile.completed) =>
              profile'.stamps = profile.stamps]_vars
  BY CommitDated
<1>3. QED
  BY <1>1, <1>2, DatedStep, InvariantHolds, PTL DEF Spec, DatedOnce
================================================================================
