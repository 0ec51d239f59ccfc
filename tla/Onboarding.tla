------------------------------- MODULE Onboarding -------------------------------
(***************************************************************************)
(* One user's onboarding: the answers, which are the original, and the     *)
(* Future Profile row rebuilt from them at the end of every submit_answers *)
(* and submit_single_answer request. Two tabs or a client's retry make     *)
(* requests overlap, each in its own MySQL transaction.                    *)
(*                                                                         *)
(* A request reads in the snapshot of its first SELECT, plus what it wrote *)
(* itself; it holds the rows it wrote until it ends; an INSERT of a row    *)
(* that exists by then is refused and fails the request; an UPDATE writes  *)
(* the columns that differ from what the request read.                     *)
(***************************************************************************)
EXTENDS Naturals, FiniteSets

CONSTANTS
  Question,  \* the questions (TOTAL_QUESTIONS of them)
  Code,      \* answer codes
  Request,   \* concurrent submit requests
  None       \* no answer, no row, no request in progress

VARIABLES
  answers,   \* committed onboarding_answer rows: Question -> code or None
  profile,   \* committed future_profile row, or None
  work       \* the submission each request is in the middle of, or None

vars == <<answers, profile, work>>

Answers == [Question -> Code \union {None}]

(* The columns a rebuild writes: the answered count, the completion flag   *)
(* and what is copied or worded from the answers, here one field for each. *)
(* stamps counts the writes of completed_at.                               *)
Profile == [answered : Nat, completed : BOOLEAN, fields : Answers, stamps : Nat]

(* A bulk request answers several questions.                               *)
Submitted == UNION {[S -> Code] : S \in SUBSET Question \ {{}}}

Submission ==
  [asked   : Submitted,
   todo    : SUBSET Question,                \* not saved yet
   rebuilt : BOOLEAN,                        \* rebuild_profile done
   seen    : Answers,                        \* answers in its snapshot
   row     : Profile \union {None},          \* profile row in its snapshot
   alone   : BOOLEAN]                        \* overlapped no other request

ASSUME OnboardingAssumption ==
  /\ IsFiniteSet(Question)
  /\ None \notin Code /\ None \notin Profile /\ None \notin Submission

(* Rows and requests have the shape the code gives them.                   *)
TypeOK ==
  /\ answers \in Answers
  /\ profile \in Profile \union {None}
  /\ work \in [Request -> Submission \union {None}]

Init ==
  /\ answers = [q \in Question |-> None]
  /\ profile = None
  /\ work = [r \in Request |-> None]

--------------------------------------------------------------------------------

AnsweredIn(a) == {q \in Question : a[q] # None}

(* What a request sees: its snapshot with its own answers over it.         *)
Own(w) == [q \in Question |-> IF q \in DOMAIN w.asked THEN w.asked[q] ELSE w.seen[q]]

(* An unchanged answer is not written, and so not locked.                  *)
Writes(w) == {q \in DOMAIN w.asked : w.asked[q] # w.seen[q]}

HoldsAnswer(r, q) ==
  work[r] # None /\ q \in Writes(work[r]) \ work[r].todo

(* Faulty variant: the row's counter is advanced, as tx_count is.          *)
RebuiltByCounter(w) ==
  LET before == IF w.row = None THEN 0 ELSE w.row.answered
      count  == before + Cardinality(DOMAIN w.asked)
      done   == count >= Cardinality(Question)
      was    == w.row # None /\ w.row.completed
  IN  [answered  |-> count,
       completed |-> done,
       fields    |-> Own(w),
       stamps    |-> (IF w.row = None THEN 0 ELSE w.row.stamps)
                       + (IF done /\ ~ was THEN 1 ELSE 0)]

(* Faulty variant: the answers are read before the request's own are saved.*)
RebuiltEarly(w) ==
  LET done == \A q \in Question : w.seen[q] # None
      was  == w.row # None /\ w.row.completed
  IN  [answered  |-> Cardinality(AnsweredIn(w.seen)),
       completed |-> done,
       fields    |-> w.seen,
       stamps    |-> (IF w.row = None THEN 0 ELSE w.row.stamps)
                       + (IF done /\ ~ was THEN 1 ELSE 0)]

(* Faulty variant: only the columns of this request's answers are set.     *)
RebuiltPartly(w) ==
  LET done == \A q \in Question : Own(w)[q] # None
  IN  [answered  |-> Cardinality(AnsweredIn(Own(w))),
       completed |-> done,
       fields    |-> w.asked,
       stamps    |-> (IF w.row = None THEN 0 ELSE w.row.stamps) + (IF done THEN 1 ELSE 0)]

(* Faulty variant: completed_at is set by every rebuild of a complete row. *)
RebuiltRestamped(w) ==
  LET done == \A q \in Question : Own(w)[q] # None
  IN  [answered  |-> Cardinality(AnsweredIn(Own(w))),
       completed |-> done,
       fields    |-> Own(w),
       stamps    |-> (IF w.row = None THEN 0 ELSE w.row.stamps) + (IF done THEN 1 ELSE 0)]

(* rebuild_profile: everything again from the answers; completed_at only   *)
(* when the row was not complete before.                                   *)
Rebuilt(w) ==
  LET done == \A q \in Question : Own(w)[q] # None
      was  == w.row # None /\ w.row.completed
  IN  [answered  |-> Cardinality(AnsweredIn(Own(w))),
       completed |-> done,
       fields    |-> Own(w),
       stamps    |-> (IF w.row = None THEN 0 ELSE w.row.stamps)
                       + (IF done /\ ~ was THEN 1 ELSE 0)]

HoldsProfile(r) ==
  work[r] # None /\ work[r].rebuilt /\ work[r].row # Rebuilt(work[r])

(* The first SELECT. Whoever is in progress now overlaps.                  *)
Begin(r, asked) ==
  /\ work[r] = None
  /\ work' = [p \in Request |->
       IF p = r THEN [asked |-> asked, todo |-> DOMAIN asked, rebuilt |-> FALSE,
                      seen |-> answers, row |-> profile,
                      alone |-> \A o \in Request : work[o] = None]
       ELSE IF work[p] # None THEN [work[p] EXCEPT !.alone = FALSE]
       ELSE None]
  /\ UNCHANGED <<answers, profile>>

(* save_answer: insert, update or nothing to write. A written row must not *)
(* be held by another request, and an inserted one must not exist yet.     *)
SaveAnswer(r, q) ==
  /\ work[r] # None /\ q \in work[r].todo
  /\ q \in Writes(work[r]) =>
       /\ \A o \in Request \ {r} : ~ HoldsAnswer(o, q)
       /\ work[r].seen[q] = None => answers[q] = None
  /\ work' = [work EXCEPT ![r].todo = @ \ {q}]
  /\ UNCHANGED <<answers, profile>>

RebuildProfile(r) ==
  /\ work[r] # None /\ work[r].todo = {} /\ ~ work[r].rebuilt
  /\ work[r].row # Rebuilt(work[r]) =>
       /\ \A o \in Request \ {r} : ~ HoldsProfile(o)
       /\ work[r].row = None => profile = None
  /\ work' = [work EXCEPT ![r].rebuilt = TRUE]
  /\ UNCHANGED <<answers, profile>>

(* A column of the row the request found: written only if it changed.      *)
Column(new, read, now) == IF new # read THEN new ELSE now

(* Faulty variant: every column is written, changed or not.                *)
AllColumns(w) == Rebuilt(w)

(* The profile row after w commits, column by column.                      *)
ChangedColumns(w) ==
  LET new == Rebuilt(w)
  IN  IF w.row = None THEN new
      ELSE [answered  |-> Column(new.answered, w.row.answered, profile.answered),
            completed |-> Column(new.completed, w.row.completed, profile.completed),
            fields    |-> [q \in Question |->
                            Column(new.fields[q], w.row.fields[q], profile.fields[q])],
            stamps    |-> profile.stamps + (new.stamps - w.row.stamps)]

(* The endpoint returns, and get_db commits.                               *)
Commit(r) ==
  /\ work[r] # None /\ work[r].rebuilt
  /\ answers' = [q \in Question |-> IF q \in Writes(work[r]) THEN work[r].asked[q]
                                                            ELSE answers[q]]
  /\ profile' = ChangedColumns(work[r])
  /\ work' = [work EXCEPT ![r] = None]

(* 400 for an answer that is not a choice, a refused INSERT, a deadlock, a *)
(* failed metrics flush, a crash: the request's writes are undone.         *)
Abort(r) ==
  /\ work[r] # None
  /\ work' = [work EXCEPT ![r] = None]
  /\ UNCHANGED <<answers, profile>>

Submit(r) ==
  \/ \E asked \in Submitted : Begin(r, asked)
  \/ \E q \in Question : SaveAnswer(r, q)
  \/ RebuildProfile(r)
  \/ Commit(r)
  \/ Abort(r)

Next == \E r \in Request : Submit(r)

Spec == Init /\ [][Next]_vars

--------------------------------------------------------------------------------
(* Properties.                                                             *)

(* The profile says what the answers say.                                  *)
Mirrors ==
  /\ profile # None
  /\ profile.answered = Cardinality(AnsweredIn(answers))
  /\ profile.completed = (\A q \in Question : answers[q] # None)
  /\ profile.fields = answers

(* The completion flag is never confirmed before the answers: whoever      *)
(* overlaps and whatever is rolled back, a complete profile has every      *)
(* answer stored (models/onboarding.py, FutureProfile).                    *)
CompletedHasAnswers ==
  (profile # None /\ profile.completed) => \A q \in Question : answers[q] # None

(* Onboarding once complete stays complete, even when a request that read  *)
(* the profile before the last answer commits after it.                    *)
StaysCompleted ==
  [][(profile # None /\ profile.completed) => profile'.completed]_vars

(* The profile may lag behind the answers after requests overlap, never    *)
(* run ahead of them.                                                      *)
CountNotAhead ==
  profile # None => profile.answered <= Cardinality(AnsweredIn(answers))

(* A request that overlaps no other leaves the profile equal to the        *)
(* answers, whatever earlier overlaps did to it: rebuild_profile repairs.  *)
AloneRepairs ==
  [][\A r \in Request :
       (work[r] # None /\ work[r].alone /\ work[r].rebuilt /\ Commit(r)) => Mirrors']_vars

(* completed_at is the first moment of completion (onboarding_service.py   *)
(* 123-125), which the funnel counts (metrics_service.py 156). However     *)
(* requests overlap, the flag and the moment come in one commit; only an   *)
(* overlap can set it again: who re-answers alone keeps it.                *)
DatedOnce ==
  [][\A r \in Request : (work[r] # None /\ work[r].rebuilt /\ Commit(r)) =>
       /\ profile'.completed <=> profile'.stamps > 0
       /\ (work[r].alone /\ profile # None /\ profile.completed) =>
            profile'.stamps = profile.stamps]_vars

(* What rebuild_profile is called for after every change of the answers    *)
(* (onboarding_service.py 97-98): with no request in progress the profile  *)
(* says what the answers say.                                              *)
ProfileMirrorsAnswers ==
  (profile # None /\ \A r \in Request : work[r] = None) => Mirrors
=================================================================================
