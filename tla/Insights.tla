-------------------------------- MODULE Insights --------------------------------
(***************************************************************************)
(* One user's semester and one of its months, as the semester report and   *)
(* Money Recap read them: the rows other parts of the service write, in    *)
(* whatever order they come, and the blacklist.                            *)
(*                                                                         *)
(* Report and recap are computed when asked for, out of one snapshot, and  *)
(* stored nowhere, so they are functions of the state.                     *)
(***************************************************************************)
EXTENDS SemesterReport, MoneyRecap

CONSTANTS
  Day,        \* dates of the semester
  Limit,      \* daily limits that can be calculated
  Event,      \* academic events: records of days and exam
  Rev,        \* revisions of the month's aggregates
  Published,  \* what Asset says in each: category -> amount
  Spent,      \* and of the whole month: their sum
  Entry,      \* blacklist entries
  MinTx,      \* MIN_TX_FOR_NICKNAME
  None,       \* no row, no release in progress
  Steps       \* bound: how much happens

VARIABLES
  days,       \* ai_analysis_log by date: number and sum of the daily limits
  events,     \* academic_schedule
  log,        \* fds_inference_log of the semester, by level
  inMonth,    \* its transactions that occurred in the month
  monthly,    \* monthly_cashflow of the month, or None
  categories, \* category_cashflow of the month: category -> row or None
  blacklist,  \* fds_blacklist: entry -> "none", "active" or "released"
  releasing,  \* a release before its commit, or None
  viewed,     \* whether feature_event has a RECAP_VIEW of the month
  steps

semester == <<days, events>>
detections == <<log, inMonth>>
month == <<monthly, categories, viewed>>
listing == <<blacklist, releasing>>
vars == <<semester, detections, month, listing, steps>>

Category == UNION {DOMAIN Published[r] : r \in Rev}

ASSUME InsightsAssumption ==
  /\ IsFiniteSet(Day) /\ Limit \subseteq Nat /\ Rev \subseteq Nat
  /\ MinTx \in Nat /\ Steps \in Nat
  /\ \A r \in Rev : /\ IsFiniteSet(DOMAIN Published[r])
                    /\ Published[r] \in [DOMAIN Published[r] -> Nat]
                    /\ Spent[r] = Sum(Published[r], DOMAIN Published[r])
  /\ \A e \in Event : e.days \subseteq Day /\ e.exam \in BOOLEAN
  /\ None \notin [rev : Rev, amount : Nat]
  /\ None \notin [seen : SUBSET Entry, alone : BOOLEAN]

--------------------------------------------------------------------------------

Init ==
  /\ days = [d \in Day |-> [count |-> 0, total |-> 0]]
  /\ events = {}
  /\ log = [l \in Levels |-> 0] /\ inMonth = 0
  /\ monthly = None /\ categories = [k \in Category |-> None]
  /\ blacklist = [b \in Entry |-> "none"] /\ releasing = None
  /\ viewed = FALSE
  /\ steps = 0

Step == steps < Steps /\ steps' = steps + 1

(* calculate_daily_limit stores a row each time it is asked.               *)
Calculate(d, limit) ==
  /\ Step
  /\ days' = [days EXCEPT ![d] = [count |-> @.count + 1, total |-> @.total + limit]]
  /\ UNCHANGED <<events, detections, month, listing>>

(* An event of a kind the report looks at, whole within the semester.      *)
Plan(e) ==
  /\ Step
  /\ e \notin events
  /\ events' = events \union {e}
  /\ UNCHANGED <<days, detections, month, listing>>

(* A verdict's row. By REST it has no moment of occurrence, and a late     *)
(* event may have occurred in another month.                               *)
Detect(level, occurredInMonth) ==
  /\ Step
  /\ log' = [log EXCEPT ![level] = @ + 1]
  /\ inMonth' = IF occurredInMonth THEN inMonth + 1 ELSE inMonth
  /\ UNCHANGED <<semester, month, listing>>

(* The month's rows, stored as Cashflow shows the consumers to store them. *)
Month == INSTANCE MonthRegister WITH
  Totals <- {[rev |-> r, amount |-> Spent[r]] : r \in Rev},
  Shares <- {[rev |-> r, amounts |-> Published[r]] : r \in Rev}

(* Faulty variant: the row is made before its amount is known.             *)
StoreMonthlyEmpty(r) ==
  /\ Step
  /\ Month!Newer(monthly, r)
  /\ monthly' = [rev |-> r, amount |-> None]
  /\ UNCHANGED <<semester, detections, categories, viewed, listing>>

StoreMonthly(r) ==
  /\ Step
  /\ Month!StoreTotal([rev |-> r, amount |-> Spent[r]])
  /\ UNCHANGED <<semester, detections, viewed, listing>>

StoreCategories(r) ==
  /\ Step
  /\ Month!StoreShares([rev |-> r, amounts |-> Published[r]])
  /\ UNCHANGED <<semester, detections, viewed, listing>>

(* One feature_event of the user, the feature and the month.               *)
RecordView == viewed' = TRUE

(* GET recap: 404 without a monthly row; else the view is recorded. That   *)
(* it can be recorded again is left out.                                   *)
ViewRecap ==
  /\ Step
  /\ monthly # None /\ ~ viewed
  /\ RecordView
  /\ UNCHANGED <<semester, detections, monthly, categories, listing>>

--------------------------------------------------------------------------------
(* The blacklist: no unique key, so a user may be entered twice.           *)

Active == {b \in Entry : blacklist[b] = "active"}
Listed == \E b \in Entry : blacklist[b] # "none"

(* get_blacklist_status reads at most one row: with two it raises, REST    *)
(* answers 500 and gRPC INTERNAL.                                          *)
Check == IF Active = {} THEN "clear" ELSE IF Cardinality(Active) = 1 THEN "blocked" ELSE "error"

RegisterBlacklist(b) ==
  /\ Step
  /\ blacklist[b] = "none"
  /\ blacklist' = [blacklist EXCEPT ![b] = "active"]
  /\ releasing' = IF releasing = None THEN None ELSE [releasing EXCEPT !.alone = FALSE]
  /\ UNCHANGED <<semester, detections, month>>

(* Faulty variant: one row is looked for.                                  *)
BeginReleaseOfOne ==
  /\ releasing = None /\ Active # {}
  /\ \E b \in Active : releasing' = [seen |-> {b}, alone |-> TRUE]
  /\ UNCHANGED <<semester, detections, month, blacklist, steps>>

(* release_blacklist reads every active row; 404 if there is none.         *)
BeginRelease ==
  /\ releasing = None /\ Active # {}
  /\ releasing' = [seen |-> Active, alone |-> TRUE]
  /\ UNCHANGED <<semester, detections, month, blacklist, steps>>

CommitRelease ==
  /\ releasing # None
  /\ blacklist' = [b \in Entry |-> IF b \in releasing.seen THEN "released" ELSE blacklist[b]]
  /\ releasing' = None
  /\ UNCHANGED <<semester, detections, month, steps>>

Next ==
  \/ \E d \in Day, limit \in Limit : Calculate(d, limit)
  \/ \E e \in Event : Plan(e)
  \/ \E level \in Levels, occurredInMonth \in BOOLEAN : Detect(level, occurredInMonth)
  \/ \E r \in Rev : StoreMonthly(r) \/ StoreCategories(r)
  \/ ViewRecap
  \/ \E b \in Entry : RegisterBlacklist(b)
  \/ BeginRelease \/ CommitRelease

Spec == Init /\ [][Next]_vars

--------------------------------------------------------------------------------
(* What is shown.                                                          *)

Shown == Report(days, events, log["HIGH"], log["MEDIUM"], Listed)

(* counted: the profile's tx_count is above zero. Transactions of other    *)
(* semesters count too, and without a profile none does.                   *)
IsActive(counted) == Recorded(days) # {} \/ counted
ShownBadges(counted) ==
  Badges(days, events, log["HIGH"], log["MEDIUM"], IsActive(counted))

Rows == {k \in Category : categories[k] # None}
Amounts == [k \in Rows |-> categories[k].amount]
ShownNicknames == Nicknames(Amounts, monthly.amount, inMonth, MinTx)

(* Every row of the month is of one revision, and none of it is missing.   *)
Settled ==
  /\ monthly # None
  /\ Rows = DOMAIN Published[monthly.rev]
  /\ \A k \in Rows : categories[k].rev = monthly.rev

--------------------------------------------------------------------------------
(* Properties.                                                             *)

RowsOK ==
  /\ days \in [Day -> [count : Nat, total : Nat]]
  /\ events \subseteq Event
  /\ log \in [Levels -> Nat] /\ inMonth \in Nat
  /\ monthly \in [rev : Rev, amount : Nat] \union {None}
  /\ categories \in [Category -> [rev : Rev, amount : Nat] \union {None}]
  /\ blacklist \in [Entry -> {"none", "active", "released"}]
  /\ releasing \in [seen : SUBSET Entry, alone : BOOLEAN] \union {None}
  /\ viewed \in BOOLEAN /\ steps \in 0..Steps

(* The rows keep their shape, and the score its range.                     *)
TypeOK == RowsOK /\ Shown.total \in 0..100

(* What a grade stands for, across four scores that may make up for each   *)
(* other: an A leaves room for one suspicion of the higher or three of the *)
(* lower kind, for three days in ten without money and for events within   *)
(* the last bound before the lowest score; who was on the blacklist must   *)
(* be perfect otherwise, his limits as even as the best score takes them,  *)
(* to a rounded 0.500; and nobody is graded without a recorded day         *)
(* (report_service.py 79-86, 170-174, 303-378).                            *)
GradeIsEarned ==
  /\ Shown.grade = "N/A" <=> Recorded(days) = {}
  /\ Shown.grade = "A" =>
       /\ log["HIGH"] <= 1 /\ log["MEDIUM"] <= 3
       /\ log["HIGH"] = 1 => log["MEDIUM"] = 0
       /\ ComplianceRate(days) >= 7000
       /\ events # {} => \E bound \in {120, 150, 200} : RatioAtMost(days, events, bound)
       /\ Listed => /\ log["HIGH"] = 0 /\ log["MEDIUM"] = 0
                    /\ ComplianceRate(days) >= 9000
                    /\ events # {} => RatioAtMost(days, events, 120)
                    /\ HasVariation(days) /\ VariationAtMost(days, 5)

(* Badges and scores apply the same borders in two places                  *)
(* (report_service.py 339-378 and 412-456): full points carry their badge  *)
(* and a badge full points, and the badge of dear exams costs points unless*)
(* other events were cheap. Only the badges of safety leave the blacklist  *)
(* out (225, 426-429), where the score takes ten points off (327-337): who *)
(* is listed carries "noSuspicion" beside 30 points of 40, never beside    *)
(* more, and "safetyA" beside as few as 26, which as a percentage would be *)
(* a C. Apart from those ten points both say the same.                     *)
BadgesMatchScores ==
  \A counted \in BOOLEAN : IsActive(counted) =>
    LET badges == ShownBadges(counted)
        safety == Safety(log["HIGH"], log["MEDIUM"], Listed)
        unseen == IF Listed THEN 10 ELSE 0
    IN /\ "limitsKept" \in badges <=> DailyLimit(days) = 30
       /\ "regular" \in badges <=> Regularity(days) = 10
       /\ "noSuspicion" \in badges <=> safety = 40 - unseen
       /\ "safetyA" \in badges <=> safety >= 36 - unseen
       /\ ("cafe" \in badges /\ Exams(events) = events) => Events(days, events) <= 10

(* Asking again for a day's limit adds a row and no day, and a day that    *)
(* had money keeps it however little is left when asked again: neither the *)
(* compliance rate nor its score goes down (report_service.py 115-118).    *)
AskedAgain == \E d \in Recorded(days) : days'[d].count > days[d].count
AskAgainHarmless ==
  [][AskedAgain =>
       /\ Recorded(days') = Recorded(days)
       /\ Compliant(days) \subseteq Compliant(days')
       /\ ComplianceRate(days') >= ComplianceRate(days)
       /\ DailyLimit(days') >= DailyLimit(days)]_vars

(* The two topics and their revisions come in any order. Once the rows are *)
(* of one revision the recap adds up: the shares make a whole, up to half  *)
(* a digit each, no more transactions are classified than there are, and   *)
(* what a user wants to keep is only called absent if no part of it makes  *)
(* more than a quarter (recap_service.py 252-331, 379-390).                *)
SettledRecapAddsUp ==
  Settled /\ monthly.amount > 0 =>
    LET shares == SumFunction([k \in Rows |-> Share(Amounts, monthly.amount, k)])
    IN /\ 2 * Distance(shares, 10000) <= Cardinality(Rows)
       /\ UnclassifiedShare(Amounts, monthly.amount) \in 0..100
       /\ ClassifiedTx(Amounts, monthly.amount, inMonth) \subseteq 0..inMonth
       /\ \A keep \in MustKeep : ToldAbsent(Amounts, monthly.amount, inMonth, MinTx, keep) =>
            \A k \in keep \intersect Rows : 4 * Amounts[k] <= monthly.amount

(* Entered twice, a user can be neither blocked nor cleared until he is    *)
(* released; a release that no new entry overlaps clears him, whatever was *)
(* entered before (detector.py 338-360).                                   *)
ReleaseUnblocks ==
  [][(releasing # None /\ releasing.alone /\ CommitRelease) => Check' = "clear"]_vars
================================================================================
