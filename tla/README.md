# A verification project for MOAJE Work

TLA+ modules that model the Work service of MOAJE (fraud detection, spending
profile, cashflow aggregates, onboarding, academic schedule, the Kafka loop,
scores and plan, semester report, Money Recap and the blacklist), TLC
configurations that check them on small instances, and TLAPS proofs of the main
theorems for every value of the constants. Paths below are relative to
`src/app/` unless they start with `src/`.

## 1. The system

Work is one FastAPI process (`main.py`, one uvicorn worker) on one asyncio
loop. Its lifespan creates and repairs the MySQL schema, starts the Kafka
consumer as a task of the same loop, a gRPC server, and stops them again. All
lasting state is in MySQL; Redis holds copies with a time to live; Kafka
carries events in from Asset and Auth and out to Asset and the notifiers.

Every REST request has one session (`db/session.py`, `get_db`): it commits when
the endpoint returns and rolls back on any exception. A Kafka handler opens its
own session, commits itself and swallows every exception. Isolation is MySQL's
default, REPEATABLE READ, and the code says it relies on that
(`FdsDetector._find_verdict`): a session's plain reads all see the snapshot of
its first read, an INSERT meets unique keys on the current rows and waits for
an open holder, an UPDATE writes only the columns whose value changed in the
session. Every `await` may let another request or handler run, so two sessions
interleave at any statement.

| Component | State | Operations | Interacts with | What makes it hard | What makes it correct |
| --- | --- | --- | --- | --- | --- |
| FDS detection, `services/fds/detector.py` | `fds_inference_log` (unique user, transaction) | `detect` from REST and from the consumer | profile, producer | two sessions judge one transaction; snapshot behind the unique index | one verdict per transaction, told to everybody |
| Spending profile, `services/ai/spending_service.py` | `ai_spending_profile`, Redis copy | create, Welford update, `tx_count` | detection, calendar, Redis | read-modify-write through snapshots; created twice at once | each transaction folded once; count never ahead |
| Consumer, `kafka/consumer.py` | group offset, handlers' sessions | five topic handlers, reconnect loop | everything | at-least-once, swallowed failures, reordering | handlers are idempotent |
| Producer, `kafka/producer.py` | one cached handle | three publishers | detection, schedules | published before the commit; failed start kept | what commits was announced |
| Alerts, `kafka/consumer.py`, `models/fds.py` | `fds_alert_log` (no unique key) | made from `work.fds.alert`, confirmed by the user | producer | ids made of the clock, redelivery | one row per alert |
| Cashflow, `kafka/consumer.py`, `models/spending.py` | `monthly_cashflow`, `category_cashflow` | two handlers | Asset, Recap | revisions in any order, many rows in one message | the largest revision wins, whole |
| Onboarding, `services/ai/onboarding_service.py` | `onboarding_answer`, `future_profile` | save one or many answers, rebuild | metrics, readiness | derived row rebuilt from a snapshot | completion never ahead of the answers |
| Schedules, `endpoints/calendar.py`, `endpoints/spending.py` | `academic_schedule`, `university_calendar`, Redis buffer | create, sync, event buffer, daily limit | producer, Redis | cache dropped before the commit | buffer equals the schedules |
| Redis, `redis/client.py` | three kinds of keys with a TTL | get, set, delete, all failures ignored | profile, schedules, detection | stale entries | a miss is always safe |
| Metrics, `services/ai/metrics_service.py` | `feature_event` | `record`, summary | all endpoints | swallowed flush failure poisons the session | never fails the user's request |
| Blacklist, `services/fds/detector.py` | `fds_blacklist` (no unique key) | register, release, check | report, gRPC | two active rows, which the check cannot read | a release clears the user, however often he was entered |
| Money Recap, `services/ai/recap_service.py` | none (it reads) | shares, coverage, nickname, insights | cashflow, detection, onboarding, metrics | total and categories of different revisions | once they agree it adds up; a nickname rests on enough known spending |
| Semester report, `services/ai/report_service.py` | none (it reads) | four scores, grade, badges | daily limits, schedules, detection, blacklist | scores that make up for each other, borders written twice | a grade is earned, badges and scores agree |
| Readiness, simulator | none (they read) | pure computations | detection, daily limits, onboarding, Asset | boundaries, items without data | good deeds never hurt; the plan reaches its goal |
| Schema repair, `db/schema_sync.py` | the schema | add columns and indexes at start-up | every unique index above | a failed index is only logged | missing parts are added, nothing is dropped |
| gRPC, `grpc/` | none | two lookups, a client of Asset | Asset | status mapping, timeouts | absence is not an error |

`PROJECT.json` names for every component what is modelled and lists the
hazards with their lines.

## 2. Modules

| Module | What it is |
| --- | --- |
| `VerdictRegister` | abstract: a transaction is judged at most once and everybody is told that judgement |
| `FdsPipeline` | detection from REST and the consumer, profile fold, alert topic and alert rows, one user |
| `FdsPipelineProofs` | its theorems |
| `RevisionRegister` | abstract: a larger revision replaces what is held |
| `MonthRegister` | abstract: a message of a month is stored in one step, each of its rows by revision |
| `Cashflow` | the two aggregate handlers for one user and month |
| `CashflowProofs` | its theorems |
| `Onboarding` | overlapping answer submissions of one user |
| `OnboardingProofs` | its theorems |
| `ScheduleCache` | schedule registration, calendar sync, and the Redis copy of the event buffer, one user |
| `ScheduleCacheProofs` | its theorems |
| `EventLoop` | the consumer task, its offsets and reconnects, the cached producer, stops and starts of the process |
| `EventLoopProofs` | its theorems |
| `Scoring` | the arithmetic of a verdict |
| `LifePlan` | the arithmetic of the simulator |
| `ScoringProofs` | lemmas on that arithmetic: rounding, quotients, months, sums over finite sets |
| `Standing` | one user's history under `Scoring` and `LifePlan`: verdicts, safety score, readiness, plan |
| `StandingProofs` | its theorems |
| `SemesterReport` | scores, grade and badges as operators on a semester's rows |
| `MoneyRecap` | shares, coverage, nickname and the must-keep insight as operators on a month's rows |
| `Insights` | the rows under both, written in any order, and the blacklist |
| `InsightsProofs` | its theorems |
| `MC*` | instances for TLC: symmetry, a start with a profile row, two universities' calendars, the borders of the weights, months with ties and with an even spread |

### FdsPipeline

One user; users share no row, so more of them would only be copies. A session
is a REST request (`RestSession`) or a consumer loop (`Consumer`). `work[s]`
is the detection in progress: its next step, its transaction, the verdict it
will answer, whether it holds the inserted log row (`owns`), the profile row of
its snapshot (`snap`) and what it will do to the profile (`fold`).

| Action | Code |
| --- | --- |
| `FindVerdict` | `detect`, the first `_find_verdict`; the consumer's duplicate check skips instead |
| `Score` | the scoring; the verdict is an arbitrary member of `Verdict`, since the score depends on the ten-minute window and the profile |
| `InsertLog`, `LoseRace` | the SAVEPOINT insert and its IntegrityError path with the FOR SHARE read |
| `PublishAlert`, `PublishUnconfirmed` | `publish_fds_alert`, confirmed or raising after the broker stored the message |
| `UpdateProfile` | `update_profile_from_transaction`, with the creation of a missing row |
| `Commit`, `Reply`, `Abort` | `get_db` or the handler's own commit, the response, any exception |
| `CreateProfile` | `get_or_create_profile` from a GET or `user.registered` |
| `ReadAlert`, `SaveAlert`, `DropAlert` | `handle_fds_alert`; messages stay on the topic, so each may come again |
| `Crash` | the process dies: open transactions roll back |

`profile.folded[t]` counts how often transaction t entered the mean and the
deviation; the numbers themselves are not modelled. `ProfileAfter` is the
column-wise UPDATE: a column the session did not change keeps the committed
value, which is where counts are lost and folds are not.

### Cashflow

Asset is external: it publishes each revision of the month once per topic, in
any order, with any amounts and categories. `Receive` is a delivery, first or
repeated, with the handler's snapshot; `SaveMonthly` and `SaveCategory` are
everything up to the commit; `Fail` is any exception, a refused INSERT
included. `handled` remembers which messages ended without an exception.

`MonthRegister` is what the handlers look like from outside: one step for a
message, however many rows it writes. `MonthStored` says that `Cashflow`
implements it, and `Insights` takes its month from it, so that the recap is
checked over months that the handlers can really leave behind.

### Onboarding

`Begin` is the request's first SELECT. `SaveAnswer` is one `save_answer` with
the lock and the unique key it may meet, `RebuildProfile` the rebuild and its
flush, `Commit` the end of the request. The six copied codes, the Q9 text and
the two card texts of `future_profile` are functions of the answers and are one
`fields` entry for each question. `stamps` counts the writes of
`completed_at`. `alone` is a history variable: this request overlapped no other.
Two re-answers that overlap each other, both finding every answer stored and the
profile still incomplete, each set `completed_at`, so the first moment is lost;
`DatedOnce` says what holds all the same.

### ScheduleCache

`rows` counts the committed rows of each kind: the entries of the universities'
calendars (copied by a sync, `is_auto`) and the schedules the user registers
himself. `work[s]` is a request in progress: a registration, a sync or a reader.
The buffer is the sum over the rows of the coming seven days; which rows are
summed stands for the sum (`Buffers`).

| Action | Code |
| --- | --- |
| `BeginRegister`, `InsertRows` | `create_academic_schedule` up to its flush |
| `BeginSync`, `DeleteAutoRows`, `InsertRows`, `SetUniversity` | `sync_calendar`: the look-ups, the range DELETE, the flush of the new rows, the profile's university |
| `Invalidate` | `delete_event_buffer_cache`, which ignores a failing Redis |
| `Commit`, `Abort` | `get_db`, or any exception: 404, deadlock victim, a failed publication in a sync |
| `BeginRead` | a miss in `GET event-buffer`, or gRPC `GetDailyBudget` |
| `LookAgain`, `SelectRows` | `SpendingAnalysisService.get_event_buffer`: Redis once more, then the rows, then 0 |
| `SetCache` | the service's and then the endpoint's `set_event_buffer_cache` |
| `Expire` | the hour is over |

The DELETE is a locking statement on `idx_user_date`: it works on the current
rows, not on the snapshot, and holds the rows and the gaps of its range to the
end of the session (`Locks`, `GapLocked`). Locks beyond the range, which InnoDB
may take as well, only add waiting. The profile row is taken to exist; without
one a sync sets no university. Calendar entries end no earlier than they begin:
nothing in the service checks that of the administrators' data.
`settled` is a history variable: the last change overlapped no reader (`alone`,
kept with the request from its beginning) and neither Redis nor MySQL failed
since it began.

### EventLoop

One partition of one topic with its messages numbered; partitions share only the
task, and a group has one member since one process is deployed. An iteration
that raises while the broker is in reach is an outage of one moment around
`PollFails`. The client library is external: what it hands out, it commits, in
the background (`AutoCommit`) and when it is closed. `Connect` is `start()` of a
new consumer.

| Action | Code |
| --- | --- |
| `Connect`, `Sleep` | the `while True` of `start_consumer`, its `start()` and the ten seconds |
| `Poll`, `PollFails` | the next turn of `async for`, or an exception out of it |
| `EndHandler` | the handler returned, or its exception was logged |
| `Close` | the `finally` with `consumer.stop()`; at a shutdown also `stop_producer` |
| `Publish` | one of the three publishers, called by an alerting handler or by a request |
| `GetProducer`, `StartProducer` | `get_producer`, split at its one `await` |
| `Send`, `SendFails` | `send_and_wait` on a handle that has started, or on one that has not |
| `Shutdown`, `Crash`, `Restart` | the end of `lifespan`, the death of the process, Docker's restart |

`get_producer` sets the global before it awaits `start()`. So no second
producer is ever started beside the first (`OneStart`), and a handle whose
`start()` raised stays until the process stops ("broken"): nothing in the code
replaces it. Every later publication goes to that handle, where the library
raises or waits, and a waiting alert holds the consumer task. The liveness
properties leave that wait out, by name (`Waiting`); `src/README.md` 13 says
that Kafka failures are retried every ten seconds, which is true of the consumer
and not of the producer.

A shutdown cancels the task wherever it awaits. In the middle of a handler the
`finally` commits the position that was handed out, so that message is neither
finished nor delivered again; the same holds of a crash after the background
commit. `OnlyCutAreLost` states that nothing else is ever passed over.
Rebalances among several members and `max_poll_interval` are not modelled.

### Scoring, LifePlan, Standing

`Scoring` keeps the code's decimals exact: a score is a whole number of
ten-thousandths after rounding and a fraction over `Scale` before. The
percentage of the safety score is a float in the code, and `SafetyPercent`
rounds as that float does (23 points of 40 are 57). The model's probability is
external. `LifePlan` counts tenths of a won, since the API takes amounts with a
fraction: `Won` is the rounding of `_won`, and it stands where the code has it,
on the target and on what the adjusted plan starts from, not on what the plan's
own months are counted from. The code's months are a ceiling of a float: exact
for whole won, and with a fraction never fewer than the model's and at most one
more. `Standing` runs them over one user's history: `Detect` (the verdict,
stored with its row), `CalculateDailyLimit`, `Answer`, `Ask` (another body, or
another balance: given, answered by Asset, or 0 when no account is linked or
Asset cannot be reached), `Pass` (ten minutes, 30 days or 90 days go by). The
profile's statistics are chosen anew for every transaction, since `FdsPipeline`
has them change under its feet.

Seen on the way, where no document says otherwise or only loosely: the
repetition rule first flags the fourth transaction of ten minutes
(`src/README.md` 7.2: three in ten minutes); a first HIGH verdict can raise a
low readiness, because the item only then begins to count; every calculation of
a daily limit counts as a day, where the semester report averages them by day; a
progress of 1.0 can be shown with a gap of less than a twenty-thousandth of the
target left.

### SemesterReport, MoneyRecap, Insights

Report and recap are computed when asked for and stored nowhere. Each request
reads one snapshot, so what it shows is a function of the committed rows:
`Shown`, `ShownBadges` and `ShownNicknames` of the state. `days[d]` is the
number and the sum of a date's daily limits, which is all the report reads of
them; averages and the deviation stay exact, as whole numbers over a common
denominator, up to the three digits the code rounds the variation to. `log` and
`inMonth` differ because the report counts verdicts by `created_at` and the
recap by `occurred_at`, which a verdict by REST lacks.

| Action | Code |
| --- | --- |
| `Calculate` | `calculate_daily_limit`, which stores a row each time |
| `Plan` | a schedule of a kind the report looks at |
| `Detect` | a row of the log with its level; it may have occurred in another month |
| `StoreMonthly`, `StoreCategories` | the two aggregate handlers: steps of `MonthRegister`, which `Cashflow` is shown to implement |
| `ViewRecap` | `GET recap` and the feature event it records |
| `RegisterBlacklist` | `register_blacklist`: no look-up, no unique key |
| `BeginRelease`, `CommitRelease` | `release_blacklist`, its read and the end of the request |

Asset's numbers are external: `Published` gives the categories of each revision
and `Spent` their sum.

Seen on the way, again where no document says otherwise: an event without a
single recorded day has a ratio of 0 and with it the full event score and, in
exams, the thrifty badge; one recorded day can be enough for an A; while the
month's total and its categories are of different revisions, shares can pass 1
and `classified_tx` can fall below 0; a month whose largest category is
unclassified or has no nickname of its own gets none although it counts as
reliable; who is on the blacklist can still carry the badges for no suspicion
and for an A in safety, which only look at verdicts, beside a safety score ten
points lower (`BadgesMatchScores` states exactly this difference).
`MetricsService.record` promises not to fail the user's request
(`metrics_service.py` 88-89), but after a failed flush the session is unusable
and the request's commit fails; no run shows this, since a failing MySQL is
behind every `Abort` anyway. The onboarding completion rate of the summary can
pass 1: it divides who completed in the period by who has an answer dated in it,
and a re-answer is not dated anew.

## 3. The runs

| Run | Shows | Bounds |
| --- | --- | --- |
| `fds_races` | every transaction has one verdict, told to everybody (refinement of `VerdictRegister`), folded at most once and counted at most once; no committed HIGH verdict without its alert; one row per alert id | 2 requests, 1 consumer loop, 2 transactions, 2 verdicts, 1 clock reading |
| `fds_duplicate_alert` | finding: two alert rows of one transaction | 1 transaction, 2 clock readings |
| `fds_lost_count` | finding: `tx_count` one short | 1 request, 1 consumer loop |
| `cashflow` | the month's rows together implement `MonthRegister` and each category's row `RevisionRegister`; nothing of a handled message is lost | 3 revisions, 2 amounts, 2 categories, 1 loop |
| `cashflow_stale_category` | finding: a category an older revision had survives a newer one without it | 2 revisions, 2 categories |
| `onboarding` | completion never precedes or outlives its answers and is dated with its flag; a submission that overlaps no other repairs the profile and dates nothing twice | 3 requests, 2 questions, 2 codes |
| `onboarding_lost_rebuild` | finding: two overlapping submissions leave the profile short | 2 requests, 3 questions |
| `schedule_cache` | a committed sync leaves every row of its dates once; other terms stay; the cache holds only what was committed; after a change that overlapped no reader, with nothing failing, whoever finds a buffer finds the committed one | 2 requests, 2 universities, 3 calendars that overlap in pairs, 1 registered schedule, Redis and MySQL failing |
| `schedule_stale_buffer` | finding: a stale buffer with nothing failing | the same, nothing failing |
| `event_loop` | only a stop in a handler loses a message; one start of the producer at a time; with Kafka back every message and publication comes to its end | 3 messages, 1 of them alerting, 1 requesting caller, 2 stops |
| `standing` | verdicts agree with their stored score and grow with the amount; both safety scores agree; good deeds never lower readiness; the months of a plan are enough, also for amounts with a fraction of a won | 4 events from 10, 30 or 70 known transactions, 5 transactions, 2 profiles, model loaded or not |
| `insights` | what an A stands for; badges and scores agree but for the blacklist's ten points; asking again does no harm; a settled recap adds up; a release clears the user | 5 events; 3 dates, 3 limits, 2 schedules, 3 revisions of a month, 2 blacklist entries |

Why these bounds are enough to be interesting: a race for a unique key needs two
sessions and a third to observe or to interfere; a lost update needs two
transactions; a reordering that skips a revision needs three revisions; a
message that writes some rows and not others needs two categories; a stale cache
needs one writer and one reader, and a sync that could wipe another term needs
one calendar whose dates meet its own and one whose dates do not; a lost message
needs one before it that was committed and one after it that goes on; a fourth
transaction is the first that repetition flags, and 10, 30 and 70 are the last
counts before the weights change; an A is lost or kept within four events beside
one recorded day; a recap of mixed revisions needs a total, two deliveries of
categories and two transactions (`MinTx` stands for the ten the code asks for).
Four modules bound a count in a guard. `ScheduleCache`: `Copies`, how often the
user registers one schedule (one copy is enough to change the buffer, and the
proofs take any number). `EventLoop`: `Last` messages and `Stops` (the proofs
take any numbers; liveness needs the last stop to have happened, as there is no
progress in a process that is stopped again and again). `Standing` and
`Insights`: `Steps` (the proofs take any number). The other state spaces are
finite because transactions are judged once and alert ids are drawn from
`Stamp`. `fds_races` takes one clock reading, so that the alerts of its two
transactions share an id; `fds_duplicate_alert` takes two. The alert properties
are proved for any number of readings.

Deadlock is checked in `event_loop` only, whose broker and loop never stop. In
the others a transaction that is judged, a month whose revisions are all
published and a service nobody calls have nothing left to do.

Fairness is assumed in `EventLoop` alone; everything else is safety. It is weak
and covers what the process does by itself: the steps of the consumer task
(asyncio runs whatever is ready; handlers end because their MySQL and Kafka
calls time out), a publication's own steps up to a send on a started handle
(aiokafka gives up after its request timeout), and Docker's restart
(`restart: unless-stopped`). Nothing is assumed of the broker, of who publishes,
of stops, and of a send on a handle that never started: `SendFails` may happen
and need not. `EveryMessageEnds` therefore asks for a broker that comes back
for good.

### Findings

* `fds_duplicate_alert`: `handle_fds_alert` promises one row "even if alerts of
  the same transaction come twice", but the message id is made of the clock and
  the message leaves before the verdict commits. A detection rolled back after
  publishing and repeated gives one transaction two rows.
* `fds_lost_count`: `_increment_tx_count` writes snapshot value plus one; two
  transactions judged at once count as one.
* `cashflow_stale_category`: a category that a larger revision no longer names
  keeps the older revision's row.
* `onboarding_lost_rebuild`: two overlapping submissions each rebuild the
  profile without the other's answer; all answers are stored and the profile
  stays incomplete until the next submission.
* `schedule_stale_buffer`: the cached buffer is deleted before the change
  commits. A reader that sums the rows in between, or summed them before and
  caches afterwards, hands out the old buffer for up to an hour, which is what
  the deletion is there to prevent.

A theorem marks where each of these ends: `OneRowUnlessWithdrawn`,
`CountExactAlone`, `LargestUnlessDropped`, `AloneRepairsHolds` and
`AloneRefreshesHolds` state what has to happen for it to be possible.

Three more findings need no interleaving, so that a theorem shows them better
than a trace:

* `src/README.md` 721 promises a rule-based fallback without the model file. The
  missing score counts 0 with its full weight (`detector.py` 310, 48-54):
  `SilentWithoutModel` says that the rules alone reach HIGH for nobody past 30
  transactions and MEDIUM for nobody past 70. `standing` runs with the model
  loaded and without it.
* `simulate_adjustment` promises the same formula as the plan it is compared
  with (`simulator_service.py` 220-221), and starts from an amount that was
  rounded to the won in between (190, 228). `NothingChangedDelays`: 100.4 won a
  month reach 1004 won in 10 months, and in 11 after a change of nothing. So
  `PlanReachesGoal` claims that spending less delays nothing only where the
  rounding takes nothing away that the change does not give.
* `src/README.md` 514-517 gives no nickname above 30 % unclassified spending and
  calls a month balanced up to 30 %. The code rounds before it compares
  (`recap_service.py` 288, 319, 345): `NicknameBeyondLimit` has a month of 30.4 %
  with a nickname. What is true for every month is
  `NicknameFitsRoundedMonth`, whose bounds are 30.5 % and 29.995 %.

## 4. What is proved

All proofs are checked by tlapm. They assume the named assumptions of the
modules (`PipelineAssumption`, `CashflowAssumption`, `OnboardingAssumption`,
`ScheduleAssumption`, `LoopAssumption`, `StandingAssumption`,
`InsightsAssumption`: the "absent" value is none of the rows, revisions, amounts
and probabilities are numbers, the questions, a semester's dates and a
revision's categories are finitely many, calendar entries end no earlier than
they begin, a month's total is the sum of its categories) and, where it is
written in the theorem, that the transactions are finitely many or
`OneConsumer`: at most one consumer loop. The service is deployed as one process
with one consumer task; with two loops in one group a rebalance could hand one
message to both, and the check-then-write handlers have no lock against that.

**FdsPipeline.** `IInv` is inductive: the type; a profile row is never deleted
(`ProfileStays`); a session that inserted the log row finds no committed one
and one that did not answers with the committed verdict (`RowOwnership`); the
unique index has one open holder (`OneHolder`); what clients were told is
committed (`AnswersCommitted`); an alerting verdict on its way to its commit
has its message on the topic (`AlertBeforeCommit`). `AlertedVerdictPublished`
alone is not inductive: without `AlertBeforeCommit` a commit could bring in an
unpublished verdict; the refinement needs `RowOwnership` to map a commit to
`Decide` and a reply to `Answer`. From it: `TypeCorrect`, `VerdictOnceHolds`
(the refinement), `AlertedVerdictsArePublished`. With `OneConsumer` and the
fact that a consumer's snapshot of the statistics is current,
`FoldedOnceHolds`; with the fact that a message being handled has no row yet,
`AlertRowOncePerMessageHolds`. `CountWithinLogHolds` is for any number of loops:
no snapshot holds a count beyond the log (`CountView`), and a session's commit
either adds its row to the log or finds it there (`JudgedGrows`), so that the
count it writes, at most its snapshot's plus one, is still within.

Two theorems take a further assumption on the behaviour, stated as a temporal
hypothesis. `OneRowUnlessWithdrawn`: as long as no detection is undone after its
alert reached the topic (`NothingWithdrawn`), a transaction has one message,
since who publishes holds the key of its row, and so the rows of a transaction
are those of one message, under any redelivery. `CountExactAlone`: as long as no
two detections of the user are before their commits at once (`OneAtATime`), and
with a profile to begin with, `tx_count` is the length of the log
(`CountCurrent`), through aborts, crashes and repetition.

**Cashflow.** `TypeInv` (type, handled messages are published, rows seen in a
snapshot still exist) holds with any number of loops: `TypeCorrect`. With one
loop the snapshot is current (`SnapshotCurrent`), so the column-wise UPDATE
stores the whole message: `MonthStoredHolds`, the refinement of `MonthRegister`
by all rows together, `MonthlyLargestHolds` and `CategoryLargestHolds`, that of
`RevisionRegister` by each, and `NewestKeptHolds`. From the last one,
`LargestUnlessDropped`: the stale category of the finding needs a larger
revision that no longer names it (`NothingDropped`).

**Onboarding.** For any number of overlapping requests, `IInv`: a snapshot is
behind the rows (`SnapshotBehind`), shows a complete profile only with all
answers (`SnapshotWhole`), a profile row has one open creator (`OneCreator`),
a request that overlapped nobody finds what it read (`AloneCurrent`), plus
`CompletedHasAnswers` and `CountNotAhead` themselves. `CompletedHasAnswers` is
not inductive alone: a commit keeps the committed flag where its own did not
change, and only `SnapshotWhole` says that flag had its answers. From it:
`TypeCorrect`, `CompletedHasAnswersHolds`, `CountNotAheadHolds`,
`StaysCompletedHolds`, `AloneRepairsHolds`, and with `Dated` (a profile is
complete exactly if it was ever dated) `DatedOnceHolds`.

**ScheduleCache.** For any calendars and any number of requests, `RowsInv`: the
type; what a sync removed is still in the committed rows (`GoneIsThere`); two
syncs past their DELETE share no row (`RangesApart`); nobody's new rows lie in
another's range (`NewRowsApart`). These are the range locks read as facts about
rows, and `SyncOverwrites` and `TermKept` follow from them at the commit; the
type needs them too, since a commit subtracts. `CacheInv`: what a reader holds
was committed (`ReadersCommitted`). For `AloneRefreshes` two facts more: past
its invalidation, a change that overlapped nobody has an empty cache and no
reader beside it (`AloneUnread`), and once settled, what is cached and what any
reader holds is the committed buffer (`SettledReaders`). The property alone is
not inductive, since a reader that began after the change still has its result
to cache. From it: `TypeCorrect`, `SyncOverwritesHolds`, `TermKeptHolds`,
`CachedWasCommittedHolds`, `AloneRefreshesHolds`.

**EventLoop.** For any number of messages, alerting ones and stops. The
inductive invariant adds to the type that a handler runs on a message that was
handed out (`HandedOut`), and to `OnlyCutAreLost` that a consumer on its way
to being closed has nothing left in a handler (`Settled`): closing commits its
position, and `OnlyCutAreLost` alone only speaks of a consumer that is open.
`OneStart` needs `StartsTheCached`: who starts, starts the handle that is
cached. From it: `TypeCorrect`, `OnlyCutAreLostHolds`, `OneStartHolds`.

**Standing.** For every amount, profile, answer and history. The rows keep their
shape, and the newest verdict is one that `Verdict` made: `VerdictAsStoredHolds`
and `SilentWithoutModel` follow from what a verdict is at each stage of the
weights. `MoreIsRiskierHolds` is arithmetic: each of the rules, the deviation and
their weighted mean are monotone above the mean, and so is rounding
(`HalfEvenMonotone`). `ScoresAgreeHolds` needs that no day of the 30 is missing
from the 90 (`RowCounts`). `PlanReachesGoalHolds` rests on `MonthsEnough`, the
two sides of a ceiling, on `WonNearest` (at most half a won away) and on
rounding a full share to 1; `NothingChangedDelays` is an instance computed by the
prover; `TypeCorrect` on the
ranges of the four items. `GoodDeedsNeverHurtHolds` compares readiness before
and after, whose items come and go with their weights: an item is as good as
before (`IsAsGood`) if it lost no weight and scores at least as much more as it
weighs more. That is kept when items are added up, and of two quotients related
in this way the later one is no smaller (`QuotientGrows`).

**Insights.** `IInv` is the shape of the rows; that a release nobody overlapped
has read all active rows (`ReleaseSeesAll`); and that each row of the month holds
what Asset published in the row's revision (`RowsAsPublished`), without which a
total would have nothing to do with the categories beside it. From it
`TypeCorrect` (the total stays in 0..100), `ReleaseUnblocksHolds`,
`GradeIsEarnedHolds` (by the cases of the four scores: 90 points leave ten to
lose), `AskAgainHarmlessHolds` (the same days, no fewer of them with money, and a
rounded share is monotone), `BadgesMatchScoresHolds` (the borders of badges and
points are equivalent, and a mean that carries the badge of dear exams is above
the bounds of the points),
`SettledRecapAddsUpHolds` (the rows sum to the total, each share is rounded by at
most half, and what is unclassified is a part of the whole) and
`NicknameFitsRoundedMonthHolds`, which compares rounded quotients with the limits
of the code. The rounding of the variation is that of the code, so that
`GradeIsEarnedHolds` says "to a rounded 0.500" and means it for any days.

These are about sums over sets. The models write them with the community
modules' folds, and `ScoringProofs` has the facts needed: a fold over a finite
set exists and takes in one element after the other (`FoldExists`, `SumWith`), and
what holds of the empty set and is kept by adding an element holds of all finite
sets (`SetInduction`, by a smallest set that lacks it). The library states such
an induction over an operator, which the provers cannot take; here it is over a
set of sets, which they can.

Model-checked only: the liveness of `EventLoop` (`EveryMessageEnds`,
`PublicationEnds`). Liveness under fairness and ENABLED are out of the prover's
reach, as are recursive definitions beyond these folds; the models have none.
The findings are counterexamples and need no proof.

## 5. What is not modelled

* The model's probability (any number) and the Welford numbers: which
  transactions are folded is modelled, to what number is not.
* The copy of the profile in Redis: that a cached profile may never have been
  committed is one of the outcomes of `UpdateProfile`; the copy itself is not a
  variable.
* `db/schema_sync.py`: it adds what is missing at start-up. `FdsPipeline` takes
  the unique indexes to be there; its faulty variant without one shows what they
  are for.
* The summary of the usage metrics: aggregate queries over all users.
* The confirmation of an alert by its user, lists of detections, peak and lowest
  days, reasons, the recap's words on income and transfers: single reads or
  writes with no rule behind them.
* Wording and logging, the HTTP and protobuf encodings, certificates and
  channels of gRPC, authorisation (stateless checks), generated code, and the
  operational scripts.

## 6. Plan

Done: the modules above and the proofs of section 4. Next, in this order:

1. `SchemaSync`: which columns and indexes exist after starts, failures and
   crashes on an old database, and `FdsPipeline` under what is left missing.
2. `ProfileCache`: the profile in Redis beside its row.
3. The Welford fold with its numbers, under the counts that `FdsPipeline` shows
   to be possible.
4. Proofs: that `Detect` of `Standing` is a `Score` of `FdsPipeline`.
