------------------------------ MODULE FdsPipeline ------------------------------
(***************************************************************************)
(* One user's slice of the fraud-detection pipeline: POST /fds/detect      *)
(* sessions and the Kafka consumer running FdsDetector.detect on the same  *)
(* MySQL tables, the profile update that follows it in the consumer, the   *)
(* work.fds.alert topic and the alert rows made from it.                   *)
(*                                                                         *)
(* The database is modelled at MySQL's REPEATABLE READ, which the code     *)
(* relies on: a session's plain reads see the snapshot taken by its first  *)
(* read; an INSERT meets the unique index (uq_fds_user_tx, uq_user_id) on  *)
(* the CURRENT rows and waits while another open transaction holds the     *)
(* key; an UPDATE writes the values the session computed from its snapshot *)
(* and touches only the columns it changed.                                *)
(***************************************************************************)
EXTENDS Naturals, FiniteSets

CONSTANTS
  Tx,           \* transaction ids of this user
  Verdict,      \* outcomes of scoring (score, level, reasons)
  Alerting,     \* those with is_alerted: final_score >= 0.7
  RestSession,  \* concurrent POST /fds/detect requests
  Consumer,     \* Kafka consumer loops (one per process of the group)
  Stamp,        \* millisecond clock readings used in alert ids
  None          \* absent row, idle session

Session == RestSession \union Consumer

VARIABLES
  inferenceLog, \* committed fds_inference_log: Tx -> verdict or None
  profile,      \* committed ai_spending_profile row, or None
  alertTopic,   \* everything ever written to work.fds.alert
  alertLog,     \* committed fds_alert_log: how many rows each message made
  work,         \* the detection each session is in the middle of, or None
  handling,     \* the alert message each consumer has read but not saved
  answers       \* <<tx, verdict>> pairs that reached a REST client

vars == <<inferenceLog, profile, alertTopic, alertLog, work, handling, answers>>

(* The row: tx_count, and how often each transaction went into avg / std.  *)
ProfileRow == [count : Nat, folded : [Tx -> Nat]]

FreshProfile == [count |-> 0, folded |-> [t \in Tx |-> 0]]

(* publish_fds_alert names the message by the clock, not by the            *)
(* transaction; tx is kept here only to say which detection published it.  *)
Message == [ms : Stamp, tx : Tx]

Step == {"insert", "publish", "fold", "commit", "reply"}

Detection ==
  [step    : Step,
   tx      : Tx,
   verdict : Verdict,                    \* what this session will answer
   owns    : BOOLEAN,                    \* inserted the log row itself
   snap    : ProfileRow \union {None},   \* profile row in its snapshot
   fold    : {"none", "update", "create"}]

ASSUME PipelineAssumption ==
  /\ Alerting \subseteq Verdict
  /\ RestSession \intersect Consumer = {}
  /\ None \notin Verdict
  /\ None \notin Message
  /\ None \notin ProfileRow
  /\ None \notin Detection

(* Rows, topics and sessions have the shape the code gives them: above all *)
(* no session is about to answer with a missing row.                       *)
TypeOK ==
  /\ inferenceLog \in [Tx -> Verdict \union {None}]
  /\ profile \in ProfileRow \union {None}
  /\ alertTopic \subseteq Message
  /\ alertLog \in [Message -> Nat]
  /\ work \in [Session -> Detection \union {None}]
  /\ handling \in [Consumer -> Message \union {None}]
  /\ answers \subseteq Tx \X Verdict

Init ==
  /\ inferenceLog = [t \in Tx |-> None]
  /\ profile \in {None, FreshProfile}
  /\ alertTopic = {}
  /\ alertLog = [m \in Message |-> 0]
  /\ work = [s \in Session |-> None]
  /\ handling = [c \in Consumer |-> None]
  /\ answers = {}

--------------------------------------------------------------------------------

(* A consumer handles one message at a time.                               *)
Idle(s) == work[s] = None /\ (s \in Consumer => handling[s] = None)

At(s, step) == work[s] # None /\ work[s].step = step

(* A transaction's log row inserted by an open database transaction.       *)
Locked(t) == \E s \in Session : work[s] # None /\ work[s].owns /\ work[s].tx = t

(* A profile row inserted by an open database transaction.                 *)
ProfileLocked == \E s \in Session : work[s] # None /\ work[s].fold = "create"

AfterDetect(s) == IF s \in Consumer THEN "fold" ELSE "commit"

(* The first read finds a verdict: a REST request returns it as it is. (A  *)
(* consumer skips the message and changes nothing.)                        *)
FindVerdict(s, t) ==
  /\ Idle(s) /\ s \in RestSession
  /\ inferenceLog[t] # None
  /\ work' = [work EXCEPT ![s] =
       [step |-> "commit", tx |-> t, verdict |-> inferenceLog[t],
        owns |-> FALSE, snap |-> profile, fold |-> "none"]]
  /\ UNCHANGED <<inferenceLog, profile, alertTopic, alertLog, handling, answers>>

(* Faulty variant: no look at the log before scoring.                      *)
ScoreUnchecked(s, t, v) ==
  /\ Idle(s)
  /\ work' = [work EXCEPT ![s] =
       [step |-> "insert", tx |-> t, verdict |-> v,
        owns |-> FALSE, snap |-> profile, fold |-> "none"]]
  /\ UNCHANGED <<inferenceLog, profile, alertTopic, alertLog, handling, answers>>

(* The first read finds none: score against the snapshot's profile and the *)
(* ten-minute window, so the same transaction can score differently later. *)
Score(s, t, v) ==
  /\ Idle(s)
  /\ inferenceLog[t] = None
  /\ work' = [work EXCEPT ![s] =
       [step |-> "insert", tx |-> t, verdict |-> v,
        owns |-> FALSE, snap |-> profile, fold |-> "none"]]
  /\ UNCHANGED <<inferenceLog, profile, alertTopic, alertLog, handling, answers>>

(* Faulty variant: the unique index is missing (schema_sync could not add  *)
(* it).                                                                    *)
InsertLogUnindexed(s) ==
  /\ At(s, "insert")
  /\ work' = [work EXCEPT ![s].owns = TRUE,
                          ![s].step = IF work[s].verdict \in Alerting
                                        THEN "publish" ELSE AfterDetect(s)]
  /\ UNCHANGED <<inferenceLog, profile, alertTopic, alertLog, handling, answers>>

(* The SAVEPOINT insert goes through: no committed row, no open holder.    *)
InsertLog(s) ==
  /\ At(s, "insert")
  /\ inferenceLog[work[s].tx] = None
  /\ ~ Locked(work[s].tx)
  /\ work' = [work EXCEPT ![s].owns = TRUE,
                          ![s].step = IF work[s].verdict \in Alerting
                                        THEN "publish" ELSE AfterDetect(s)]
  /\ UNCHANGED <<inferenceLog, profile, alertTopic, alertLog, handling, answers>>

(* Faulty variant: the winner is re-read in the old snapshot, where it is  *)
(* absent.                                                                 *)
LoseRaceStale(s) ==
  /\ At(s, "insert")
  /\ inferenceLog[work[s].tx] # None
  /\ work' = [work EXCEPT ![s].verdict = None, ![s].step = AfterDetect(s)]
  /\ UNCHANGED <<inferenceLog, profile, alertTopic, alertLog, handling, answers>>

(* IntegrityError: the winner has committed; its row is read FOR SHARE.    *)
LoseRace(s) ==
  /\ At(s, "insert")
  /\ inferenceLog[work[s].tx] # None
  /\ work' = [work EXCEPT ![s].verdict = inferenceLog[work[s].tx],
                          ![s].step = AfterDetect(s)]
  /\ UNCHANGED <<inferenceLog, profile, alertTopic, alertLog, handling, answers>>

(* The alert goes out before the commit, under an id made of the clock.    *)
PublishAlert(s, ms) ==
  /\ At(s, "publish")
  /\ alertTopic' = alertTopic \union {[ms |-> ms, tx |-> work[s].tx]}
  /\ work' = [work EXCEPT ![s].step = AfterDetect(s)]
  /\ UNCHANGED <<inferenceLog, profile, alertLog, handling, answers>>

(* Faulty variant: a failed publication is logged and ignored.             *)
PublishIgnored(s, ms) ==
  /\ At(s, "publish")
  /\ work' = [work EXCEPT ![s].step = AfterDetect(s)]
  /\ UNCHANGED <<inferenceLog, profile, alertTopic, alertLog, handling, answers>>

(* send_and_wait raises after the broker stored the message: the detection *)
(* rolls back, the message stays.                                          *)
PublishUnconfirmed(s, ms) ==
  /\ At(s, "publish")
  /\ alertTopic' = alertTopic \union {[ms |-> ms, tx |-> work[s].tx]}
  /\ work' = [work EXCEPT ![s] = None]
  /\ UNCHANGED <<inferenceLog, profile, alertLog, handling, answers>>

(* update_profile_from_transaction in the consumer's session. With no row  *)
(* in its snapshot it creates one, unless the row exists by now (the plain *)
(* re-read still misses it) or Redis already holds a profile: then the     *)
(* transaction is left out of the profile for good.                        *)
UpdateProfile(s) ==
  /\ At(s, "fold")
  /\ \E fold \in {"none", "update", "create"} :
       /\ fold = "update" <=> work[s].snap # None
       /\ fold = "create" => profile = None /\ ~ ProfileLocked
       /\ work' = [work EXCEPT ![s].fold = fold, ![s].step = "commit"]
  /\ UNCHANGED <<inferenceLog, profile, alertTopic, alertLog, handling, answers>>

--------------------------------------------------------------------------------

(* Faulty variant: the profile update counts the transaction again.        *)
CountedTwice(w) ==
  w.snap.count + (IF w.owns THEN 1 ELSE 0) + (IF w.fold = "update" THEN 1 ELSE 0)

(* tx_count as the session leaves it: detect adds one to the snapshot's    *)
(* value if it inserted the row; the profile update then keeps it, at      *)
(* least 1 (already_counted).                                              *)
CountedBy(w) ==
  LET detected == w.snap.count + (IF w.owns THEN 1 ELSE 0)
  IN  IF w.fold = "update" /\ detected = 0 THEN 1 ELSE detected

(* The profile row after w commits. A column is written only if the        *)
(* session changed it, and then with the session's value.                  *)
ProfileAfter(w) ==
  CASE w.fold = "create" ->
         [count |-> 1, folded |-> [FreshProfile.folded EXCEPT ![w.tx] = 1]]
    [] w.fold # "create" /\ w.snap # None ->
         [count  |-> IF CountedBy(w) # w.snap.count
                       THEN CountedBy(w) ELSE profile.count,
          folded |-> IF w.fold = "update"
                       THEN [w.snap.folded EXCEPT ![w.tx] = @ + 1]
                       ELSE profile.folded]
    [] OTHER -> profile

(* get_db commits when the endpoint returns; the consumer commits itself.  *)
Commit(s) ==
  /\ At(s, "commit")
  /\ inferenceLog' = IF work[s].owns
                       THEN [inferenceLog EXCEPT ![work[s].tx] = work[s].verdict]
                       ELSE inferenceLog
  /\ profile' = ProfileAfter(work[s])
  /\ work' = [work EXCEPT ![s] = IF s \in Consumer THEN None
                                 ELSE [@ EXCEPT !.step = "reply", !.owns = FALSE]]
  /\ UNCHANGED <<alertTopic, alertLog, handling, answers>>

(* The response reaches the client.                                        *)
Reply(s) ==
  /\ At(s, "reply")
  /\ answers' = answers \union {<<work[s].tx, work[s].verdict>>}
  /\ work' = [work EXCEPT ![s] = None]
  /\ UNCHANGED <<inferenceLog, profile, alertTopic, alertLog, handling>>

(* Any exception before the commit (lock timeout, deadlock victim, Kafka   *)
(* down) rolls back: a 500 to the client, a swallowed message in the       *)
(* consumer. After the commit only the response is lost.                   *)
Abort(s) ==
  /\ work[s] # None
  /\ work' = [work EXCEPT ![s] = None]
  /\ UNCHANGED <<inferenceLog, profile, alertTopic, alertLog, handling, answers>>

--------------------------------------------------------------------------------

(* GET profile or user.registered creates the row (get_or_create_profile); *)
(* its unique key makes it wait for an open creator.                       *)
CreateProfile ==
  /\ profile = None
  /\ ~ ProfileLocked
  /\ profile' = FreshProfile
  /\ UNCHANGED <<inferenceLog, alertTopic, alertLog, work, handling, answers>>

(* Faulty variant: no look at the existing rows.                           *)
ReadAlertUnchecked(c, m) ==
  /\ Idle(c)
  /\ handling' = [handling EXCEPT ![c] = m]
  /\ UNCHANGED <<inferenceLog, profile, alertTopic, alertLog, work, answers>>

(* handle_fds_alert: the row is looked up by (user, message id). A message *)
(* can be delivered again at any time: nothing leaves the topic.           *)
ReadAlert(c, m) ==
  /\ Idle(c)
  /\ \A n \in Message : n.ms = m.ms => alertLog[n] = 0
  /\ handling' = [handling EXCEPT ![c] = m]
  /\ UNCHANGED <<inferenceLog, profile, alertTopic, alertLog, work, answers>>

SaveAlert(c) ==
  /\ handling[c] # None
  /\ alertLog' = [alertLog EXCEPT ![handling[c]] = @ + 1]
  /\ handling' = [handling EXCEPT ![c] = None]
  /\ UNCHANGED <<inferenceLog, profile, alertTopic, work, answers>>

(* The handler's catch-all: logged, and the loop goes on.                  *)
DropAlert(c) ==
  /\ handling[c] # None
  /\ handling' = [handling EXCEPT ![c] = None]
  /\ UNCHANGED <<inferenceLog, profile, alertTopic, alertLog, work, answers>>

(* The process dies: open transactions roll back, rows and topics stay.    *)
Crash ==
  /\ \E s \in Session : ~ Idle(s)
  /\ work' = [s \in Session |-> None]
  /\ handling' = [c \in Consumer |-> None]
  /\ UNCHANGED <<inferenceLog, profile, alertTopic, alertLog, answers>>

Detect(s) ==
  \/ \E t \in Tx : FindVerdict(s, t)
  \/ \E t \in Tx, v \in Verdict : Score(s, t, v)
  \/ InsertLog(s)
  \/ LoseRace(s)
  \/ \E ms \in Stamp : PublishAlert(s, ms)
  \/ \E ms \in Stamp : PublishUnconfirmed(s, ms)
  \/ UpdateProfile(s)
  \/ Commit(s)
  \/ Reply(s)
  \/ Abort(s)

HandleAlert(c) ==
  \/ \E m \in alertTopic : ReadAlert(c, m)
  \/ SaveAlert(c)
  \/ DropAlert(c)

Next ==
  \/ \E s \in Session : Detect(s)
  \/ \E c \in Consumer : HandleAlert(c)
  \/ CreateProfile
  \/ Crash

Spec == Init /\ [][Next]_vars

--------------------------------------------------------------------------------
(* Properties.                                                             *)

Register == INSTANCE VerdictRegister WITH verdict <- inferenceLog

(* Refinement: through every race, redelivery, rollback and crash, the log *)
(* and the responses behave like the abstract register: a committed        *)
(* verdict is never replaced or lost, and each client asking about a       *)
(* transaction is told the one verdict that was committed for it           *)
(* (FdsDetector.detect, detector.py 105-114 and 161-168).                  *)
VerdictOnce == Register!Spec

(* No committed HIGH verdict without its alert on the topic: publishing    *)
(* comes before the commit and its failure undoes the verdict.             *)
AlertedVerdictPublished ==
  \A t \in Tx : inferenceLog[t] \in Alerting => \E m \in alertTopic : m.tx = t

(* No transaction enters the profile's statistics twice, and none whose    *)
(* verdict was not committed with it: redelivery meets the log row the     *)
(* first delivery committed in the same database transaction. One          *)
(* consumer loop, as deployed.                                             *)
FoldedOnce ==
  profile # None =>
    \A t \in Tx : /\ profile.folded[t] <= 1
                  /\ profile.folded[t] > 0 => inferenceLog[t] # None

(* tx_count, which chooses the scoring weights, never runs ahead of the    *)
(* transactions that were judged: detect and the profile update it is      *)
(* followed by count a transaction once between them (already_counted).    *)
CountWithinLog ==
  profile # None =>
    profile.count <= Cardinality({t \in Tx : inferenceLog[t] # None})

(* One delivery or ten, an alert message leaves at most one row, and two   *)
(* messages with one id leave one row between them (handle_fds_alert with  *)
(* one consumer loop; the table itself has no unique index).               *)
AlertRowOncePerMessage ==
  \A m, n \in Message :
    /\ alertLog[m] <= 1
    /\ m.ms = n.ms /\ alertLog[m] > 0 /\ alertLog[n] > 0 => m = n

(* What handle_fds_alert's docstring says: alerts of one TRANSACTION leave *)
(* one row however often they come (consumer.py 74).                       *)
AlertRowOncePerTransaction ==
  \A m, n \in Message :
    m.tx = n.tx /\ alertLog[m] > 0 /\ alertLog[n] > 0 => m = n

(* What the column's description says: tx_count is the number of           *)
(* transactions so far (README 706), here once nothing is in progress.     *)
CountIsTotal ==
  (profile # None /\ \A s \in Session : work[s] = None) =>
    profile.count = Cardinality({t \in Tx : inferenceLog[t] # None})
================================================================================
