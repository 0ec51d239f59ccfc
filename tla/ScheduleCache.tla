----------------------------- MODULE ScheduleCache -----------------------------
(***************************************************************************)
(* One user's academic schedule and the Redis copy of the event buffer     *)
(* computed from it: POST /spending/schedule, POST /calendar/sync, and the *)
(* readers of the buffer (GET event-buffer, gRPC GetDailyBudget).          *)
(*                                                                         *)
(* A sync replaces the automatic rows by start date: its DELETE reads the  *)
(* current rows of the range through idx_user_date, locks them and the     *)
(* gaps between them until the session ends (REPEATABLE READ), and removes *)
(* the automatic ones. Gap locks keep other sessions' INSERTs out, not     *)
(* their DELETEs; two syncs that block each other's INSERT are a deadlock, *)
(* and MySQL rolls one of them back.                                       *)
(***************************************************************************)
EXTENDS Naturals

CONSTANTS
  Entry,       \* academic_calendar rows: [univ, term, start, end]
  Own,         \* schedules the user may register himself: [start, end]
  Soon,        \* the rows of the coming seven days
  Session,     \* concurrent requests
  Copies,      \* bound: how often the user registers one schedule
  RedisFails,  \* whether Redis calls may fail (each is then ignored)
  DbFails,     \* whether the buffer's SELECT may fail (it is then 0)
  None         \* no cached value, no request in progress

VARIABLES
  rows,        \* committed academic_schedule: how many copies of each row
  university,  \* university_id of the user's committed profile row, or None
  cached,      \* work:event_buffer in Redis, or None
  work,        \* the request each session is in the middle of, or None
  past,        \* history: the buffers of all committed schedules so far
  settled      \* history: whether the last change overlapped no reader and
               \* nothing has failed since it began

vars == <<rows, university, cached, work, past, settled>>

(* is_auto says which of the two kinds a row is.                           *)
Row == Entry \union Own

Calendar == {<<e.univ, e.term>> : e \in Entry}
Entries(c) == {e \in Entry : <<e.univ, e.term>> = c}

(* The dates a sync clears: from the first start to the last end.          *)
InRange(c, r) ==
  /\ \E e \in Entries(c) : e.start <= r.start
  /\ \E e \in Entries(c) : r.start <= e.end

Cleared(c) == {e \in Entry : InRange(c, e)}

(* A buffer is the sum of expected_extra_spend over the coming seven days; *)
(* which rows are summed stands for the sum.                               *)
Buffers == [Soon -> Nat]
Buffer == [r \in Soon |-> rows[r]]
Zero == [r \in Soon |-> 0]

Register == [op : {"register"}, row : Own,
             step : {"insert", "invalidate", "commit"}, alone : BOOLEAN]

Sync == [op : {"sync"}, cal : Calendar,
         step : {"delete", "insert", "profile", "invalidate", "commit"},
         gone : [Entry -> Nat],                    \* what its DELETE removed
         seen : {e.univ : e \in Entry} \union {None},  \* university_id in its snapshot
         alone : BOOLEAN]        \* history: it has overlapped no reader so far

Read == [op : {"read"}, step : {"look", "set", "set again"}, value : Buffers]

Request == Register \union Sync \union Read

(* start_date never follows end_date in the calendars administrators keep. *)
ASSUME ScheduleAssumption ==
  /\ \A r \in Row : r.start \in Nat
  /\ \A e \in Entry : e.end \in Nat /\ e.start <= e.end
  /\ Entry \intersect Own = {} /\ Soon \subseteq Row
  /\ Copies \in Nat /\ RedisFails \in BOOLEAN /\ DbFails \in BOOLEAN
  /\ None \notin Buffers /\ None \notin Request
  /\ \A e \in Entry : e.univ # None

(* Rows, the cached value and requests have the shape the code gives them. *)
TypeOK ==
  /\ rows \in [Row -> Nat]
  /\ university \in {e.univ : e \in Entry} \union {None}
  /\ cached \in Buffers \union {None}
  /\ work \in [Session -> Request \union {None}]
  /\ past \subseteq Buffers /\ settled \in BOOLEAN

Init ==
  /\ rows = [r \in Row |-> 0]
  /\ university = None
  /\ cached = None
  /\ work = [s \in Session |-> None]
  /\ past = {Zero} /\ settled = TRUE

--------------------------------------------------------------------------------

At(s, op, step) == work[s] # None /\ work[s].op = op /\ work[s].step = step

Reading(s) == work[s] # None /\ work[s].op = "read"
Unread == \A s \in Session : ~ Reading(s)

Goto(s, step) == work' = [work EXCEPT ![s].step = step]

(* Past its DELETE a sync holds the range; past its INSERT the new rows.   *)
Deleted(s) == work[s] # None /\ work[s].op = "sync" /\ work[s].step # "delete"
Inserted(s) ==
  /\ work[s] # None
  /\ work[s].op = "sync" => work[s].step \notin {"delete", "insert"}
  /\ work[s].op = "register" => work[s].step # "insert"
  /\ work[s].op # "read"

NewRows(s) == IF work[s].op = "sync" THEN Entries(work[s].cal) ELSE {work[s].row}

(* The rows no other session may touch.                                    *)
Locks(s, r) ==
  \/ Inserted(s) /\ r \in NewRows(s)
  \/ Deleted(s) /\ InRange(work[s].cal, r) /\ rows[r] > 0

GapLocked(s, r) == Deleted(s) /\ InRange(work[s].cal, r)

(* POST /spending/schedule arrives.                                        *)
BeginRegister(s, r) ==
  /\ work[s] = None /\ rows[r] < Copies
  /\ work' = [work EXCEPT ![s] =
       [op |-> "register", row |-> r, step |-> "insert", alone |-> Unread]]
  /\ UNCHANGED <<rows, university, cached, past, settled>>

(* POST /calendar/sync arrives; its first SELECT takes the snapshot.       *)
BeginSync(s, c) ==
  /\ work[s] = None
  /\ work' = [work EXCEPT ![s] =
       [op |-> "sync", cal |-> c, step |-> "delete",
        gone |-> [e \in Entry |-> 0], seen |-> university, alone |-> Unread]]
  /\ UNCHANGED <<rows, university, cached, past, settled>>

(* Faulty variant: every automatic row goes, whatever its dates.           *)
DeleteAll(s) ==
  /\ At(s, "sync", "delete")
  /\ \A o \in Session \ {s} : \A r \in Row : ~ Locks(o, r)
  /\ work' = [work EXCEPT ![s].gone = [e \in Entry |-> rows[e]], ![s].step = "insert"]
  /\ UNCHANGED <<rows, university, cached, past, settled>>

(* The range DELETE waits for every locked row of the range, then removes  *)
(* the automatic ones it finds now, not those of its snapshot.             *)
DeleteAutoRows(s) ==
  /\ At(s, "sync", "delete")
  /\ \A o \in Session \ {s}, r \in Row : InRange(work[s].cal, r) => ~ Locks(o, r)
  /\ work' = [work EXCEPT
       ![s].gone = [e \in Entry |-> IF e \in Cleared(work[s].cal) THEN rows[e] ELSE 0],
       ![s].step = "insert"]
  /\ UNCHANGED <<rows, university, cached, past, settled>>

(* Faulty variant: READ COMMITTED, under which a DELETE locks no gaps.     *)
InsertUnguarded(s) ==
  /\ work[s] # None /\ work[s].op # "read" /\ work[s].step = "insert"
  /\ Goto(s, IF work[s].op = "sync" THEN "profile" ELSE "invalidate")
  /\ UNCHANGED <<rows, university, cached, past, settled>>

(* The flush of the new rows waits for other sessions' gap locks.          *)
InsertRows(s) ==
  /\ work[s] # None /\ work[s].op # "read" /\ work[s].step = "insert"
  /\ \A o \in Session \ {s}, r \in NewRows(s) : ~ GapLocked(o, r)
  /\ Goto(s, IF work[s].op = "sync" THEN "profile" ELSE "invalidate")
  /\ UNCHANGED <<rows, university, cached, past, settled>>

(* The profile row is read in the snapshot and its university set.         *)
SetUniversity(s) ==
  /\ At(s, "sync", "profile")
  /\ Goto(s, "invalidate")
  /\ UNCHANGED <<rows, university, cached, past, settled>>

(* Faulty variant: only the registration drops the cached buffer.          *)
InvalidateOnRegister(s) ==
  /\ work[s] # None /\ work[s].op # "read" /\ work[s].step = "invalidate"
  /\ \/ /\ cached' = IF work[s].op = "register" THEN None ELSE cached
        /\ Goto(s, "commit")
     \/ /\ RedisFails
        /\ work' = [work EXCEPT ![s].step = "commit", ![s].alone = FALSE]
        /\ UNCHANGED cached
  /\ UNCHANGED <<rows, university, past, settled>>

(* delete_event_buffer_cache, before the commit. A failing Redis keeps the *)
(* old value. Publishing follows: a sync fails with it (Abort).            *)
Invalidate(s) ==
  /\ work[s] # None /\ work[s].op # "read" /\ work[s].step = "invalidate"
  /\ \/ cached' = None /\ Goto(s, "commit")
     \/ /\ RedisFails
        /\ work' = [work EXCEPT ![s].step = "commit", ![s].alone = FALSE]
        /\ UNCHANGED cached
  /\ UNCHANGED <<rows, university, past, settled>>

(* The committed rows after s: the removed ones are gone, the new there.   *)
RowsAfter(s) ==
  [r \in Row |-> (IF work[s].op = "sync" /\ r \in Entry THEN rows[r] - work[s].gone[r]
                                                        ELSE rows[r])
                   + (IF r \in NewRows(s) THEN 1 ELSE 0)]

(* get_db commits. university_id is written only if it changed.            *)
Commit(s) ==
  /\ work[s] # None /\ work[s].op # "read" /\ work[s].step = "commit"
  /\ rows' = RowsAfter(s)
  /\ university' = IF work[s].op = "sync" /\ work[s].cal[1] # work[s].seen
                     THEN work[s].cal[1] ELSE university
  /\ past' = past \union {[r \in Soon |-> rows'[r]]}
  /\ settled' = work[s].alone
  /\ work' = [work EXCEPT ![s] = None]
  /\ UNCHANGED cached

(* No such calendar, a deadlock victim, a failed publication in a sync, a  *)
(* crash: the rows stay as they were; a dropped cache entry stays dropped. *)
Abort(s) ==
  /\ work[s] # None
  /\ work' = [work EXCEPT ![s] = None]
  /\ UNCHANGED <<rows, university, cached, past, settled>>

--------------------------------------------------------------------------------

(* The endpoint finds nothing cached. (A hit changes nothing.)             *)
BeginRead(s) ==
  /\ work[s] = None
  /\ cached = None \/ RedisFails
  /\ work' = [o \in Session |->
       IF o = s THEN [op |-> "read", step |-> "look", value |-> Zero]
       ELSE IF work[o] # None /\ work[o].op # "read" THEN [work[o] EXCEPT !.alone = FALSE]
       ELSE work[o]]
  /\ UNCHANGED <<rows, university, cached, past, settled>>

(* Faulty variant: the second look trusts the first one's key to be there. *)
LookAgainUnchecked(s) ==
  /\ At(s, "read", "look")
  /\ work' = [work EXCEPT ![s].value = cached, ![s].step = "set again"]
  /\ UNCHANGED <<rows, university, cached, past, settled>>

(* The service looks again, and finds what somebody cached meanwhile: the  *)
(* endpoint will cache that value once more.                               *)
LookAgain(s) ==
  /\ At(s, "read", "look") /\ cached # None
  /\ work' = [work EXCEPT ![s].value = cached, ![s].step = "set again"]
  /\ UNCHANGED <<rows, university, cached, past, settled>>

(* Faulty variant: rows that are not committed yet are counted.            *)
SelectDirty(s) ==
  /\ At(s, "read", "look") /\ (cached = None \/ RedisFails)
  /\ work' = [work EXCEPT ![s].step = "set", ![s].value =
       [r \in Soon |-> rows[r] + (IF \E o \in Session : Inserted(o) /\ r \in NewRows(o)
                                    THEN 1 ELSE 0)]]
  /\ UNCHANGED <<rows, university, cached, past, settled>>

(* The rows are summed as committed now; a failing database counts as 0,   *)
(* which only the endpoint caches.                                         *)
SelectRows(s) ==
  /\ At(s, "read", "look") /\ (cached = None \/ RedisFails)
  /\ \/ /\ work' = [work EXCEPT ![s].value = Buffer, ![s].step = "set"]
        /\ UNCHANGED settled
     \/ /\ DbFails
        /\ work' = [work EXCEPT ![s].value = Zero, ![s].step = "set again"]
        /\ settled' = FALSE
  /\ UNCHANGED <<rows, university, cached, past>>

(* get_event_buffer caches the value, then its endpoint does so again; the *)
(* gRPC method does not.                                                   *)
SetCache(s) ==
  /\ Reading(s) /\ work[s].step # "look"
  /\ cached' = work[s].value \/ (RedisFails /\ cached' = cached)
  /\ \/ work[s].step = "set" /\ Goto(s, "set again")
     \/ work' = [work EXCEPT ![s] = None]
  /\ UNCHANGED <<rows, university, past, settled>>

(* The time to live of an hour is over.                                    *)
Expire ==
  /\ cached # None
  /\ cached' = None
  /\ UNCHANGED <<rows, university, work, past, settled>>

Write(s) ==
  \/ \E r \in Own : BeginRegister(s, r)
  \/ \E c \in Calendar : BeginSync(s, c)
  \/ DeleteAutoRows(s)
  \/ InsertRows(s)
  \/ SetUniversity(s)
  \/ Invalidate(s)
  \/ Commit(s)

ReadBuffer(s) ==
  \/ BeginRead(s)
  \/ LookAgain(s)
  \/ SelectRows(s)
  \/ SetCache(s)

Next ==
  \/ \E s \in Session : Write(s) \/ ReadBuffer(s) \/ Abort(s)
  \/ Expire

Spec == Init /\ [][Next]_vars

--------------------------------------------------------------------------------
(* Properties.                                                             *)

Committing(s) == Commit(s) /\ work[s].op = "sync"

(* A sync overwrites: when it commits, the automatic rows of its dates are *)
(* its calendar's, each once, whoever registers or syncs at the same time  *)
(* (calendar.py 74; nothing but the range DELETE keeps two syncs of one    *)
(* calendar from leaving every row twice).                                 *)
SyncOverwrites ==
  [][\A s \in Session : Committing(s) =>
       \A e \in Cleared(work[s].cal) :
         rows'[e] = IF e \in Entries(work[s].cal) THEN 1 ELSE 0]_vars

Whole(c) == \A e \in Entries(c) : rows[e] > 0

(* A term once registered stays, until a calendar is synced whose dates    *)
(* meet its own: the next term does not wipe the last one's report         *)
(* (calendar.py 110-118).                                                  *)
TermKept ==
  [][\A c \in Calendar : (Whole(c) /\ ~ Whole(c)') =>
       \E s \in Session : Committing(s) /\ Entries(c) \intersect Cleared(work[s].cal) # {}]_vars

(* Whatever is cached was the buffer of a committed schedule, or the zero  *)
(* a failing database stands for; never of one that was rolled back.       *)
CachedWasCommitted == cached # None => cached \in past

(* Readers overlap, cache what another one cached and put back what was    *)
(* just dropped. Yet a change that overlaps none of them, and whose Redis  *)
(* call works, repairs whatever earlier races left behind: from then on,   *)
(* until a change is overlapped or the database fails, whoever finds a     *)
(* buffer in Redis finds the one of the committed schedule                 *)
(* (redis/client.py 125-140, spending.py 82-86, calendar.py 157).          *)
AloneRefreshes == settled /\ cached # None => cached = Buffer

(* What the invalidation is for (redis/client.py 129-131): after a change  *)
(* the old buffer is not handed out for an hour.                           *)
BufferFresh ==
  (cached # None /\ \A s \in Session : work[s] = None) => cached = Buffer
================================================================================
