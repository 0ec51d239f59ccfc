-------------------------- MODULE ScheduleCacheProofs --------------------------
(***************************************************************************)
(* Machine-checked proofs about ScheduleCache, for any calendars, any      *)
(* schedules and any number of concurrent requests.                        *)
(***************************************************************************)
EXTENDS ScheduleCache, TLAPS

--------------------------------------------------------------------------------
(* The inductive invariant.                                                *)

(* What a sync deleted is still there in the committed rows: nobody else   *)
(* has changed its range since.                                            *)
GoneIsThere ==
  \A s \in Session : Deleted(s) =>
    \A e \in Entry :
      work[s].gone[e] = IF e \in Cleared(work[s].cal) THEN rows[e] ELSE 0

(* Two syncs past their DELETE share no existing row.                      *)
RangesApart ==
  \A s, o \in Session : Deleted(s) /\ Deleted(o) /\ s # o =>
    \A e \in Cleared(work[s].cal) \intersect Cleared(work[o].cal) : rows[e] = 0

(* New rows are in nobody else's range.                                    *)
NewRowsApart ==
  \A s, o \in Session : Inserted(s) /\ Deleted(o) /\ s # o =>
    \A r \in NewRows(s) : ~ InRange(work[o].cal, r)

(* Readers, too, hold only what was committed.                             *)
ReadersCommitted ==
  /\ Zero \in past /\ Buffer \in past
  /\ \A s \in Session : Reading(s) => work[s].value \in past

(* Who changes the schedule alone is overlapped by no reader, and what he  *)
(* commits finds nothing cached.                                           *)
AloneUnread ==
  \A s \in Session : (work[s] # None /\ work[s].op # "read" /\ work[s].alone) =>
    Unread /\ (work[s].step = "commit" => cached = None)

(* Once settled, all that is cached or about to be is the present buffer.  *)
SettledReaders ==
  settled =>
    /\ cached # None => cached = Buffer
    /\ \A s \in Session : (Reading(s) /\ work[s].step # "look") => work[s].value = Buffer

RowsInv == TypeOK /\ GoneIsThere /\ RangesApart /\ NewRowsApart

CacheInv == CachedWasCommitted /\ ReadersCommitted /\ AloneUnread /\ SettledReaders

--------------------------------------------------------------------------------
(* The requests a session may be in the middle of.                         *)

(* op tells the three kinds apart.                                         *)
LEMMA RequestKinds ==
  ASSUME NEW w \in Request
  PROVE  /\ w # None
         /\ w.op = "register" => w \in Register
         /\ w.op = "sync" => w \in Sync
         /\ w.op = "read" => w \in Read
         /\ w.op \in {"register", "sync", "read"}
  BY ScheduleAssumption DEF Request, Register, Sync, Read

(* A calendar's own entries are among the dates it clears.                 *)
LEMMA EntriesCleared ==
  ASSUME NEW c \in Calendar
  PROVE  Entries(c) \subseteq Cleared(c)
  BY ScheduleAssumption DEF Entries, Cleared, InRange, Row

(* A write's steps keep it a request of its kind.                          *)
LEMMA StepType ==
  /\ \A w \in Sync, x \in {"delete", "insert", "profile", "invalidate", "commit"} :
       [w EXCEPT !.step = x] \in Sync
  /\ \A w \in Register, x \in {"insert", "invalidate", "commit"} :
       [w EXCEPT !.step = x] \in Register
  /\ \A w \in Read, x \in {"look", "set", "set again"} : [w EXCEPT !.step = x] \in Read
  BY DEF Sync, Register, Read

(* The rows a commit leaves are counted again.                             *)
LEMMA CommitRows ==
  ASSUME TypeOK, GoneIsThere, NEW s \in Session, Commit(s)
  PROVE  /\ rows' \in [Row -> Nat]
         /\ \A e \in Entry : work[s].op = "sync" =>
              rows'[e] = (IF e \in Cleared(work[s].cal) THEN 0 ELSE rows[e])
                           + (IF e \in Entries(work[s].cal) THEN 1 ELSE 0)
         /\ \A e \in Entry : work[s].op = "register" => rows'[e] = rows[e]
         /\ [r \in Soon |-> rows'[r]] \in Buffers
<1>1. work[s] \in Request /\ work[s] # None
  BY DEF Commit, TypeOK
<1>2. rows' = RowsAfter(s) /\ work[s].op # "read" /\ work[s].step = "commit"
  BY DEF Commit
<1>3. \A e \in Entry : work[s].op = "sync" =>
        /\ work[s].gone[e] = IF e \in Cleared(work[s].cal) THEN rows[e] ELSE 0
        /\ e \in Row
  BY <1>1, <1>2 DEF GoneIsThere, Deleted, Row
<1>4. \A r \in Row : rows[r] \in Nat
  BY DEF TypeOK
<1>5. CASE work[s].op = "sync"
  BY <1>2, <1>3, <1>4, <1>5, ScheduleAssumption DEF RowsAfter, NewRows, Buffers, Row
<1>6. CASE work[s].op = "register"
  <2>1. work[s].row \in Own /\ NewRows(s) = {work[s].row}
    BY <1>1, <1>6, RequestKinds DEF Register, NewRows
  <2>2. QED
    BY <1>2, <1>4, <1>6, <2>1, ScheduleAssumption DEF RowsAfter, Buffers, Row
<1>7. QED
  BY <1>1, <1>2, <1>5, <1>6, RequestKinds

--------------------------------------------------------------------------------
(* Types.                                                                  *)

LEMMA TypeStep == TypeOK /\ GoneIsThere /\ [Next]_vars => TypeOK'
<1> SUFFICES ASSUME TypeOK, GoneIsThere, [Next]_vars PROVE TypeOK'
  OBVIOUS
<1> USE DEF TypeOK
<1>1. ASSUME NEW s \in Session, NEW r \in Own, BeginRegister(s, r) PROVE TypeOK'
  <2>1. [op |-> "register", row |-> r, step |-> "insert", alone |-> Unread] \in Request
    BY DEF Request, Register, Unread
  <2>2. QED
    BY <1>1, <2>1 DEF BeginRegister
<1>2. ASSUME NEW s \in Session, NEW c \in Calendar, BeginSync(s, c) PROVE TypeOK'
  <2>1. [op |-> "sync", cal |-> c, step |-> "delete", gone |-> [e \in Entry |-> 0],
         seen |-> university, alone |-> Unread] \in Request
    BY DEF Request, Sync, Unread
  <2>2. QED
    BY <1>2, <2>1 DEF BeginSync
<1>3. ASSUME NEW s \in Session, DeleteAutoRows(s) PROVE TypeOK'
  <2> DEFINE g == [e \in Entry |-> IF e \in Cleared(work[s].cal) THEN rows[e] ELSE 0]
  <2>1. work[s] \in Sync /\ g \in [Entry -> Nat]
    BY <1>3, RequestKinds DEF DeleteAutoRows, At, Row
  <2>2. [work[s] EXCEPT !.gone = g, !.step = "insert"] \in Request
    BY <2>1 DEF Sync, Request
  <2>3. QED
    BY <1>3, <2>2 DEF DeleteAutoRows
<1>4. ASSUME NEW s \in Session, InsertRows(s) PROVE TypeOK'
  <2>1. work[s] \in Sync \/ work[s] \in Register
    BY <1>4, RequestKinds DEF InsertRows
  <2>2. work[s] \in Sync => work[s].op = "sync"
    BY DEF Sync
  <2>3. work[s] \in Register => work[s].op = "register"
    BY DEF Register
  <2>4. [work[s] EXCEPT !.step = IF work[s].op = "sync" THEN "profile" ELSE "invalidate"]
          \in Request
    BY <2>1, <2>2, <2>3, StepType DEF Request
  <2>5. QED
    BY <1>4, <2>4 DEF InsertRows, Goto
<1>5. ASSUME NEW s \in Session, SetUniversity(s) PROVE TypeOK'
  <2>1. work[s] \in Sync
    BY <1>5, RequestKinds DEF SetUniversity, At
  <2>2. [work[s] EXCEPT !.step = "invalidate"] \in Request
    BY <2>1, StepType DEF Request
  <2>3. QED
    BY <1>5, <2>2 DEF SetUniversity, Goto
<1>6. ASSUME NEW s \in Session, Invalidate(s) PROVE TypeOK'
  <2>1. work[s] \in Sync \/ work[s] \in Register
    BY <1>6, RequestKinds DEF Invalidate
  <2>2. /\ [work[s] EXCEPT !.step = "commit"] \in Request
        /\ [work[s] EXCEPT !.step = "commit", !.alone = FALSE] \in Request
    BY <2>1 DEF Sync, Register, Request
  <2>3. QED
    BY <1>6, <2>2 DEF Invalidate, Goto
<1>7. ASSUME NEW s \in Session, Commit(s) PROVE TypeOK'
  <2>1. work[s] \in Request
    BY <1>7 DEF Commit
  <2>2. work[s].op = "sync" => work[s].cal[1] \in {e.univ : e \in Entry}
    BY <2>1, RequestKinds DEF Sync, Calendar
  <2>3. work[s].alone \in BOOLEAN
    BY <1>7, <2>1, RequestKinds DEF Commit, Sync, Register
  <2>4. QED
    BY <1>7, <2>2, <2>3, CommitRows DEF Commit
<1>8. ASSUME NEW s \in Session, Abort(s) PROVE TypeOK'
  BY <1>8 DEF Abort
<1>9. ASSUME NEW s \in Session, BeginRead(s) PROVE TypeOK'
  <2>1. [op |-> "read", step |-> "look", value |-> Zero] \in Request
    BY DEF Request, Read, Buffers, Zero
  <2>2. \A o \in Session : work[o] # None /\ work[o].op # "read" =>
          [work[o] EXCEPT !.alone = FALSE] \in Request
    <3> SUFFICES ASSUME NEW o \in Session, work[o] # None, work[o].op # "read"
                 PROVE  [work[o] EXCEPT !.alone = FALSE] \in Request
      OBVIOUS
    <3>1. work[o] \in Sync \/ work[o] \in Register
      BY RequestKinds
    <3>2. QED
      BY <3>1 DEF Sync, Register, Request
  <2>3. QED
    BY <1>9, <2>1, <2>2 DEF BeginRead
<1>10. ASSUME NEW s \in Session, LookAgain(s) PROVE TypeOK'
  <2>1. work[s] \in Read
    BY <1>10, RequestKinds DEF LookAgain, At
  <2>2. [work[s] EXCEPT !.value = cached, !.step = "set again"] \in Request
    BY <1>10, <2>1 DEF LookAgain, Read, Request
  <2>3. QED
    BY <1>10, <2>2 DEF LookAgain
<1>11. ASSUME NEW s \in Session, SelectRows(s) PROVE TypeOK'
  <2>1. work[s] \in Read
    BY <1>11, RequestKinds DEF SelectRows, At
  <2>2. Buffer \in Buffers /\ Zero \in Buffers
    BY ScheduleAssumption DEF Buffer, Buffers, Zero
  <2>3. ASSUME NEW v \in Buffers, NEW step \in {"set", "set again"}
        PROVE  [work[s] EXCEPT !.value = v, !.step = step] \in Request
    BY <2>1 DEF Read, Request
  <2>4. PICK v \in Buffers, step \in {"set", "set again"} :
          work' = [work EXCEPT ![s].value = v, ![s].step = step]
    BY <1>11, <2>2 DEF SelectRows
  <2>5. QED
    BY <1>11, <2>3, <2>4 DEF SelectRows
<1>12. ASSUME NEW s \in Session, SetCache(s) PROVE TypeOK'
  <2>1. work[s] \in Read
    BY <1>12, RequestKinds DEF SetCache, Reading
  <2>2. work[s].value \in Buffers /\ [work[s] EXCEPT !.step = "set again"] \in Request
    BY <2>1, StepType DEF Read, Request
  <2>3. QED
    BY <1>12, <2>2 DEF SetCache, Goto
<1>13. CASE Expire
  BY <1>13 DEF Expire
<1>14. CASE UNCHANGED vars
  BY <1>14 DEF vars
<1>15. QED
  BY <1>1, <1>2, <1>3, <1>4, <1>5, <1>6, <1>7, <1>8, <1>9, <1>10, <1>11, <1>12, <1>13, <1>14
  DEF Next, Write, ReadBuffer

--------------------------------------------------------------------------------
(* Two syncs of meeting dates exclude each other from DELETE to commit.    *)

(* A step that leaves the rows alone and gives no session a new range or   *)
(* new rows keeps the locking invariant.                                   *)
LEMMA NoNewHolder ==
  ASSUME GoneIsThere, RangesApart, NewRowsApart, rows' = rows,
         \A o \in Session : Deleted(o)' =>
           Deleted(o) /\ work'[o].cal = work[o].cal /\ work'[o].gone = work[o].gone,
         \A o \in Session : Inserted(o)' => Inserted(o) /\ NewRows(o)' = NewRows(o)
  PROVE  (GoneIsThere /\ RangesApart /\ NewRowsApart)'
<1>1. GoneIsThere'
  BY DEF GoneIsThere
<1>2. RangesApart'
  BY DEF RangesApart
<1>3. NewRowsApart'
  BY DEF NewRowsApart
<1>4. QED
  BY <1>1, <1>2, <1>3

LEMMA RowsStep == RowsInv /\ [Next]_vars => RowsInv'
<1> SUFFICES ASSUME RowsInv, [Next]_vars PROVE (GoneIsThere /\ RangesApart /\ NewRowsApart)'
  BY TypeStep DEF RowsInv
<1>0. /\ TypeOK /\ GoneIsThere /\ RangesApart /\ NewRowsApart
      /\ \A s \in Session : work[s] # None => work[s] \in Request
      /\ work \in [Session -> Request \union {None}]
      /\ rows \in [Row -> Nat]
  BY DEF RowsInv, TypeOK
<1>1. ASSUME NEW s \in Session, NEW r \in Own, BeginRegister(s, r)
      PROVE  (GoneIsThere /\ RangesApart /\ NewRowsApart)'
  <2>1. /\ rows' = rows /\ \A o \in Session : o # s => work'[o] = work[o]
        /\ work'[s].op = "register" /\ work'[s].step = "insert"
    BY <1>0, <1>1 DEF BeginRegister
  <2>2. QED
    BY <1>0, <2>1, NoNewHolder DEF Deleted, Inserted, NewRows
<1>2. ASSUME NEW s \in Session, NEW c \in Calendar, BeginSync(s, c)
      PROVE  (GoneIsThere /\ RangesApart /\ NewRowsApart)'
  <2>1. /\ rows' = rows /\ \A o \in Session : o # s => work'[o] = work[o]
        /\ work'[s].op = "sync" /\ work'[s].step = "delete"
    BY <1>0, <1>2 DEF BeginSync
  <2>2. QED
    BY <1>0, <2>1, NoNewHolder DEF Deleted, Inserted, NewRows
<1>3. ASSUME NEW s \in Session, DeleteAutoRows(s)
      PROVE  (GoneIsThere /\ RangesApart /\ NewRowsApart)'
  <2>1. /\ work[s] \in Sync /\ work[s].op = "sync" /\ work[s].cal \in Calendar
        /\ work[s].step = "delete"
    BY <1>0, <1>3, RequestKinds DEF DeleteAutoRows, At, Sync
  <2>2. /\ rows' = rows
        /\ \A o \in Session : o # s => work'[o] = work[o]
        /\ work'[s].op = "sync" /\ work'[s].cal = work[s].cal /\ work'[s].step = "insert"
        /\ work'[s].gone = [e \in Entry |-> IF e \in Cleared(work[s].cal) THEN rows[e] ELSE 0]
    BY <1>0, <1>3, <2>1 DEF DeleteAutoRows, Sync
  <2>3. \A o \in Session, r \in Row : o # s /\ InRange(work[s].cal, r) => ~ Locks(o, r)
    BY <1>3 DEF DeleteAutoRows
  <2>4. ASSUME NEW o \in Session, Deleted(o)', o # s
        PROVE  Deleted(o) /\ work'[o] = work[o]
    BY <2>2, <2>4 DEF Deleted
  <2>5. ASSUME NEW o \in Session, Inserted(o)'
        PROVE  o # s /\ Inserted(o) /\ NewRows(o)' = NewRows(o)
    BY <2>2, <2>5 DEF Inserted, NewRows
  <2>6. GoneIsThere'
    BY <1>0, <2>2, <2>4 DEF GoneIsThere
  <2>7. ASSUME NEW o \in Session, Deleted(o), o # s,
               NEW e \in Cleared(work[s].cal) \intersect Cleared(work[o].cal)
        PROVE  rows[e] = 0
    <3>1. e \in Row /\ InRange(work[s].cal, e) /\ InRange(work[o].cal, e)
      BY <2>7 DEF Cleared, Row
    <3>2. QED
      BY <1>0, <2>3, <2>7, <3>1 DEF Locks
  <2>8. RangesApart'
    BY <1>0, <2>2, <2>4, <2>7 DEF RangesApart
  <2>9. ASSUME NEW o \in Session, Inserted(o), o # s, NEW r \in NewRows(o)
        PROVE  ~ InRange(work[s].cal, r)
    <3>1. r \in Row
      BY <1>0, <2>9, RequestKinds DEF Inserted, NewRows, Register, Entries, Row
    <3>2. QED
      BY <2>3, <2>9, <3>1 DEF Locks
  <2>10. NewRowsApart'
    BY <1>0, <2>2, <2>4, <2>5, <2>9 DEF NewRowsApart
  <2>11. QED
    BY <2>6, <2>8, <2>10
<1>4. ASSUME NEW s \in Session, InsertRows(s)
      PROVE  (GoneIsThere /\ RangesApart /\ NewRowsApart)'
  <2>1. /\ rows' = rows
        /\ \A o \in Session : o # s => work'[o] = work[o]
        /\ work'[s] = [work[s] EXCEPT
             !.step = IF work[s].op = "sync" THEN "profile" ELSE "invalidate"]
    BY <1>0, <1>4 DEF InsertRows, Goto
  <2>2. /\ work[s] # None /\ work[s].step = "insert"
        /\ \/ work[s] \in Sync /\ work[s].op = "sync"
           \/ work[s] \in Register /\ work[s].op = "register"
    BY <1>0, <1>4, RequestKinds DEF InsertRows
  <2>3. /\ work'[s].op = work[s].op
        /\ work[s].op = "sync" =>
             work'[s].cal = work[s].cal /\ work'[s].gone = work[s].gone
        /\ work[s].op = "register" => work'[s].row = work[s].row
    BY <2>1, <2>2 DEF Sync, Register
  <2>4. ASSUME NEW o \in Session, Deleted(o)'
        PROVE  Deleted(o) /\ work'[o].cal = work[o].cal /\ work'[o].gone = work[o].gone
    BY <2>1, <2>2, <2>3, <2>4 DEF Deleted
  <2>5. ASSUME NEW o \in Session, o # s, Inserted(o)'
        PROVE  Inserted(o) /\ NewRows(o)' = NewRows(o)
    BY <2>1, <2>5 DEF Inserted, NewRows
  <2>6. NewRows(s)' = NewRows(s)
    BY <2>2, <2>3 DEF NewRows
  <2>7. \A o \in Session : o # s /\ Deleted(o) =>
          \A r \in NewRows(s) : ~ InRange(work[o].cal, r)
    BY <1>4 DEF InsertRows, GapLocked
  <2>8. GoneIsThere'
    BY <1>0, <2>1, <2>4 DEF GoneIsThere
  <2>9. RangesApart'
    BY <1>0, <2>1, <2>4 DEF RangesApart
  <2>10. NewRowsApart'
    BY <1>0, <2>4, <2>5, <2>6, <2>7 DEF NewRowsApart
  <2>11. QED
    BY <2>8, <2>9, <2>10
<1>5. ASSUME NEW s \in Session, SetUniversity(s) \/ Invalidate(s)
      PROVE  (GoneIsThere /\ RangesApart /\ NewRowsApart)'
  <2>1. /\ rows' = rows
        /\ \A o \in Session : o # s => work'[o] = work[o]
        /\ work[s] # None /\ work[s].step \notin {"delete", "insert"}
        /\ \/ work[s] \in Sync /\ work[s].op = "sync"
           \/ work[s] \in Register /\ work[s].op = "register"
    BY <1>0, <1>5, RequestKinds DEF SetUniversity, At, Goto, Invalidate
  <2>2. \E x \in {"invalidate", "commit"} :
          \/ work'[s] = [work[s] EXCEPT !.step = x]
          \/ work'[s] = [work[s] EXCEPT !.step = x, !.alone = FALSE]
    BY <1>0, <1>5 DEF SetUniversity, Invalidate, Goto
  <2>3. /\ work'[s].op = work[s].op
        /\ work[s].op = "sync" =>
             work'[s].cal = work[s].cal /\ work'[s].gone = work[s].gone
        /\ work[s].op = "register" => work'[s].row = work[s].row
    BY <2>1, <2>2 DEF Sync, Register
  <2>4. \A o \in Session : Deleted(o)' =>
          Deleted(o) /\ work'[o].cal = work[o].cal /\ work'[o].gone = work[o].gone
    BY <2>1, <2>3 DEF Deleted
  <2>5. \A o \in Session : Inserted(o)' => Inserted(o) /\ NewRows(o)' = NewRows(o)
    BY <2>1, <2>3 DEF Inserted, NewRows
  <2>6. QED
    BY <1>0, <2>1, <2>4, <2>5, NoNewHolder
<1>6. ASSUME NEW s \in Session, Commit(s)
      PROVE  (GoneIsThere /\ RangesApart /\ NewRowsApart)'
  <2>1. /\ work'[s] = None
        /\ \A o \in Session : o # s => work'[o] = work[o]
        /\ work[s] # None /\ work[s].step = "commit"
        /\ work[s].op \in {"register", "sync"}
    BY <1>0, <1>6, RequestKinds DEF Commit
  <2>2. ASSUME NEW o \in Session, o # s, Deleted(o), NEW e \in Cleared(work[o].cal)
        PROVE  rows'[e] = rows[e]
    <3>1. e \in Entry /\ InRange(work[o].cal, e)
      BY <2>2 DEF Cleared
    <3>2. CASE work[s].op = "register"
      BY <1>0, <1>6, <3>1, <3>2, CommitRows
    <3>3. CASE work[s].op = "sync"
      <4>1. Deleted(s) /\ Inserted(s) /\ NewRows(s) = Entries(work[s].cal)
        BY <2>1, <3>3 DEF Deleted, Inserted, NewRows
      <4>2. e \notin Entries(work[s].cal)
        BY <1>0, <2>2, <3>1, <4>1 DEF NewRowsApart
      <4>3. e \in Cleared(work[s].cal) => rows[e] = 0
        BY <1>0, <2>2, <4>1 DEF RangesApart
      <4>4. rows'[e] = (IF e \in Cleared(work[s].cal) THEN 0 ELSE rows[e])
                         + (IF e \in Entries(work[s].cal) THEN 1 ELSE 0)
        BY <1>0, <1>6, <3>1, <3>3, CommitRows
      <4>5. rows[e] \in Nat
        BY <1>0, <3>1 DEF Row
      <4>6. QED
        BY <4>2, <4>3, <4>4, <4>5
    <3>4. QED
      BY <2>1, <3>2, <3>3
  <2>3. ASSUME NEW o \in Session, Deleted(o)'
        PROVE  o # s /\ Deleted(o) /\ work'[o] = work[o]
    BY <2>1, <2>3 DEF Deleted
  <2>4. ASSUME NEW o \in Session, Inserted(o)'
        PROVE  o # s /\ Inserted(o) /\ NewRows(o)' = NewRows(o)
    BY <2>1, <2>4 DEF Inserted, NewRows
  <2>5. GoneIsThere'
    BY <1>0, <2>2, <2>3 DEF GoneIsThere
  <2>6. RangesApart'
    BY <1>0, <2>2, <2>3 DEF RangesApart
  <2>7. NewRowsApart'
    BY <1>0, <2>3, <2>4 DEF NewRowsApart
  <2>8. QED
    BY <2>5, <2>6, <2>7
<1>7. ASSUME NEW s \in Session, Abort(s) PROVE (GoneIsThere /\ RangesApart /\ NewRowsApart)'
  <2>1. rows' = rows /\ work'[s] = None /\ \A o \in Session : o # s => work'[o] = work[o]
    BY <1>0, <1>7 DEF Abort
  <2>2. QED
    BY <1>0, <2>1, NoNewHolder DEF Deleted, Inserted, NewRows
<1>8. ASSUME NEW s \in Session, BeginRead(s)
      PROVE  (GoneIsThere /\ RangesApart /\ NewRowsApart)'
  <2>1. rows' = rows /\ work'[s].op = "read"
    BY <1>8 DEF BeginRead
  <2>2. ASSUME NEW o \in Session, o # s
        PROVE  \/ work'[o] = work[o]
               \/ /\ work[o] \in Sync \union Register
                  /\ work'[o] = [work[o] EXCEPT !.alone = FALSE]
    BY <1>0, <1>8, <2>2, RequestKinds DEF BeginRead
  <2>3. ASSUME NEW o \in Session, o # s, work[o] \in Sync,
               work'[o] = [work[o] EXCEPT !.alone = FALSE]
        PROVE  /\ work[o] # None /\ work'[o].op = work[o].op /\ work'[o].step = work[o].step
               /\ work'[o].cal = work[o].cal /\ work'[o].gone = work[o].gone
               /\ work[o].op = "sync"
    BY <2>3, ScheduleAssumption DEF Sync, Request
  <2>4. ASSUME NEW o \in Session, o # s, work[o] \in Register,
               work'[o] = [work[o] EXCEPT !.alone = FALSE]
        PROVE  /\ work[o] # None /\ work'[o].op = work[o].op /\ work'[o].step = work[o].step
               /\ work'[o].row = work[o].row /\ work[o].op = "register"
    BY <2>4, ScheduleAssumption DEF Register, Request
  <2>5. \A o \in Session : Deleted(o)' =>
          Deleted(o) /\ work'[o].cal = work[o].cal /\ work'[o].gone = work[o].gone
    BY <2>1, <2>2, <2>3, <2>4 DEF Deleted
  <2>6. \A o \in Session : Inserted(o)' => Inserted(o) /\ NewRows(o)' = NewRows(o)
    BY <2>1, <2>2, <2>3, <2>4 DEF Inserted, NewRows
  <2>7. QED
    BY <1>0, <2>1, <2>5, <2>6, NoNewHolder
<1>9. ASSUME NEW s \in Session, LookAgain(s) \/ SelectRows(s) \/ SetCache(s)
      PROVE  (GoneIsThere /\ RangesApart /\ NewRowsApart)'
  <2>1. work[s] \in Read
    BY <1>0, <1>9, RequestKinds DEF LookAgain, SelectRows, SetCache, At, Reading
  <2>2. rows' = rows /\ \A o \in Session : o # s => work'[o] = work[o]
    BY <1>0, <1>9 DEF LookAgain, SelectRows, SetCache, Goto
  <2>3. work'[s] = None \/ work'[s].op = "read"
    <3>1. CASE LookAgain(s)
      BY <1>0, <2>1, <3>1 DEF LookAgain, Read
    <3>2. CASE SelectRows(s)
      BY <1>0, <2>1, <3>2, ZenonT(30) DEF SelectRows, Read
    <3>3. CASE SetCache(s)
      BY <1>0, <2>1, <3>3 DEF SetCache, Goto, Read
    <3>4. QED
      BY <1>9, <3>1, <3>2, <3>3
  <2>4. QED
    BY <1>0, <2>2, <2>3, NoNewHolder DEF Deleted, Inserted, NewRows
<1>10. CASE Expire \/ UNCHANGED vars
  BY <1>0, <1>10, NoNewHolder DEF Expire, vars, Deleted, Inserted, NewRows
<1>11. QED
  BY <1>1, <1>2, <1>3, <1>4, <1>5, <1>6, <1>7, <1>8, <1>9, <1>10 DEF Next, Write, ReadBuffer

LEMMA RowsInit == Init => RowsInv
  BY ScheduleAssumption DEF Init, RowsInv, TypeOK, GoneIsThere, RangesApart, NewRowsApart,
    Deleted, Inserted, Buffers, Zero

(* The rows, the cached value and the requests keep their shape: above all *)
(* no row is ever removed twice.                                           *)
THEOREM TypeCorrect == Spec => []TypeOK
<1>1. Spec => []RowsInv
  BY RowsInit, RowsStep, PTL DEF Spec
<1>2. QED
  BY <1>1, PTL DEF RowsInv

(* A sync leaves its dates exactly as its calendar says, whoever registers *)
(* or syncs at the same time.                                              *)
THEOREM SyncOverwritesHolds == Spec => SyncOverwrites
<1>1. ASSUME RowsInv, NEW s \in Session, Committing(s), NEW e \in Cleared(work[s].cal)
      PROVE  rows'[e] = IF e \in Entries(work[s].cal) THEN 1 ELSE 0
  <2>1. Commit(s) /\ work[s].op = "sync" /\ e \in Entry /\ TypeOK /\ GoneIsThere
    BY <1>1 DEF Committing, Cleared, RowsInv
  <2>2. rows'[e] = (IF e \in Cleared(work[s].cal) THEN 0 ELSE rows[e])
                     + (IF e \in Entries(work[s].cal) THEN 1 ELSE 0)
    BY <2>1, CommitRows
  <2>3. QED
    BY <2>2
<1>2. RowsInv /\ [Next]_vars =>
        [\A s \in Session : Committing(s) =>
           \A e \in Cleared(work[s].cal) :
             rows'[e] = IF e \in Entries(work[s].cal) THEN 1 ELSE 0]_vars
  BY <1>1
<1>3. Spec => []RowsInv
  BY RowsInit, RowsStep, PTL DEF Spec
<1>4. QED
  BY <1>2, <1>3, PTL DEF Spec, SyncOverwrites

(* A registered term is only ever cleared by a sync of meeting dates.      *)
THEOREM TermKeptHolds == Spec => TermKept
<1>1. ASSUME RowsInv, [Next]_vars, NEW c \in Calendar, Whole(c), ~ Whole(c)'
      PROVE  \E s \in Session :
               Committing(s) /\ Entries(c) \intersect Cleared(work[s].cal) # {}
  <2>1. PICK e \in Entries(c) : rows[e] > 0 /\ ~ (rows'[e] > 0)
    BY <1>1 DEF Whole
  <2>2. e \in Entry /\ rows[e] \in Nat
    BY <1>1, <2>1 DEF Entries, RowsInv, TypeOK, Row
  <2>3. rows' # rows
    BY <2>1
  <2>4. PICK s \in Session : Commit(s)
    BY <1>1, <2>3 DEF Next, Write, ReadBuffer, Abort, Expire, vars, BeginRegister, BeginSync,
      DeleteAutoRows, InsertRows, SetUniversity, Invalidate, BeginRead, LookAgain, SelectRows,
      SetCache
  <2>5. work[s] \in Request /\ work[s].op # "read"
    BY <1>1, <2>4 DEF RowsInv, TypeOK, Commit
  <2>6. work[s].op = "sync"
    <3>1. SUFFICES ASSUME work[s].op = "register" PROVE FALSE
      BY <2>5, RequestKinds
    <3>2. rows'[e] = rows[e]
      BY <1>1, <2>2, <2>4, <3>1, CommitRows DEF RowsInv
    <3>3. QED
      BY <2>1, <3>2
  <2>7. rows'[e] = (IF e \in Cleared(work[s].cal) THEN 0 ELSE rows[e])
                     + (IF e \in Entries(work[s].cal) THEN 1 ELSE 0)
    BY <1>1, <2>2, <2>4, <2>6, CommitRows DEF RowsInv
  <2>8. e \in Cleared(work[s].cal)
    BY <2>1, <2>2, <2>7
  <2>9. QED
    BY <2>1, <2>4, <2>6, <2>8 DEF Committing
<1>2. RowsInv /\ [Next]_vars =>
        [\A c \in Calendar : (Whole(c) /\ ~ Whole(c)') =>
           \E s \in Session :
             Committing(s) /\ Entries(c) \intersect Cleared(work[s].cal) # {}]_vars
  BY <1>1
<1>3. Spec => []RowsInv
  BY RowsInit, RowsStep, PTL DEF Spec
<1>4. QED
  BY <1>2, <1>3, PTL DEF Spec, TermKept

--------------------------------------------------------------------------------
(* The cached buffer.                                                      *)

(* Whatever is cached or about to be comes from a committed schedule.      *)
LEMMA CommittedStep ==
  RowsInv /\ CachedWasCommitted /\ ReadersCommitted /\ [Next]_vars =>
    (CachedWasCommitted /\ ReadersCommitted)'
<1> DEFINE Inv == CachedWasCommitted /\ ReadersCommitted
<1> SUFFICES ASSUME RowsInv, Inv, [Next]_vars PROVE Inv'
  OBVIOUS
<1>0. /\ CachedWasCommitted /\ ReadersCommitted
      /\ \A s \in Session : work[s] # None => work[s] \in Request
      /\ work \in [Session -> Request \union {None}]
  BY DEF RowsInv, TypeOK
<1>1. ASSUME NEW s \in Session, NEW r \in Own, BeginRegister(s, r) PROVE Inv'
  <2>1. /\ <<rows, cached, past>>' = <<rows, cached, past>>
        /\ \A o \in Session : o # s => work'[o] = work[o]
        /\ work'[s].op = "register" /\ work'[s].step = "insert"
    BY <1>0, <1>1 DEF BeginRegister
  <2>2. QED
    BY <1>0, <2>1 DEF CachedWasCommitted, ReadersCommitted, Reading, Buffer
<1>2. ASSUME NEW s \in Session, NEW c \in Calendar, BeginSync(s, c) PROVE Inv'
  <2>1. /\ <<rows, cached, past>>' = <<rows, cached, past>>
        /\ \A o \in Session : o # s => work'[o] = work[o]
        /\ work'[s].op = "sync" /\ work'[s].step = "delete"
    BY <1>0, <1>2 DEF BeginSync
  <2>2. QED
    BY <1>0, <2>1 DEF CachedWasCommitted, ReadersCommitted, Reading, Buffer
<1>3. ASSUME NEW s \in Session, DeleteAutoRows(s) \/ InsertRows(s) \/ SetUniversity(s)
      PROVE  Inv'
  <2>1. /\ <<rows, cached, past>>' = <<rows, cached, past>>
        /\ \A o \in Session : o # s => work'[o] = work[o]
        /\ work[s] \in Sync \union Register
    BY <1>0, <1>3, RequestKinds DEF DeleteAutoRows, InsertRows, SetUniversity, At, Goto
  <2>2. work'[s].op # "read" /\ work'[s].step # "commit"
    <3>1. CASE DeleteAutoRows(s)
      BY <1>0, <2>1, <3>1 DEF DeleteAutoRows, At, Sync, Register
    <3>2. CASE InsertRows(s)
      BY <1>0, <2>1, <3>2 DEF InsertRows, Goto, Sync, Register
    <3>3. CASE SetUniversity(s)
      BY <1>0, <2>1, <3>3 DEF SetUniversity, Goto, At, Sync, Register
    <3>4. QED
      BY <1>3, <3>1, <3>2, <3>3
  <2>3. QED
    BY <1>0, <2>1, <2>2
    DEF CachedWasCommitted, ReadersCommitted, Reading, Buffer
<1>4. ASSUME NEW s \in Session, Invalidate(s) PROVE Inv'
  <2>1. /\ rows' = rows /\ past' = past /\ cached' \in {None, cached}
        /\ \A o \in Session : o # s => work'[o] = work[o]
        /\ work[s] \in Sync \union Register
        /\ \/ work'[s] = [work[s] EXCEPT !.step = "commit"]
           \/ work'[s] = [work[s] EXCEPT !.step = "commit", !.alone = FALSE]
    BY <1>0, <1>4, RequestKinds DEF Invalidate, Goto
  <2>2. work'[s].op # "read"
    BY <2>1 DEF Sync, Register
  <2>3. \A o \in Session : Reading(o)' => Reading(o) /\ work'[o] = work[o]
    BY <2>1, <2>2 DEF Reading
  <2>4. QED
    BY <1>0, <2>1, <2>3 DEF CachedWasCommitted, ReadersCommitted, Buffer
<1>5. ASSUME NEW s \in Session, Commit(s) PROVE Inv'
  <2>1. /\ cached' = cached /\ past' = past \union {Buffer'} /\ work'[s] = None
        /\ \A o \in Session : o # s => work'[o] = work[o]
    BY <1>0, <1>5 DEF Commit, Buffer
  <2>2. QED
    BY <1>0, <2>1 DEF CachedWasCommitted, ReadersCommitted, Reading
<1>6. ASSUME NEW s \in Session, Abort(s) PROVE Inv'
  <2>1. /\ <<rows, cached, past>>' = <<rows, cached, past>> /\ work'[s] = None
        /\ \A o \in Session : o # s => work'[o] = work[o]
    BY <1>0, <1>6 DEF Abort
  <2>2. QED
    BY <1>0, <2>1 DEF CachedWasCommitted, ReadersCommitted, Reading, Buffer
<1>7. ASSUME NEW s \in Session, BeginRead(s) PROVE Inv'
  <2>1. /\ <<rows, cached, past>>' = <<rows, cached, past>>
        /\ work'[s].op = "read" /\ work'[s].value = Zero
    BY <1>7 DEF BeginRead
  <2>2. ASSUME NEW o \in Session, o # s
        PROVE  \/ work'[o] = work[o] /\ (work[o] = None \/ work[o].op = "read")
               \/ /\ work[o] \in Sync \union Register
                  /\ work'[o] = [work[o] EXCEPT !.alone = FALSE]
    BY <1>0, <1>7, <2>2, RequestKinds DEF BeginRead
  <2>3. ASSUME NEW o \in Session, o # s, work[o] \in Sync \union Register,
               work'[o] = [work[o] EXCEPT !.alone = FALSE]
        PROVE  work'[o].op # "read"
    BY <2>3 DEF Sync, Register
  <2>4. QED
    BY <1>0, <2>1, <2>2, <2>3 DEF CachedWasCommitted, ReadersCommitted, Buffer, Reading
<1>8. ASSUME NEW s \in Session, LookAgain(s) \/ SelectRows(s) PROVE Inv'
  <2>1. /\ <<rows, cached, past>>' = <<rows, cached, past>>
        /\ \A o \in Session : o # s => work'[o] = work[o]
        /\ work[s] \in Read /\ Reading(s)
    BY <1>0, <1>8, RequestKinds DEF LookAgain, SelectRows, At, Reading
  <2>2. work'[s].op = "read" /\ work'[s].value \in past
    <3>1. CASE LookAgain(s)
      BY <1>0, <2>1, <3>1 DEF LookAgain, Read, CachedWasCommitted
    <3>2. CASE SelectRows(s)
      <4>1. PICK value \in {Buffer, Zero}, step \in {"set", "set again"} :
              work' = [work EXCEPT ![s].value = value, ![s].step = step]
        BY <3>2 DEF SelectRows
      <4>2. value \in past
        BY <1>0 DEF ReadersCommitted
      <4>3. work'[s] = [work[s] EXCEPT !.value = value, !.step = step]
        BY <1>0, <4>1
      <4>4. work'[s].op = "read" /\ work'[s].value = value
        BY <2>1, <4>3 DEF Read
      <4>5. QED
        BY <4>2, <4>4
    <3>3. QED
      BY <1>8, <3>1, <3>2
  <2>3. QED
    BY <1>0, <2>1, <2>2
    DEF CachedWasCommitted, ReadersCommitted, Reading, Buffer
<1>9. ASSUME NEW s \in Session, SetCache(s) PROVE Inv'
  <2>1. /\ rows' = rows /\ past' = past /\ cached' \in {work[s].value, cached}
        /\ \A o \in Session : o # s => work'[o] = work[o]
        /\ work[s] \in Read /\ Reading(s)
    BY <1>0, <1>9, RequestKinds DEF SetCache, Goto, Reading
  <2>2. work'[s] = None \/ (work'[s].op = "read" /\ work'[s].value = work[s].value)
    BY <1>0, <1>9, <2>1 DEF SetCache, Goto, Read
  <2>3. QED
    BY <1>0, <2>1, <2>2
    DEF CachedWasCommitted, ReadersCommitted, Reading, Buffer
<1>10. CASE Expire
  BY <1>0, <1>10
  DEF Expire, CachedWasCommitted, ReadersCommitted, Reading, Buffer
<1>11. CASE UNCHANGED vars
  BY <1>0, <1>11
  DEF vars, CachedWasCommitted, ReadersCommitted, Reading, Buffer
<1>12. QED
  BY <1>1, <1>2, <1>3, <1>4, <1>5, <1>6, <1>7, <1>8, <1>9, <1>10, <1>11
  DEF Next, Write, ReadBuffer

(* A write that commits nothing yet, with no reader coming in: it was alone*)
(* before, and at its commit nothing is cached.                            *)
LEMMA WriteStep ==
  ASSUME AloneUnread, SettledReaders, NEW s \in Session, rows' = rows,
         \A o \in Session : o # s => work'[o] = work[o],
         ~ Reading(s), ~ Reading(s)', settled' = settled, cached' \in {None, cached},
         work'[s].alone =>
           Unread /\ (work'[s].step = "commit" => cached' = None)
  PROVE  (AloneUnread /\ SettledReaders)'
<1>1. \A o \in Session : Reading(o)' <=> Reading(o)
  BY DEF Reading
<1>2. \A o \in Session : Reading(o) => work'[o] = work[o]
  OBVIOUS
<1>3. Unread' = Unread
  BY <1>1 DEF Unread
<1>4. AloneUnread'
  BY <1>3 DEF AloneUnread
<1>5. SettledReaders'
  BY <1>1, <1>2 DEF SettledReaders, Buffer
<1>6. QED
  BY <1>4, <1>5

LEMMA AloneStep ==
  RowsInv /\ AloneUnread /\ SettledReaders /\ [Next]_vars => (AloneUnread /\ SettledReaders)'
<1> DEFINE Inv == AloneUnread /\ SettledReaders
<1> SUFFICES ASSUME RowsInv, Inv, [Next]_vars PROVE Inv'
  OBVIOUS
<1>0. /\ AloneUnread /\ SettledReaders
      /\ \A s \in Session : work[s] # None => work[s] \in Request
      /\ work \in [Session -> Request \union {None}]
  BY DEF RowsInv, TypeOK
<1>1. ASSUME NEW s \in Session, NEW r \in Own, BeginRegister(s, r) PROVE Inv'
  <2>1. /\ rows' = rows /\ cached' = cached /\ settled' = settled /\ work[s] = None
        /\ \A o \in Session : o # s => work'[o] = work[o]
        /\ work'[s] = [op |-> "register", row |-> r, step |-> "insert", alone |-> Unread]
    BY <1>0, <1>1 DEF BeginRegister
  <2>2. work'[s].op = "register" /\ work'[s].step = "insert" /\ work'[s].alone = Unread
    BY <2>1
  <2>3. QED
    BY <1>0, <2>1, <2>2, WriteStep DEF Reading
<1>2. ASSUME NEW s \in Session, NEW c \in Calendar, BeginSync(s, c) PROVE Inv'
  <2>1. /\ rows' = rows /\ cached' = cached /\ settled' = settled /\ work[s] = None
        /\ \A o \in Session : o # s => work'[o] = work[o]
        /\ work'[s] = [op |-> "sync", cal |-> c, step |-> "delete",
             gone |-> [e \in Entry |-> 0], seen |-> university, alone |-> Unread]
    BY <1>0, <1>2 DEF BeginSync
  <2>2. work'[s].op = "sync" /\ work'[s].step = "delete" /\ work'[s].alone = Unread
    BY <2>1
  <2>3. QED
    BY <1>0, <2>1, <2>2, WriteStep DEF Reading
<1>3. ASSUME NEW s \in Session, DeleteAutoRows(s) \/ InsertRows(s) \/ SetUniversity(s)
      PROVE  Inv'
  <2>1. /\ rows' = rows /\ cached' = cached /\ settled' = settled
        /\ \A o \in Session : o # s => work'[o] = work[o]
        /\ work[s] \in Sync \union Register /\ work[s] # None /\ work[s].op # "read"
    BY <1>0, <1>3, RequestKinds DEF DeleteAutoRows, InsertRows, SetUniversity, At, Goto
  <2>2. work'[s].op # "read" /\ work'[s].step # "commit" /\ work'[s].alone = work[s].alone
    <3>1. CASE DeleteAutoRows(s)
      BY <1>0, <2>1, <3>1 DEF DeleteAutoRows, At, Sync, Register
    <3>2. CASE InsertRows(s)
      BY <1>0, <2>1, <3>2 DEF InsertRows, Goto, Sync, Register
    <3>3. CASE SetUniversity(s)
      BY <1>0, <2>1, <3>3 DEF SetUniversity, Goto, At, Sync, Register
    <3>4. QED
      BY <1>3, <3>1, <3>2, <3>3
  <2>3. work[s].alone => Unread
    BY <1>0, <2>1 DEF AloneUnread
  <2>4. QED
    BY <1>0, <2>1, <2>2, <2>3, WriteStep DEF Reading
<1>4. ASSUME NEW s \in Session, Invalidate(s) PROVE Inv'
  <2>1. /\ rows' = rows /\ settled' = settled /\ cached' \in {None, cached}
        /\ \A o \in Session : o # s => work'[o] = work[o]
        /\ work[s] \in Sync \union Register /\ work[s] # None /\ work[s].op # "read"
        /\ \/ work'[s] = [work[s] EXCEPT !.step = "commit"] /\ cached' = None
           \/ work'[s] = [work[s] EXCEPT !.step = "commit", !.alone = FALSE]
    BY <1>0, <1>4, RequestKinds DEF Invalidate, Goto
  <2>2. work'[s].op # "read" /\ (work'[s].alone => work[s].alone /\ cached' = None)
    BY <2>1 DEF Sync, Register
  <2>3. work[s].alone => Unread
    BY <1>0, <2>1 DEF AloneUnread
  <2>4. QED
    BY <1>0, <2>1, <2>2, <2>3, WriteStep DEF Reading
<1>5. ASSUME NEW s \in Session, Commit(s) PROVE Inv'
  <2>1. /\ cached' = cached /\ work'[s] = None /\ settled' = work[s].alone
        /\ \A o \in Session : o # s => work'[o] = work[o]
        /\ work[s] # None /\ work[s].op # "read" /\ work[s].step = "commit"
    BY <1>0, <1>5 DEF Commit
  <2>2. \A o \in Session : Reading(o)' => Reading(o)
    BY <2>1 DEF Reading
  <2>3. AloneUnread'
    BY <1>0, <2>1, <2>2 DEF AloneUnread, Unread
  <2>4. settled' => cached' = None /\ Unread
    BY <1>0, <2>1 DEF AloneUnread
  <2>5. QED
    BY <2>2, <2>3, <2>4 DEF SettledReaders, Unread
<1>6. ASSUME NEW s \in Session, Abort(s) PROVE Inv'
  <2>1. /\ rows' = rows /\ cached' = cached /\ settled' = settled /\ work'[s] = None
        /\ \A o \in Session : o # s => work'[o] = work[o]
    BY <1>0, <1>6 DEF Abort
  <2>2. QED
    BY <1>0, <2>1 DEF AloneUnread, SettledReaders, Unread, Reading, Buffer
<1>7. ASSUME NEW s \in Session, BeginRead(s) PROVE Inv'
  <2>1. /\ rows' = rows /\ cached' = cached /\ settled' = settled
        /\ work'[s].op = "read" /\ work'[s].step = "look"
    BY <1>7 DEF BeginRead
  <2>2. ASSUME NEW o \in Session, o # s
        PROVE  \/ work'[o] = work[o] /\ (work[o] = None \/ work[o].op = "read")
               \/ /\ work[o] \in Sync \union Register
                  /\ work'[o] = [work[o] EXCEPT !.alone = FALSE]
    BY <1>0, <1>7, <2>2, RequestKinds DEF BeginRead
  <2>3. ASSUME NEW o \in Session, o # s, work[o] \in Sync \union Register,
               work'[o] = [work[o] EXCEPT !.alone = FALSE]
        PROVE  ~ work'[o].alone /\ work'[o].op # "read"
    BY <2>3 DEF Sync, Register
  <2>4. AloneUnread'
    BY <2>1, <2>2, <2>3 DEF AloneUnread
  <2>5. \A o \in Session : o # s /\ Reading(o)' => Reading(o) /\ work'[o] = work[o]
    BY <2>2, <2>3 DEF Reading
  <2>6. SettledReaders'
    BY <1>0, <2>1, <2>5 DEF SettledReaders, Buffer
  <2>7. QED
    BY <2>4, <2>6
<1>8. ASSUME NEW s \in Session, LookAgain(s) \/ SelectRows(s) \/ SetCache(s) PROVE Inv'
  <2>1. /\ rows' = rows
        /\ \A o \in Session : o # s => work'[o] = work[o]
        /\ work[s] \in Read /\ Reading(s)
        /\ settled' = settled \/ settled' = FALSE
    BY <1>0, <1>8, RequestKinds
    DEF LookAgain, SelectRows, SetCache, At, Reading, Goto
  <2>2. /\ work'[s] = None \/ work'[s].op = "read"
        /\ settled' => cached' \in {None, cached, Buffer}
        /\ (settled' /\ work'[s] # None /\ work'[s].step # "look") => work'[s].value = Buffer
    <3>1. CASE LookAgain(s)
      BY <1>0, <2>1, <3>1 DEF LookAgain, Read, SettledReaders
    <3>2. CASE SelectRows(s)
      <4>1. PICK value \in {Buffer, Zero}, step \in {"set", "set again"} :
              /\ work' = [work EXCEPT ![s].value = value, ![s].step = step]
              /\ settled' => value = Buffer
        BY <3>2 DEF SelectRows
      <4>2. work'[s] = [work[s] EXCEPT !.value = value, !.step = step]
        BY <1>0, <4>1
      <4>3. work'[s].op = "read" /\ work'[s].value = value
        BY <2>1, <4>2 DEF Read
      <4>4. QED
        BY <3>2, <4>1, <4>3 DEF SelectRows
    <3>3. CASE SetCache(s)
      <4>1. /\ settled' = settled /\ work[s].step # "look"
            /\ cached' \in {cached, work[s].value}
            /\ \/ work'[s] = [work[s] EXCEPT !.step = "set again"]
               \/ work'[s] = None
        BY <1>0, <2>1, <3>3 DEF SetCache, Goto
      <4>2. work'[s] # None => work'[s].op = "read" /\ work'[s].value = work[s].value
        BY <2>1, <4>1 DEF Read
      <4>3. settled => work[s].value = Buffer
        BY <1>0, <2>1, <4>1 DEF SettledReaders
      <4>4. QED
        BY <4>1, <4>2, <4>3
    <3>4. QED
      BY <1>8, <3>1, <3>2, <3>3
  <2>3. \A o \in Session : work[o] # None /\ work[o].op # "read" => ~ work[o].alone
    BY <1>0, <2>1 DEF AloneUnread, Unread
  <2>4. AloneUnread'
    BY <2>1, <2>2, <2>3 DEF AloneUnread
  <2>5. \A o \in Session : o # s /\ Reading(o)' => Reading(o) /\ work'[o] = work[o]
    BY <2>1 DEF Reading
  <2>6. Buffer' = Buffer /\ (settled' => settled)
    BY <2>1 DEF Buffer
  <2>7. SettledReaders'
    BY <1>0, <2>2, <2>5, <2>6 DEF SettledReaders, Reading
  <2>8. QED
    BY <2>4, <2>7
<1>9. CASE Expire
  BY <1>0, <1>9 DEF Expire, AloneUnread, SettledReaders, Unread, Reading, Buffer
<1>10. CASE UNCHANGED vars
  BY <1>0, <1>10 DEF vars, AloneUnread, SettledReaders, Unread, Reading, Buffer
<1>11. QED
  BY <1>1, <1>2, <1>3, <1>4, <1>5, <1>6, <1>7, <1>8, <1>9, <1>10 DEF Next, Write, ReadBuffer

LEMMA CacheStep == RowsInv /\ CacheInv /\ [Next]_vars => CacheInv'
  BY CommittedStep, AloneStep DEF CacheInv

LEMMA CacheInit == Init => CacheInv
<1> SUFFICES ASSUME Init PROVE CacheInv
  OBVIOUS
<1>1. Buffer = Zero
  BY ScheduleAssumption DEF Init, Buffer, Zero
<1>2. QED
  BY <1>1 DEF Init, CacheInv, CachedWasCommitted, ReadersCommitted, AloneUnread,
    SettledReaders, Reading

LEMMA CacheInvariant == Spec => [](RowsInv /\ CacheInv)
  BY RowsInit, RowsStep, CacheInit, CacheStep, PTL DEF Spec

(* Whatever is cached was once the buffer of a committed schedule (or the  *)
(* zero of a failing database).                                            *)
THEOREM CachedWasCommittedHolds == Spec => []CachedWasCommitted
  BY CacheInvariant, PTL DEF CacheInv

(* Once a change has overlapped no reader, the buffer in Redis, whoever    *)
(* cached it, is the one of the committed schedule.                        *)
THEOREM AloneRefreshesHolds == Spec => []AloneRefreshes
<1>1. CacheInv => AloneRefreshes
  BY DEF CacheInv, SettledReaders, AloneRefreshes
<1>2. QED
  BY <1>1, CacheInvariant, PTL
================================================================================
