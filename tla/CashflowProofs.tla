----------------------------- MODULE CashflowProofs -----------------------------
(***************************************************************************)
(* Machine-checked proofs about Cashflow, for any revisions, amounts,      *)
(* categories and, where it is not said otherwise, consumer loops.         *)
(***************************************************************************)
EXTENDS Cashflow, TLAPS

(* One consumer loop, as deployed.                                         *)
OneConsumer == \A b, c \in Consumer : b = c

--------------------------------------------------------------------------------
(* The inductive invariant.                                                *)

(* A handled message stays on its topic.                                   *)
HandlesPublished ==
  \A c \in Consumer :
    work[c] # None => work[c].event \in monthlyTopic \union categoryTopic

(* Rows are never deleted: one seen in a snapshot still exists.            *)
RowsStay ==
  \A c \in Consumer : work[c] # None =>
    /\ work[c].snap.monthly # None => monthly # None
    /\ \A k \in Category : work[c].snap.categories[k] # None => categories[k] # None

TypeInv == TypeOK /\ HandlesPublished /\ RowsStay

(* Alone, a handler finds at its commit what its snapshot showed.          *)
SnapshotCurrent ==
  \A c \in Consumer : work[c] # None =>
    work[c].snap = [monthly |-> monthly, categories |-> categories]

--------------------------------------------------------------------------------

(* What a handler leaves in a row is a row again, or still no row.         *)
LEMMA StoredType ==
  ASSUME NEW row \in Row \union {None}, NEW seen \in Row \union {None},
         seen # None => row # None,
         NEW rev \in Rev, NEW amount \in Amount
  PROVE  /\ Stored(row, seen, rev, amount) \in Row \union {None}
         /\ row # None => Stored(row, seen, rev, amount) # None
<1> USE CashflowAssumption
<1>1. CASE seen = None
  BY <1>1 DEF Stored, Row
<1>2. CASE seen # None /\ seen.rev >= rev
  BY <1>2 DEF Stored
<1>3. CASE seen # None /\ ~ seen.rev >= rev
  <2> DEFINE kept == IF amount = seen.amount THEN row.amount ELSE amount
  <2>1. kept \in Amount
    BY <1>3 DEF Row
  <2>2. Stored(row, seen, rev, amount) = [rev |-> rev, amount |-> kept]
    BY <1>3 DEF Stored
  <2> HIDE DEF kept
  <2>3. QED
    BY <2>1, <2>2 DEF Row
<1>4. QED
  BY <1>1, <1>2, <1>3

(* The rule itself: against an unchanged row, a handler either leaves it   *)
(* alone, because it is as new, or replaces it whole by a newer revision.  *)
LEMMA StoredRule ==
  ASSUME NEW row \in Row \union {None}, NEW rev \in Rev, NEW amount \in Amount
  PROVE  \/ /\ row # None /\ row.rev >= rev
            /\ Stored(row, row, rev, amount) = row
         \/ /\ row # None => rev > row.rev
            /\ Stored(row, row, rev, amount) = [rev |-> rev, amount |-> amount]
<1>1. CASE row = None
  BY <1>1 DEF Stored
<1>2. CASE row # None
  <2>1. row.rev \in Nat /\ rev \in Nat /\ (amount = row.amount \/ amount # row.amount)
    BY <1>2, CashflowAssumption DEF Row
  <2>2. CASE row.rev >= rev
    BY <1>2, <2>2 DEF Stored
  <2>3. CASE rev > row.rev
    <3>1. ~ row.rev >= rev
      BY <2>1, <2>3
    <3>2. (IF amount = row.amount THEN row.amount ELSE amount) = amount
      OBVIOUS
    <3>3. Stored(row, row, rev, amount) = [rev |-> rev, amount |-> amount]
      BY <1>2, <3>1, <3>2 DEF Stored
    <3>4. QED
      BY <2>3, <3>3
  <2>4. QED
    BY <2>1, <2>2, <2>3
<1>3. QED
  BY <1>1, <1>2

(* A category message's amounts are amounts of categories.                 *)
LEMMA AmountsType ==
  ASSUME NEW e \in CategoryEvent, NEW k \in DOMAIN e.amounts
  PROVE  k \in Category /\ e.amounts[k] \in Amount /\ e.rev \in Rev
<1>1. PICK S \in SUBSET Category : e.amounts \in [S -> Amount]
  BY DEF CategoryEvent, Spending
<1>2. QED
  BY <1>1 DEF CategoryEvent

(* Every step keeps the types, with any number of consumers.               *)
LEMMA TypeStep == TypeInv /\ [Next]_vars => TypeInv'
<1> SUFFICES ASSUME TypeInv, [Next]_vars PROVE TypeInv'
  OBVIOUS
<1> USE CashflowAssumption DEF TypeInv, TypeOK, HandlesPublished, RowsStay
<1>1. ASSUME NEW e \in MonthlyEvent, PublishMonthly(e) PROVE TypeInv'
  BY <1>1 DEF PublishMonthly
<1>2. ASSUME NEW e \in CategoryEvent, PublishCategory(e) PROVE TypeInv'
  BY <1>2 DEF PublishCategory
<1>3. ASSUME NEW c \in Consumer, NEW e \in monthlyTopic \union categoryTopic, Receive(c, e)
      PROVE  TypeInv'
  <2> DEFINE h == [event |-> e, snap |-> [monthly |-> monthly, categories |-> categories]]
  <2>1. h \in Handling
    BY DEF Handling, Snapshot, Event
  <2>2. h.event = e /\ h.snap.monthly = monthly /\ h.snap.categories = categories
    OBVIOUS
  <2>3. work' = [work EXCEPT ![c] = h]
    BY <1>3 DEF Receive
  <2> HIDE DEF h
  <2>4. QED
    BY <1>3, <2>1, <2>2, <2>3 DEF Receive
<1>4. ASSUME NEW c \in Consumer, NEW e \in monthlyTopic \union categoryTopic, DropEmpty(c, e)
      PROVE  TypeInv'
  BY <1>4 DEF DropEmpty
<1>5. ASSUME NEW c \in Consumer, SaveMonthly(c) PROVE TypeInv'
  <2> DEFINE e == work[c].event
             seen == work[c].snap.monthly
  <2>1. e \in MonthlyEvent /\ seen \in Row \union {None} /\ (seen # None => monthly # None)
    BY <1>5 DEF SaveMonthly, Handling, Snapshot, Event, CategoryEvent
  <2>2. e.rev \in Rev /\ e.amount \in Amount
    BY <2>1 DEF MonthlyEvent
  <2>3. monthly' \in Row \union {None} /\ (monthly # None => monthly' # None)
    BY <1>5, <2>1, <2>2, StoredType DEF SaveMonthly
  <2>4. QED
    BY <1>5, <2>3 DEF SaveMonthly
<1>6. ASSUME NEW c \in Consumer, SaveCategory(c) PROVE TypeInv'
  <2> DEFINE e == work[c].event
             seen == work[c].snap.categories
  <2>1. e \in CategoryEvent /\ seen \in [Category -> Row \union {None}]
    BY <1>6 DEF SaveCategory, Handling, Snapshot, Event, MonthlyEvent
  <2>2. ASSUME NEW k \in Category
        PROVE  /\ categories'[k] \in Row \union {None}
               /\ categories[k] # None => categories'[k] # None
    <3>1. CASE k \in DOMAIN e.amounts
      <4>1. categories'[k] = Stored(categories[k], seen[k], e.rev, e.amounts[k])
        BY <1>6, <3>1 DEF SaveCategory
      <4>2. seen[k] # None => categories[k] # None
        BY <1>6 DEF SaveCategory
      <4>3. e.amounts[k] \in Amount /\ e.rev \in Rev
        BY <2>1, <3>1, AmountsType
      <4>4. categories[k] \in Row \union {None} /\ seen[k] \in Row \union {None}
        BY <2>1
      <4> DEFINE row == categories[k]
                 was == seen[k]
                 rev == e.rev
                 amount == e.amounts[k]
      <4>5. /\ row \in Row \union {None} /\ was \in Row \union {None}
            /\ was # None => row # None
            /\ rev \in Rev /\ amount \in Amount
            /\ categories'[k] = Stored(row, was, rev, amount)
        BY <4>1, <4>2, <4>3, <4>4
      <4> HIDE DEF row, was, rev, amount, TypeInv, TypeOK, HandlesPublished, RowsStay
      <4>6. categories'[k] \in Row \union {None} /\ (row # None => categories'[k] # None)
        BY <4>5, StoredType
      <4>7. QED
        BY <4>6 DEF row
    <3>2. CASE k \notin DOMAIN e.amounts
      BY <1>6, <3>2 DEF SaveCategory
    <3>3. QED
      BY <3>1, <3>2
  <2>3. categories' \in [Category -> Row \union {None}]
    <3>1. categories' = [k \in Category |-> categories'[k]]
      BY <1>6 DEF SaveCategory
    <3>2. QED
      BY <2>2, <3>1
  <2>4. QED
    BY <1>6, <2>2, <2>3 DEF SaveCategory
<1>7. ASSUME NEW c \in Consumer, Fail(c) PROVE TypeInv'
  BY <1>7 DEF Fail
<1>8. CASE UNCHANGED vars
  BY <1>8 DEF vars
<1>9. QED
  BY <1>1, <1>2, <1>3, <1>4, <1>5, <1>6, <1>7, <1>8 DEF Next, Handle

LEMMA TypeInit == Init => TypeInv
  BY DEF Init, TypeInv, TypeOK, HandlesPublished, RowsStay

(* Topics, rows and handlers keep their shape, with any number of          *)
(* consumers.                                                              *)
THEOREM TypeCorrect == Spec => []TypeOK
<1>1. Spec => []TypeInv
  BY TypeInit, TypeStep, PTL DEF Spec
<1>2. QED
  BY <1>1, PTL DEF TypeInv

--------------------------------------------------------------------------------
(* One consumer loop: the revision rule.                                   *)

Inv == TypeInv /\ SnapshotCurrent

LEMMA InvStep == OneConsumer /\ Inv /\ [Next]_vars => Inv'
<1> SUFFICES ASSUME OneConsumer, Inv, [Next]_vars PROVE SnapshotCurrent'
  BY TypeStep DEF Inv
<1> USE DEF Inv, TypeInv, TypeOK, SnapshotCurrent, OneConsumer
<1>1. ASSUME NEW e \in MonthlyEvent, PublishMonthly(e) PROVE SnapshotCurrent'
  BY <1>1 DEF PublishMonthly
<1>2. ASSUME NEW e \in CategoryEvent, PublishCategory(e) PROVE SnapshotCurrent'
  BY <1>2 DEF PublishCategory
<1>3. ASSUME NEW c \in Consumer, NEW e \in monthlyTopic \union categoryTopic, Receive(c, e)
      PROVE  SnapshotCurrent'
  BY <1>3 DEF Receive
<1>4. ASSUME NEW c \in Consumer, NEW e \in monthlyTopic \union categoryTopic, DropEmpty(c, e)
      PROVE  SnapshotCurrent'
  BY <1>4 DEF DropEmpty
<1>5. ASSUME NEW c \in Consumer, SaveMonthly(c) PROVE SnapshotCurrent'
  BY <1>5 DEF SaveMonthly
<1>6. ASSUME NEW c \in Consumer, SaveCategory(c) PROVE SnapshotCurrent'
  BY <1>6 DEF SaveCategory
<1>7. ASSUME NEW c \in Consumer, Fail(c) PROVE SnapshotCurrent'
  BY <1>7 DEF Fail
<1>8. CASE UNCHANGED vars
  BY <1>8 DEF vars
<1>9. QED
  BY <1>1, <1>2, <1>3, <1>4, <1>5, <1>6, <1>7, <1>8 DEF Next, Handle

LEMMA InvInit == Init => Inv
  BY TypeInit DEF Inv, Init, SnapshotCurrent

(* What one monthly message does to the row.                               *)
LEMMA SaveMonthlyRule ==
  ASSUME Inv, NEW c \in Consumer, SaveMonthly(c)
  PROVE  LET e == work[c].event
         IN  /\ e \in MonthlyEvent /\ e.rev \in Rev /\ e.amount \in Amount
             /\ handled' = handled \union {e}
             /\ categories' = categories
             /\ \/ monthly # None /\ monthly.rev >= e.rev /\ monthly' = monthly
                \/ /\ monthly # None => e.rev > monthly.rev
                   /\ monthly' = [rev |-> e.rev, amount |-> e.amount]
<1> DEFINE e == work[c].event
<1>1. e \in MonthlyEvent
  BY DEF SaveMonthly, Inv, TypeInv, TypeOK, Handling, Event, CategoryEvent
<1>2. e.rev \in Rev /\ e.amount \in Amount
  BY <1>1 DEF MonthlyEvent
<1>3. work[c].snap.monthly = monthly /\ monthly \in Row \union {None}
  BY DEF SaveMonthly, Inv, TypeInv, TypeOK, SnapshotCurrent
<1>4. monthly' = Stored(monthly, monthly, e.rev, e.amount)
  BY <1>3 DEF SaveMonthly
<1>5. QED
  BY <1>1, <1>2, <1>3, <1>4, StoredRule DEF SaveMonthly

(* What one category message does to each row.                             *)
LEMMA SaveCategoryRule ==
  ASSUME Inv, NEW c \in Consumer, SaveCategory(c), NEW k \in Category
  PROVE  LET e == work[c].event
         IN  /\ e \in CategoryEvent
             /\ handled' = handled \union {e}
             /\ monthly' = monthly
             /\ k \notin DOMAIN e.amounts => categories'[k] = categories[k]
             /\ k \in DOMAIN e.amounts =>
                  /\ e.rev \in Rev /\ e.amounts[k] \in Amount
                  /\ \/ /\ categories[k] # None /\ categories[k].rev >= e.rev
                        /\ categories'[k] = categories[k]
                     \/ /\ categories[k] # None => e.rev > categories[k].rev
                        /\ categories'[k] = [rev |-> e.rev, amount |-> e.amounts[k]]
<1> DEFINE e == work[c].event
<1>1. e \in CategoryEvent
  BY DEF SaveCategory, Inv, TypeInv, TypeOK, Handling, Event, MonthlyEvent
<1>2. work[c].snap.categories = categories /\ categories[k] \in Row \union {None}
  BY DEF SaveCategory, Inv, TypeInv, TypeOK, SnapshotCurrent
<1>3. CASE k \in DOMAIN e.amounts
  <2>1. e.rev \in Rev /\ e.amounts[k] \in Amount
    BY <1>1, <1>3, AmountsType
  <2>2. categories'[k] = Stored(categories[k], categories[k], e.rev, e.amounts[k])
    BY <1>2, <1>3 DEF SaveCategory
  <2>3. QED
    BY <1>1, <1>2, <1>3, <2>1, <2>2, StoredRule DEF SaveCategory
<1>4. CASE k \notin DOMAIN e.amounts
  BY <1>1, <1>4 DEF SaveCategory
<1>5. QED
  BY <1>3, <1>4

(* No other step touches a row.                                            *)
LEMMA OnlySavesWrite ==
  ASSUME [Next]_vars,
         \A c \in Consumer : ~ SaveMonthly(c) /\ ~ SaveCategory(c)
  PROVE  monthly' = monthly /\ categories' = categories
  BY DEF Next, Handle, PublishMonthly, PublishCategory, Receive, DropEmpty, Fail, vars

(* The whole month refines the register of a month: what a message writes, *)
(* it writes in one step and by the rule.                                  *)
THEOREM MonthStoredHolds == OneConsumer => (Spec => MonthStored)
<1> SUFFICES ASSUME OneConsumer PROVE Spec => MonthStored
  OBVIOUS
<1>1. Init => Month!Init
  BY DEF Init, Month!Init
<1>2. Inv /\ [Next]_vars => [Month!Next]_<<monthly, categories>>
  <2> SUFFICES ASSUME Inv, [Next]_vars PROVE [Month!Next]_<<monthly, categories>>
    OBVIOUS
  <2>1. ASSUME NEW c \in Consumer, SaveMonthly(c) PROVE [Month!Next]_<<monthly, categories>>
    <3> DEFINE e == work[c].event
    <3>1. /\ e \in MonthlyEvent /\ categories' = categories
          /\ \/ monthly' = monthly
             \/ /\ monthly # None => e.rev > monthly.rev
                /\ monthly' = [rev |-> e.rev, amount |-> e.amount]
      BY <2>1, SaveMonthlyRule
    <3>2. CASE monthly' = monthly
      BY <3>1, <3>2
    <3>3. CASE /\ monthly # None => e.rev > monthly.rev
               /\ monthly' = [rev |-> e.rev, amount |-> e.amount]
      <4>1. Month!StoreTotal(e)
        BY <3>1, <3>3 DEF Month!StoreTotal, Month!Newer
      <4>2. QED
        BY <3>1, <4>1 DEF Month!Next
    <3>4. QED
      BY <3>1, <3>2, <3>3
  <2>2. ASSUME NEW c \in Consumer, SaveCategory(c) PROVE [Month!Next]_<<monthly, categories>>
    <3> DEFINE e == work[c].event
               After(k) == IF k \in DOMAIN e.amounts /\ Month!Newer(categories[k], e.rev)
                             THEN [rev |-> e.rev, amount |-> e.amounts[k]] ELSE categories[k]
    <3>1. e \in CategoryEvent /\ monthly' = monthly
      BY <2>2 DEF SaveCategory, Inv, TypeInv, TypeOK, Handling, Event, MonthlyEvent
    <3>2. ASSUME NEW k \in Category PROVE categories'[k] = After(k)
      <4>1. /\ k \notin DOMAIN e.amounts => categories'[k] = categories[k]
            /\ k \in DOMAIN e.amounts =>
                 /\ e.rev \in Rev /\ e.amounts[k] \in Amount
                 /\ \/ /\ categories[k] # None /\ categories[k].rev >= e.rev
                       /\ categories'[k] = categories[k]
                    \/ /\ categories[k] # None => e.rev > categories[k].rev
                       /\ categories'[k] = [rev |-> e.rev, amount |-> e.amounts[k]]
        BY <2>2, SaveCategoryRule
      <4>2. categories[k] # None => categories[k].rev \in Nat
        BY CashflowAssumption DEF Inv, TypeInv, TypeOK, Row
      <4>3. Rev \subseteq Nat
        BY CashflowAssumption
      <4>4. Month!Newer(categories[k], e.rev) <=> (categories[k] # None => e.rev > categories[k].rev)
        BY DEF Month!Newer
      <4> HIDE DEF e
      <4>5. CASE k \notin DOMAIN e.amounts
        BY <4>1, <4>5
      <4>6. CASE k \in DOMAIN e.amounts /\ Month!Newer(categories[k], e.rev)
        <5>1. e.rev \in Nat /\ (categories[k] # None => categories[k].rev \in Nat)
          BY <4>1, <4>2, <4>3, <4>6
        <5>2. categories[k] # None => e.rev > categories[k].rev
          BY <4>4, <4>6, Zenon
        <5>3. ~ (categories[k] # None /\ categories[k].rev >= e.rev)
          BY <5>1, <5>2
        <5>4. QED
          BY <4>1, <4>6, <5>3
      <4>7. CASE k \in DOMAIN e.amounts /\ ~ Month!Newer(categories[k], e.rev)
        BY <4>1, <4>4, <4>7
      <4>8. QED
        BY <4>5, <4>6, <4>7
    <3>3. categories' = [k \in Category |-> categories'[k]]
      BY <2>2 DEF SaveCategory
    <3>4. Month!StoreShares(e)
      <4> HIDE DEF e
      <4>1. QED
        BY <3>1, <3>2, <3>3 DEF Month!StoreShares
    <3>5. QED
      BY <3>1, <3>4 DEF Month!Next
  <2>3. QED
    BY <2>1, <2>2, OnlySavesWrite
<1>3. Inv /\ [Next]_vars => Inv'
  BY InvStep
<1>4. QED
  BY <1>1, <1>2, <1>3, InvInit, PTL DEF Spec, MonthStored, Month!Spec

(* The monthly row refines the revision register.                          *)
THEOREM MonthlyLargestHolds == OneConsumer => (Spec => MonthlyLargest)
<1> SUFFICES ASSUME OneConsumer PROVE Spec => MonthlyLargest
  OBVIOUS
<1>1. Init => MonthlyRow!Init
  BY DEF Init, MonthlyRow!Init
<1>2. Inv /\ [Next]_vars => [MonthlyRow!Next]_monthly
  <2> SUFFICES ASSUME Inv, [Next]_vars PROVE [MonthlyRow!Next]_monthly
    OBVIOUS
  <2>1. ASSUME NEW c \in Consumer, SaveMonthly(c) PROVE [MonthlyRow!Next]_monthly
    BY <2>1, SaveMonthlyRule DEF MonthlyRow!Next, MonthlyRow!Replace
  <2>2. ASSUME NEW c \in Consumer, SaveCategory(c) PROVE monthly' = monthly
    BY <2>2 DEF SaveCategory
  <2>3. QED
    BY <2>1, <2>2, OnlySavesWrite
<1>3. OneConsumer /\ Inv /\ [Next]_vars => Inv'
  BY InvStep
<1>4. Inv /\ [Next]_vars => Inv'
  BY <1>3
<1>5. QED
  BY <1>1, <1>2, <1>4, InvInit, PTL DEF Spec, MonthlyLargest, MonthlyRow!Spec

(* And so does every category row.                                         *)
THEOREM CategoryLargestHolds == OneConsumer => (Spec => CategoryLargest)
<1> SUFFICES ASSUME OneConsumer PROVE Spec => CategoryLargest
  OBVIOUS
<1> DEFINE RowsInit == \A k \in Category : CategoryRow(k)!Init
           RowsNext == \A k \in Category : [CategoryRow(k)!Next]_(categories[k])
<1>1. Init => RowsInit
  BY DEF Init, CategoryRow!Init
<1>2. Inv /\ [Next]_vars => [RowsNext]_categories
  <2> SUFFICES ASSUME Inv, [Next]_vars, categories' # categories PROVE RowsNext
    OBVIOUS
  <2>1. ASSUME NEW c \in Consumer, SaveCategory(c), NEW k \in Category
        PROVE  [CategoryRow(k)!Next]_(categories[k])
    BY <2>1, SaveCategoryRule DEF CategoryRow!Next, CategoryRow!Replace
  <2>2. ASSUME NEW c \in Consumer, SaveMonthly(c) PROVE FALSE
    BY <2>2 DEF SaveMonthly
  <2>3. QED
    BY <2>1, <2>2, OnlySavesWrite
<1>3. Inv /\ [Next]_vars => Inv'
  BY InvStep
<1> HIDE DEF RowsInit, RowsNext
<1>4. Spec => RowsInit /\ [][RowsNext]_categories
  BY <1>1, <1>2, <1>3, InvInit, PTL DEF Spec
<1>5. QED
  BY <1>4 DEF CategoryLargest, RowsInit, RowsNext

(* The rows are what the handled messages make them.                       *)
THEOREM NewestKeptHolds == OneConsumer => (Spec => []NewestKept)
<1> SUFFICES ASSUME OneConsumer PROVE Spec => []NewestKept
  OBVIOUS
<1>1. Init => NewestKept
  BY DEF Init, NewestKept, HandledMonthly, Naming
<1>2. Inv /\ NewestKept /\ [Next]_vars => NewestKept'
  <2> SUFFICES ASSUME Inv, NewestKept, [Next]_vars PROVE NewestKept'
    OBVIOUS
  <2>1. ASSUME handled' = handled, monthly' = monthly, categories' = categories
        PROVE  NewestKept'
    BY <2>1 DEF NewestKept, HandledMonthly, Naming
  <2>2. ASSUME NEW c \in Consumer, NEW e \in monthlyTopic \union categoryTopic, DropEmpty(c, e)
        PROVE  NewestKept'
    <3>1. handled' = handled \union {e} /\ e \notin MonthlyEvent /\ DOMAIN e.amounts = {}
      BY <2>2 DEF DropEmpty, MonthlyEvent
    <3>2. HandledMonthly' = HandledMonthly /\ \A k \in Category : Naming(k)' = Naming(k)
      BY <3>1 DEF HandledMonthly, Naming
    <3>3. QED
      BY <2>2, <3>2 DEF NewestKept, DropEmpty
  <2>3. ASSUME NEW c \in Consumer, SaveMonthly(c) PROVE NewestKept'
    <3> DEFINE e == work[c].event
    <3>1. /\ e \in MonthlyEvent /\ e.rev \in Rev
          /\ handled' = handled \union {e} /\ categories' = categories
      BY <2>3, SaveMonthlyRule
    <3>2. \/ monthly # None /\ monthly.rev >= e.rev /\ monthly' = monthly
          \/ /\ monthly # None => e.rev > monthly.rev
             /\ monthly' = [rev |-> e.rev, amount |-> e.amount]
      BY <2>3, SaveMonthlyRule
    <3> HIDE DEF e
    <3>3. HandledMonthly' = HandledMonthly \union {e} /\ \A k \in Category : Naming(k)' = Naming(k)
      <4>1. e \notin CategoryEvent
        BY <3>1 DEF MonthlyEvent, CategoryEvent
      <4>2. QED
        BY <3>1, <4>1 DEF HandledMonthly, Naming
    <3>4. /\ \A d \in HandledMonthly \union {e} : d.rev \in Nat
          /\ monthly # None => monthly.rev \in Nat
      BY <3>1, CashflowAssumption DEF HandledMonthly, MonthlyEvent, Inv, TypeInv, TypeOK, Row
    <3>5. monthly' # None
      BY <3>1, <3>2, <2>3, CashflowAssumption, SaveMonthlyRule DEF Row
    <3>6. /\ \E d \in HandledMonthly \union {e} : monthly' = [rev |-> d.rev, amount |-> d.amount]
          /\ \A d \in HandledMonthly \union {e} : d.rev <= monthly'.rev
      <4>1. CASE monthly # None /\ monthly.rev >= e.rev /\ monthly' = monthly
        BY <4>1 DEF NewestKept
      <4>2. CASE /\ monthly # None => e.rev > monthly.rev
                 /\ monthly' = [rev |-> e.rev, amount |-> e.amount]
        <5>1. \A d \in HandledMonthly : d.rev <= e.rev
          BY <3>4, <4>2 DEF NewestKept
        <5>2. QED
          BY <3>4, <4>2, <5>1
      <4>3. QED
        BY <3>2, <4>1, <4>2
    <3>7. QED
      BY <3>1, <3>3, <3>5, <3>6 DEF NewestKept
  <2>4. ASSUME NEW c \in Consumer, SaveCategory(c) PROVE NewestKept'
    <3> DEFINE e == work[c].event
    <3>1. e \in CategoryEvent /\ handled' = handled \union {e} /\ monthly' = monthly
      BY <2>4 DEF SaveCategory, Inv, TypeInv, TypeOK, Handling, Event, MonthlyEvent
    <3>2. ASSUME NEW k \in Category
          PROVE  \/ k \notin DOMAIN e.amounts /\ categories'[k] = categories[k]
                 \/ /\ k \in DOMAIN e.amounts /\ e.rev \in Rev /\ e.amounts[k] \in Amount
                    /\ categories[k] # None /\ categories[k].rev >= e.rev
                    /\ categories'[k] = categories[k]
                 \/ /\ k \in DOMAIN e.amounts /\ e.rev \in Rev /\ e.amounts[k] \in Amount
                    /\ categories[k] # None => e.rev > categories[k].rev
                    /\ categories'[k] = [rev |-> e.rev, amount |-> e.amounts[k]]
      BY <2>4, SaveCategoryRule
    <3> HIDE DEF e
    <3>3. HandledMonthly' = HandledMonthly
      <4>1. e \notin MonthlyEvent
        BY <3>1 DEF MonthlyEvent, CategoryEvent
      <4>2. QED
        BY <3>1, <4>1 DEF HandledMonthly
    <3>4. ASSUME NEW k \in Category
          PROVE  Naming(k)' = IF k \in DOMAIN e.amounts THEN Naming(k) \union {e} ELSE Naming(k)
      BY <3>1 DEF Naming
    <3>5. ASSUME NEW k \in Category
          PROVE  /\ categories'[k] = None => Naming(k)' = {}
                 /\ categories'[k] # None =>
                      /\ \E d \in Naming(k)' :
                           categories'[k] = [rev |-> d.rev, amount |-> d.amounts[k]]
                      /\ \A d \in Naming(k)' : d.rev <= categories'[k].rev
      <4>1. /\ \A d \in Naming(k) : d.rev \in Nat
            /\ categories[k] # None => categories[k].rev \in Nat
        BY CashflowAssumption DEF Naming, CategoryEvent, Inv, TypeInv, TypeOK, Row
      <4>2. CASE k \notin DOMAIN e.amounts /\ categories'[k] = categories[k]
        BY <3>4, <4>2 DEF NewestKept
      <4>3. CASE /\ k \in DOMAIN e.amounts /\ e.rev \in Rev
                 /\ categories[k] # None /\ categories[k].rev >= e.rev
                 /\ categories'[k] = categories[k]
        BY <3>4, <4>3 DEF NewestKept
      <4>4. CASE /\ k \in DOMAIN e.amounts /\ e.rev \in Rev /\ e.amounts[k] \in Amount
                 /\ categories[k] # None => e.rev > categories[k].rev
                 /\ categories'[k] = [rev |-> e.rev, amount |-> e.amounts[k]]
        <5> DEFINE rev == e.rev
                   amount == e.amounts[k]
                   row == categories'[k]
        <5>1. rev \in Rev /\ amount \in Amount /\ row = [rev |-> rev, amount |-> amount]
          BY <4>4
        <5> HIDE DEF rev, amount, row
        <5>2. row \in Row /\ rev \in Nat
          BY <5>1, CashflowAssumption DEF Row
        <5>3. categories'[k] \in Row /\ e.rev \in Nat
          BY <5>2 DEF row, rev
        <5>4. categories'[k] # None
          BY <5>3, CashflowAssumption
        <5>5. \A d \in Naming(k) : d.rev <= e.rev
          BY <4>1, <4>4, <5>3 DEF NewestKept
        <5>6. Naming(k)' = Naming(k) \union {e}
          BY <3>4, <4>4
        <5>7. QED
          BY <4>4, <5>3, <5>4, <5>5, <5>6
      <4>5. QED
        BY <3>2, <4>2, <4>3, <4>4
    <3>6. QED
      BY <3>1, <3>3, <3>5 DEF NewestKept
  <2>5. ASSUME NEW c \in Consumer, NEW e \in monthlyTopic \union categoryTopic, Receive(c, e)
        PROVE  NewestKept'
    BY <2>1, <2>5 DEF Receive
  <2>6. ASSUME NEW c \in Consumer, Fail(c) PROVE NewestKept'
    BY <2>1, <2>6 DEF Fail
  <2>7. ASSUME NEW e \in MonthlyEvent, PublishMonthly(e) PROVE NewestKept'
    BY <2>1, <2>7 DEF PublishMonthly
  <2>8. ASSUME NEW e \in CategoryEvent, PublishCategory(e) PROVE NewestKept'
    BY <2>1, <2>8 DEF PublishCategory
  <2>9. QED
    BY <2>1, <2>2, <2>3, <2>4, <2>5, <2>6, <2>7, <2>8 DEF Next, Handle, vars
<1>3. Inv /\ [Next]_vars => Inv'
  BY InvStep
<1>4. QED
  BY <1>1, <1>2, <1>3, InvInit, PTL DEF Spec

--------------------------------------------------------------------------------
(* Where the stale category comes from.                                    *)

(* A larger revision names every category that a smaller one named.        *)
NothingDropped ==
  \A e, f \in categoryTopic :
    e.rev < f.rev /\ DOMAIN f.amounts # {} => DOMAIN e.amounts \subseteq DOMAIN f.amounts

(* Only dropped categories are stale: while Asset keeps naming what it     *)
(* once named, the rows of a month are all of the largest revision handled,*)
(* as consumer.py 280 and 357 have it, however its messages come.          *)
THEOREM LargestUnlessDropped ==
  OneConsumer => (Spec /\ []NothingDropped => []OnlyLargestRevision)
<1> SUFFICES ASSUME OneConsumer PROVE Spec /\ []NothingDropped => []OnlyLargestRevision
  OBVIOUS
<1>1. TypeOK /\ NewestKept /\ NothingDropped => OnlyLargestRevision
  <2> SUFFICES ASSUME TypeOK, NewestKept, NothingDropped,
                      NEW k \in Category, NEW e \in handled \intersect CategoryEvent,
                      DOMAIN e.amounts # {}, categories[k] # None
               PROVE  categories[k].rev >= e.rev
    BY DEF OnlyLargestRevision
  <2>1. PICK f \in Naming(k) : categories[k] = [rev |-> f.rev, amount |-> f.amounts[k]]
    BY DEF NewestKept
  <2>2. \A g \in Naming(k) : g.rev <= categories[k].rev
    BY DEF NewestKept
  <2>3. e \in categoryTopic /\ f \in categoryTopic
    BY DEF TypeOK, Naming, MonthlyEvent, CategoryEvent
  <2>4. e.rev \in Nat /\ f.rev \in Nat /\ categories[k].rev = f.rev
    <3>1. e \in CategoryEvent /\ f \in CategoryEvent
      BY DEF Naming
    <3>2. e.rev \in Rev /\ f.rev \in Rev
      BY <3>1 DEF CategoryEvent
    <3>3. QED
      BY <2>1, <3>2, CashflowAssumption
  <2>5. CASE f.rev < e.rev
    <3>1. k \in DOMAIN e.amounts
      BY <2>3, <2>5 DEF NothingDropped, Naming
    <3>2. QED
      BY <2>2, <2>4, <3>1 DEF Naming
  <2>6. QED
    BY <2>4, <2>5
<1>2. QED
  BY <1>1, TypeCorrect, NewestKeptHolds, PTL
================================================================================
