-------------------------------- MODULE Cashflow --------------------------------
(***************************************************************************)
(* The rows Money Recap reads, for one user and one month: the total of    *)
(* monthly_cashflow and the rows of category_cashflow, kept up to date by  *)
(* the Kafka consumers from the aggregates Asset publishes. Asset numbers  *)
(* its aggregates by revision and re-issues a month when transactions      *)
(* arrive late; Kafka may deliver any message again, in any order.         *)
(*                                                                         *)
(* A handler's database transaction is three steps here: its snapshot      *)
(* (REPEATABLE READ, taken by the first SELECT), its commit, and whatever  *)
(* may end it before that.                                                 *)
(***************************************************************************)
EXTENDS Naturals

CONSTANTS
  Rev,       \* revision numbers
  Amount,    \* sums of money
  Category,  \* category codes
  Consumer,  \* consumer loops
  None       \* absent row, idle consumer

VARIABLES
  monthlyTopic,   \* monthly-cashflow-aggregated, as published so far
  categoryTopic,  \* category-cashflow-aggregated, as published so far
  monthly,        \* committed monthly_cashflow row, or None
  categories,     \* committed category_cashflow rows: Category -> row or None
  work,           \* the message each consumer is handling, or None
  handled         \* messages whose handling ended without an exception

vars == <<monthlyTopic, categoryTopic, monthly, categories, work, handled>>

Row == [rev : Rev, amount : Amount]

(* One category message carries every category of the month.               *)
MonthlyEvent == [topic : {"monthly"}, rev : Rev, amount : Amount]
Spending == UNION {[S -> Amount] : S \in SUBSET Category}
CategoryEvent == [topic : {"category"}, rev : Rev, amounts : Spending]
Event == MonthlyEvent \union CategoryEvent

Snapshot == [monthly    : Row \union {None},
             categories : [Category -> Row \union {None}]]

Handling == [event : Event, snap : Snapshot]

ASSUME CashflowAssumption ==
  /\ Rev \subseteq Nat
  /\ None \notin Row /\ None \notin Handling

(* Topics, rows and handlers have the shape the code gives them, and no    *)
(* message is done with that was never published.                          *)
TypeOK ==
  /\ monthlyTopic \subseteq MonthlyEvent
  /\ categoryTopic \subseteq CategoryEvent
  /\ monthly \in Row \union {None}
  /\ categories \in [Category -> Row \union {None}]
  /\ work \in [Consumer -> Handling \union {None}]
  /\ handled \subseteq monthlyTopic \union categoryTopic

Init ==
  /\ monthlyTopic = {} /\ categoryTopic = {}
  /\ monthly = None
  /\ categories = [k \in Category |-> None]
  /\ work = [c \in Consumer |-> None]
  /\ handled = {}

--------------------------------------------------------------------------------

(* Asset publishes a revision of the month once in each topic.             *)
PublishMonthly(e) ==
  /\ \A old \in monthlyTopic : old.rev # e.rev
  /\ monthlyTopic' = monthlyTopic \union {e}
  /\ UNCHANGED <<categoryTopic, monthly, categories, work, handled>>

PublishCategory(e) ==
  /\ \A old \in categoryTopic : old.rev # e.rev
  /\ categoryTopic' = categoryTopic \union {e}
  /\ UNCHANGED <<monthlyTopic, monthly, categories, work, handled>>

(* A delivery, first or repeated. A message with no category is dropped.   *)
Receive(c, e) ==
  /\ work[c] = None
  /\ e.topic = "category" => DOMAIN e.amounts # {}
  /\ work' = [work EXCEPT ![c] =
       [event |-> e, snap |-> [monthly |-> monthly, categories |-> categories]]]
  /\ UNCHANGED <<monthlyTopic, categoryTopic, monthly, categories, handled>>

DropEmpty(c, e) ==
  /\ work[c] = None
  /\ e.topic = "category" /\ DOMAIN e.amounts = {}
  /\ handled' = handled \union {e}
  /\ UNCHANGED <<monthlyTopic, categoryTopic, monthly, categories, work>>

(* Faulty variant: a row equal in revision or newer is overwritten.        *)
StoredUnchecked(row, seen, rev, amount) == [rev |-> rev, amount |-> amount]

(* Faulty variant: a new row is made without its amount.                   *)
StoredWithoutAmount(row, seen, rev, amount) ==
  IF seen = None THEN [rev |-> rev, amount |-> None]
  ELSE IF seen.rev >= rev THEN row
  ELSE [rev |-> rev, amount |-> amount]

(* The row after one message: seen is the row in the handler's snapshot,   *)
(* row the committed one. A message no newer than the seen row is ignored; *)
(* an UPDATE writes only the columns that differ from what was seen.       *)
Stored(row, seen, rev, amount) ==
  IF seen = None THEN [rev |-> rev, amount |-> amount]
  ELSE IF seen.rev >= rev THEN row
  ELSE [rev |-> rev, amount |-> IF amount = seen.amount THEN row.amount ELSE amount]

(* An INSERT finds the row there already: the unique key refuses it.       *)
Refused(row, seen) == seen = None /\ row # None

SaveMonthly(c) ==
  /\ work[c] # None /\ work[c].event.topic = "monthly"
  /\ LET e == work[c].event  seen == work[c].snap.monthly
     IN  /\ ~ Refused(monthly, seen)
         /\ monthly' = Stored(monthly, seen, e.rev, e.amount)
         /\ handled' = handled \union {e}
  /\ work' = [work EXCEPT ![c] = None]
  /\ UNCHANGED <<monthlyTopic, categoryTopic, categories>>

(* Faulty variant: the revision of one category decides for all.           *)
SaveCategoryByFirst(c) ==
  /\ work[c] # None /\ work[c].event.topic = "category"
  /\ LET e == work[c].event  seen == work[c].snap.categories
         first == CHOOSE k \in DOMAIN e.amounts : TRUE
     IN  /\ \A k \in DOMAIN e.amounts : ~ Refused(categories[k], seen[k])
         /\ categories' = [k \in Category |->
              IF k \in DOMAIN e.amounts /\ (seen[first] = None \/ seen[first].rev < e.rev)
                THEN [rev |-> e.rev, amount |-> e.amounts[k]]
                ELSE categories[k]]
         /\ handled' = handled \union {e}
  /\ work' = [work EXCEPT ![c] = None]
  /\ UNCHANGED <<monthlyTopic, categoryTopic, monthly>>

(* Every category of the message, each by its own row's revision, in one   *)
(* commit. Categories the message does not name keep their rows.           *)
SaveCategory(c) ==
  /\ work[c] # None /\ work[c].event.topic = "category"
  /\ LET e == work[c].event  seen == work[c].snap.categories
     IN  /\ \A k \in DOMAIN e.amounts : ~ Refused(categories[k], seen[k])
         /\ categories' = [k \in Category |->
              IF k \in DOMAIN e.amounts
                THEN Stored(categories[k], seen[k], e.rev, e.amounts[k])
                ELSE categories[k]]
         /\ handled' = handled \union {e}
  /\ work' = [work EXCEPT ![c] = None]
  /\ UNCHANGED <<monthlyTopic, categoryTopic, monthly>>

(* An exception, a refused INSERT included, is logged and the message left *)
(* behind; a crash drops it too. It may be delivered again or never.       *)
Fail(c) ==
  /\ work[c] # None
  /\ work' = [work EXCEPT ![c] = None]
  /\ UNCHANGED <<monthlyTopic, categoryTopic, monthly, categories, handled>>

Handle(c) ==
  \/ \E e \in monthlyTopic \union categoryTopic : Receive(c, e) \/ DropEmpty(c, e)
  \/ SaveMonthly(c)
  \/ SaveCategory(c)
  \/ Fail(c)

Next ==
  \/ \E e \in MonthlyEvent : PublishMonthly(e)
  \/ \E e \in CategoryEvent : PublishCategory(e)
  \/ \E c \in Consumer : Handle(c)

Spec == Init /\ [][Next]_vars

--------------------------------------------------------------------------------
(* Properties. The first four are for one consumer loop, as deployed: two  *)
(* loops that handle one month at once overwrite each other's rows.        *)

Month == INSTANCE MonthRegister WITH Totals <- MonthlyEvent, Shares <- CategoryEvent

MonthlyRow == INSTANCE RevisionRegister WITH Content <- Amount, held <- monthly

CategoryRow(k) ==
  INSTANCE RevisionRegister WITH Content <- Amount, held <- categories[k]

(* Refinement: through redelivery, reordering and failures every message   *)
(* is stored whole and in one step or not at all, although it may write    *)
(* many rows and each of them decides by its own revision                  *)
(* (handle_monthly_cashflow, handle_category_cashflow).                    *)
MonthStored == Month!Spec

(* Refinement: the monthly row only ever moves to a larger revision, whole *)
(* (handle_monthly_cashflow).                                              *)
MonthlyLargest == MonthlyRow!Spec

(* Refinement: and so does the row of each category, though one message    *)
(* writes many of them (handle_category_cashflow).                         *)
CategoryLargest ==
  /\ \A k \in Category : CategoryRow(k)!Init
  /\ [][\A k \in Category : [CategoryRow(k)!Next]_(categories[k])]_categories

HandledMonthly == handled \intersect MonthlyEvent
Naming(k) == {e \in handled \intersect CategoryEvent : k \in DOMAIN e.amounts}

(* The rows are what the handled messages make them, in whatever order     *)
(* they came: none of a message's categories is lost, and none is stored   *)
(* from a message whose handling failed half way.                          *)
NewestKept ==
  /\ monthly = None => HandledMonthly = {}
  /\ monthly # None =>
       /\ \E e \in HandledMonthly : monthly = [rev |-> e.rev, amount |-> e.amount]
       /\ \A e \in HandledMonthly : e.rev <= monthly.rev
  /\ \A k \in Category :
       /\ categories[k] = None => Naming(k) = {}
       /\ categories[k] # None =>
            /\ \E e \in Naming(k) : categories[k] = [rev |-> e.rev, amount |-> e.amounts[k]]
            /\ \A e \in Naming(k) : e.rev <= categories[k].rev

(* What the revision rule says of a month as a whole: only the largest     *)
(* revision is used as the final result (consumer.py 280 and 357). A       *)
(* category that revision no longer names is no part of it.                *)
OnlyLargestRevision ==
  \A k \in Category, e \in handled \intersect CategoryEvent :
    (DOMAIN e.amounts # {} /\ categories[k] # None) => categories[k].rev >= e.rev
=================================================================================
