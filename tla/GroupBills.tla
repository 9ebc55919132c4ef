----------------------------- MODULE GroupBills -----------------------------
(***************************************************************************)
(* Bills that are split among debtors, one row each, by insertions that    *)
(* run at once; bills assigned to a group by a save of the whole row; the  *)
(* deletion of a batch; payments of its bills.                             *)
(*                                                                         *)
(* A batch of Batches is a referenceId, and stands for the request that    *)
(* creates its bills; <<batch, position>> is the id of a bill.  The others *)
(* are Requests, each used once.  Amounts are in units of the columns'     *)
(* scale, of which Unit make a whole one.                                  *)
(***************************************************************************)
EXTENDS Integers, Sequences

CONSTANTS
  Users,
  Groups,
  Batches,
  Requests,    \* that assign or delete
  Null,
  MaxDebtors,  \* of one bill
  Totals,      \* amounts that are split
  Unit         \* 100: decimal(10, 2), paid from bigint balances

ASSUME SplitAssumption ==
  /\ MaxDebtors \in Nat \ {0}
  /\ Totals \subseteq Nat
  /\ \A t \in Totals : t > 0 /\ 2 * t >= MaxDebtors            \* no share is rounded to zero
  /\ Unit \in Nat \ {0}

Ids == Batches \X (1..MaxDebtors)
Debtors == UNION {[1..n -> Users] : n \in 1..MaxDebtors}       \* debtorIds, repetitions too
Row == [creditor : Users, debtor : Users, group : Groups \cup {Null},
        amount : Nat, paid : Nat, isPaid : BOOLEAN]
Split == [creditor : Users, debtors : Debtors, group : Groups \cup {Null}, total : Totals,
          divided : BOOLEAN]                     \* by createBillForGroupMembers

ASSUME NullAssumption == Null \notin Users \cup Groups \cup Batches \cup Ids \cup Row \cup Split

VARIABLES
  \* tables
  users,
  owner,      \* of a group: Null when its user was removed
  groups,
  bill,       \* Null, or the row
  \* handlers that create
  split,      \* what createBillForGroupMembers or createBill was asked
  part,       \* what the insertion of a bill awaits
  found,      \* the group an insertion found
  answer,
  \* handlers that assign or delete
  stage,
  target,     \* the bill that is assigned, the batch that is deleted
  copy,       \* the row that is assigned ...
  base,       \* ... and the one save() has selected to compare it with
  \* history
  deleted,    \* batches
  returning,  \* bills of a batch that others had in hand when it was deleted
  collected,  \* what the payments of a bill add up to
  reverted    \* bills that were paid while an assignment held another state of them

tables == <<users, owner, groups, bill>>
creation == <<split, part, found, answer>>
request == <<stage, target, copy, base>>
history == <<deleted, returning, collected, reverted>>
vars == <<tables, creation, request, history>>

-----------------------------------------------------------------------------
Steps == {"creditor", "group", "debtor", "save"}               \* of an insertion
Inserting(id) == part[id] \in Steps
Positions(b) == DOMAIN split[b].debtors

Init ==
  /\ users = Users
  /\ owner \in [Groups -> Users]
  /\ groups = Groups
  /\ bill = [id \in Ids |-> Null]
  /\ split = [b \in Batches |-> Null]
  /\ part = [id \in Ids |-> "none"]
  /\ found = [id \in Ids |-> Null]
  /\ answer = [b \in Batches |-> "none"]
  /\ stage = [r \in Requests |-> "idle"]
  /\ target = [r \in Requests |-> Null]
  /\ copy = [r \in Requests |-> Null]
  /\ base = [r \in Requests |-> Null]
  /\ deleted = {}
  /\ returning = {}
  /\ collected = [id \in Ids |-> 0]
  /\ reverted = {}

-----------------------------------------------------------------------------
(***************************************************************************)
(* Splitting a bill                                                        *)
(***************************************************************************)

\* The column rounds what the division leaves to the nearest unit of its scale.
ByMaximum(asked) == asked.total \div MaxDebtors   \* mutant: not by the debtors
Share(asked) ==
  LET n == Len(asked.debtors) IN (2 * asked.total + n) \div (2 * n)

IsOwn(asked, i) == asked.divided /\ asked.creditor = asked.debtors[i]
Opening(asked, i) == IF IsOwn(asked, i) THEN Share(asked) ELSE 0

NewBill(asked, i, g) ==
  [creditor |-> asked.creditor, debtor |-> asked.debtors[i], group |-> g,
   amount |-> Share(asked), paid |-> Opening(asked, i), isPaid |-> IsOwn(asked, i)]

Starts(b, creditor, debtors, g, total, divided) ==
  /\ answer[b] = "none"
  /\ answer' = [answer EXCEPT ![b] = "awaited"]
  /\ split' = [split EXCEPT ![b] = [creditor |-> creditor, debtors |-> debtors,
                                    group |-> g, total |-> total, divided |-> divided]]
  /\ part' = [id \in Ids |-> IF id[1] = b /\ id[2] \in DOMAIN debtors THEN "creditor"
                             ELSE part[id]]
  /\ UNCHANGED <<tables, found, request, history>>

\* createBillForGroupMembers has found the group and its members, and starts a
\* createBill for each debtor.  A group without members is refused.
SplitBill(b, creditor, debtors, g, total) ==
  /\ g \in groups
  /\ Starts(b, creditor, debtors, g, total, TRUE)

\* POST /bills: the same insertion, of one bill that is not paid.
CreateBill(b, creditor, debtor, g, amount) ==
  Starts(b, creditor, <<debtor>>, g, amount, FALSE)

\* Promise.all is fulfilled with the last bill, and rejected with the first
\* failure, whatever the others still do.
OneSaved(b, id, step) == step = "saved"          \* mutant: Promise.any
AllSaved(b, id, step) ==
  /\ step = "saved"
  /\ \A i \in Positions(b) : <<b, i>> = id \/ part[<<b, i>>] = "saved"

Answered(b, id, step) ==
  IF answer[b] # "awaited" THEN answer[b]
  ELSE IF AllSaved(b, id, step) THEN "ok"
  ELSE IF step = "failed" THEN "errors"
  ELSE "awaited"

\* An insertion comes to its end.
Settles(id, step) ==
  /\ part' = [part EXCEPT ![id] = step]
  /\ answer' = [answer EXCEPT ![id[1]] = Answered(id[1], id, step)]
  /\ UNCHANGED <<split, found>>

Awaits(id, next) ==
  /\ part' = [part EXCEPT ![id] = next]
  /\ UNCHANGED <<tables, split, answer, request, history>>

FindCreditor(id) ==
  /\ part[id] = "creditor"
  /\ split[id[1]].creditor \in users
  /\ Awaits(id, IF split[id[1]].group = Null THEN "debtor" ELSE "group")
  /\ UNCHANGED found

\* A group that is not there is no error: the bill belongs to none.
FindGroup(id) ==
  LET g == split[id[1]].group IN
  /\ part[id] = "group"
  /\ found' = [found EXCEPT ![id] = IF g \in groups THEN g ELSE Null]
  /\ Awaits(id, "debtor")

FindDebtor(id) ==
  /\ part[id] = "debtor"
  /\ split[id[1]].debtors[id[2]] \in users
  /\ Awaits(id, "save")
  /\ UNCHANGED found

\* The foreign keys of a row.
Referable(row) ==
  /\ {row.creditor, row.debtor} \subseteq users
  /\ row.group \in groups \cup {Null}

SaveBill(id) ==
  LET new == NewBill(split[id[1]], id[2], found[id]) IN
  /\ part[id] = "save"
  /\ Referable(new)
  /\ bill' = [bill EXCEPT ![id] = new]
  /\ collected' = [collected EXCEPT ![id] = new.paid]
  /\ Settles(id, "saved")
  /\ UNCHANGED <<users, owner, groups, request, deleted, returning, reverted>>

\* A lookup finds nobody, there is no title, a statement fails or is refused by
\* a foreign key, or the process dies.
InsertionFails(id) ==
  /\ Inserting(id)
  /\ Settles(id, "failed")
  /\ UNCHANGED <<tables, request, history>>

-----------------------------------------------------------------------------
(***************************************************************************)
(* Assigning a bill to a group                                             *)
(***************************************************************************)

Goes(r, next) ==
  /\ stage' = [stage EXCEPT ![r] = next]
  /\ UNCHANGED creation

Replies(r) ==
  /\ Goes(r, "done")
  /\ target' = [target EXCEPT ![r] = Null]
  /\ copy' = [copy EXCEPT ![r] = Null]
  /\ base' = [base EXCEPT ![r] = Null]

\* assignBillToGroup, up to the save.  The group was looked up before the bill; one
\* that is removed between is refused by the foreign key in the end.
AssignBill(r, u, g, id) ==
  /\ stage[r] = "idle"
  /\ g \in groups
  /\ owner[g] = u
  /\ bill[id] # Null
  /\ target' = [target EXCEPT ![r] = id]
  /\ copy' = [copy EXCEPT ![r] = [bill[id] EXCEPT !.group = g]]
  /\ Goes(r, "select")
  /\ UNCHANGED <<tables, base, history>>

SaveSelect(r) ==
  /\ stage[r] = "select"
  /\ base' = [base EXCEPT ![r] = bill[target[r]]]
  /\ Goes(r, IF bill[target[r]] = Null THEN "insert" ELSE "update")
  /\ UNCHANGED <<tables, target, copy, history>>

\* The columns in which the copy differs from what was selected.
WholeRow(mine, selected, row) == mine            \* mutant: update() with all columns
Merged(mine, selected, row) ==
  [row EXCEPT !.group = IF mine.group # selected.group THEN mine.group ELSE @,
              !.paid = IF mine.paid # selected.paid THEN mine.paid ELSE @,
              !.isPaid = IF mine.isPaid # selected.isPaid THEN mine.isPaid ELSE @]

SaveUpdate(r) ==
  LET row == bill[target[r]] IN
  /\ stage[r] = "update"
  /\ row # Null => Referable(Merged(copy[r], base[r], row))
  /\ bill' = IF row = Null THEN bill
             ELSE [bill EXCEPT ![target[r]] = Merged(copy[r], base[r], row)]
  /\ Replies(r)
  /\ UNCHANGED <<users, owner, groups, history>>

\* save() of a bill that was deleted inserts it again.
SaveInsert(r) ==
  /\ stage[r] = "insert"
  /\ bill[target[r]] = Null
  /\ Referable(copy[r])
  /\ bill' = [bill EXCEPT ![target[r]] = copy[r]]
  /\ Replies(r)
  /\ UNCHANGED <<users, owner, groups, history>>

-----------------------------------------------------------------------------
(***************************************************************************)
(* Deletion, and payment                                                   *)
(***************************************************************************)

\* deleteBill finds any bill of the batch ...
FindBatch(r, u, b) ==
  /\ stage[r] = "idle"
  /\ \E id \in Ids : id[1] = b /\ bill[id] # Null /\ bill[id].creditor = u
  /\ target' = [target EXCEPT ![r] = b]
  /\ Goes(r, "delete")
  /\ UNCHANGED <<tables, copy, base, history>>

Batch(b) == {id \in Ids : id[1] = b /\ bill[id] # Null}
OneOf(b) == {id \in Batch(b) : \A j \in Batch(b) : id[2] <= j[2]}  \* mutant: by the id it found
Affected(b) == Batch(b)

\* Who may still write a row of the batch.
InHand(b) ==
  {id \in Ids : id[1] = b /\ (\/ Inserting(id)
                              \/ \E r \in Requests : target[r] = id /\ stage[r] \in {"select", "insert"})}

\* ... and deletes all of them.
DeleteBatch(r) ==
  LET b == target[r] IN
  /\ stage[r] = "delete"
  /\ Batch(b) # {}
  /\ bill' = [id \in Ids |-> IF id \in Affected(b) THEN Null ELSE bill[id]]
  /\ deleted' = deleted \cup {b}
  /\ returning' = returning \cup InHand(b)
  /\ Replies(r)
  /\ UNCHANGED <<users, owner, groups, collected, reverted>>

\* A statement fails or is refused, nothing is found any more, the process dies.
Throws(r) ==
  /\ stage[r] \in {"select", "update", "insert", "delete"}
  /\ Replies(r)
  /\ UNCHANGED <<tables, history>>

\* ensureBillPaymentAmount and applyBillPayment, in the transaction of a payment,
\* which holds the row's lock.
WholeAmount(row) == row.amount                   \* mutant: paid not subtracted
Remaining(row) == IF row.amount > row.paid THEN row.amount - row.paid ELSE 0
ClosedAbove(row, a) == row.paid + a > row.amount               \* mutant: > for >=
Closes(row, a) == row.paid + a >= row.amount

\* Assignments that would write back what the bill was before.
Holding(id) ==
  \E r \in Requests :
    /\ target[r] = id
    /\ \/ stage[r] \in {"select", "insert"}
       \/ /\ stage[r] = "update"
          /\ copy[r].paid # base[r].paid \/ copy[r].isPaid # base[r].isPaid

\* The balance it is paid from is a bigint: a fraction is refused.
PayBill(id) ==
  LET row == bill[id] IN
  /\ row # Null
  /\ ~row.isPaid
  /\ \E a \in 1..Remaining(row) :
       /\ a % Unit = 0
       /\ bill' = [bill EXCEPT ![id] = [row EXCEPT !.paid = @ + a, !.isPaid = Closes(row, a)]]
       /\ collected' = [collected EXCEPT ![id] = @ + a]
  /\ reverted' = IF Holding(id) THEN reverted \cup {id} ELSE reverted
  /\ UNCHANGED <<users, owner, groups, creation, request, deleted, returning>>

-----------------------------------------------------------------------------
(***************************************************************************)
(* Removals, by the services of users and groups                           *)
(***************************************************************************)

RemoveGroup(g) ==
  /\ g \in groups
  /\ groups' = groups \ {g}
  /\ bill' = [id \in Ids |-> IF bill[id] # Null /\ bill[id].group = g
                             THEN [bill[id] EXCEPT !.group = Null] ELSE bill[id]]
  /\ UNCHANGED <<users, owner, creation, request, history>>

RemoveUser(u) ==
  /\ u \in users
  /\ users' = users \ {u}
  /\ owner' = [g \in Groups |-> IF owner[g] = u THEN Null ELSE owner[g]]
  /\ bill' = [id \in Ids |-> IF bill[id] # Null /\ u \in {bill[id].creditor, bill[id].debtor}
                             THEN Null ELSE bill[id]]
  /\ UNCHANGED <<groups, creation, request, history>>

Next ==
  \/ \E b \in Batches, c \in Users, total \in Totals :
       \/ \E ds \in Debtors, g \in Groups : SplitBill(b, c, ds, g, total)
       \/ \E d \in Users, g \in Groups \cup {Null} : CreateBill(b, c, d, g, total)
  \/ \E r \in Requests :
       \/ \E u \in Users :
            \/ \E g \in Groups, id \in Ids : AssignBill(r, u, g, id)
            \/ \E b \in Batches : FindBatch(r, u, b)
       \/ SaveSelect(r)
       \/ SaveUpdate(r)
       \/ SaveInsert(r)
       \/ DeleteBatch(r)
       \/ Throws(r)
  \/ \E id \in Ids :
       \/ FindCreditor(id)
       \/ FindGroup(id)
       \/ FindDebtor(id)
       \/ SaveBill(id)
       \/ InsertionFails(id)
       \/ PayBill(id)
  \/ \E g \in Groups : RemoveGroup(g)
  \/ \E u \in Users : RemoveUser(u)

Spec == Init /\ [][Next]_vars

-----------------------------------------------------------------------------
(***************************************************************************)
(* Properties                                                              *)
(***************************************************************************)

\* Every column and local variable keeps its type, and nothing is paid above the
\* amount that the row states.
TypeOK ==
  /\ users \subseteq Users
  /\ owner \in [Groups -> Users \cup {Null}]
  /\ groups \subseteq Groups
  /\ bill \in [Ids -> Row \cup {Null}]
  /\ \A id \in Ids : bill[id] # Null => bill[id].paid <= bill[id].amount
  /\ split \in [Batches -> Split \cup {Null}]
  /\ part \in [Ids -> Steps \cup {"none", "saved", "failed"}]
  /\ found \in [Ids -> Groups \cup {Null}]
  /\ answer \in [Batches -> {"none", "awaited", "ok", "errors"}]
  /\ stage \in [Requests -> {"idle", "select", "update", "insert", "delete", "done"}]
  /\ target \in [Requests -> Batches \cup Ids \cup {Null}]
  /\ copy \in [Requests -> Row \cup {Null}]
  /\ base \in [Requests -> Row \cup {Null}]
  /\ deleted \subseteq Batches
  /\ returning \subseteq Ids
  /\ collected \in [Ids -> Nat]
  /\ reverted \subseteq Ids

\* When createBillForGroupMembers reports success every debtor has a bill, until the
\* batch is deleted or one of the two users is removed; when it reports errors, some
\* debtor has none and will have none, however the other insertions end.
AnswerTellsAll ==
  \A b \in Batches :
    /\ answer[b] = "ok" =>
         \A i \in Positions(b) :
           \/ bill[<<b, i>>] # Null
           \/ b \in deleted
           \/ ~({split[b].creditor, split[b].debtors[i]} \subseteq users)
    /\ answer[b] = "errors" => \E i \in Positions(b) : bill[<<b, i>>] = Null

\* A deleted batch has no bills, except those whose insertion was still under way
\* and those that an assignment had read, when deleteBill deleted it.
DeletedStaysDeleted ==
  \A id \in Ids : id[1] \in deleted /\ bill[id] # Null => id \in returning

\* paid is what the payments of the bill add up to, and isPaid says whether that is
\* its amount, unless an assignment held the row while the bill was paid.
PaymentsAreKept ==
  \A id \in Ids :
    bill[id] # Null /\ id \notin reverted =>
      /\ bill[id].paid = collected[id]
      /\ collected[id] <= bill[id].amount
      /\ bill[id].isPaid <=> bill[id].paid >= bill[id].amount

\* The shares of a split bill add up to its total, to half a unit of the column for
\* each debtor, whatever the others did to the bills.
SharesAddUp ==
  \A id \in Ids :
    bill[id] # Null =>
      LET n == Len(split[id[1]].debtors)
          rest == n * bill[id].amount - split[id[1]].total
      IN 2 * rest <= n /\ -2 * rest <= n

\* A bill that is not paid can be paid on, in whole units, unless its amount has a
\* fraction: then what is left may be less than one.
OpenBillsArePayable ==
  \A id \in Ids :
    bill[id] # Null /\ ~bill[id].isPaid /\ id \notin reverted /\ bill[id].amount % Unit = 0 =>
      Remaining(bill[id]) >= Unit

\* The bills implement BillAccount, except those that someone had in hand, and may
\* write back, when they were paid or deleted.
InHandAtChange(id) == id \in reverted \cup returning

Account == INSTANCE BillAccount WITH
  Bills <- Ids,
  state <- [id \in Ids |-> IF InHandAtChange(id) THEN "void"
                           ELSE IF bill[id] # Null
                             THEN IF bill[id].isPaid THEN "closed" ELSE "open"
                           ELSE IF part[id] = "saved" THEN "gone" ELSE "none"],
  due <- [id \in Ids |-> IF bill[id] = Null \/ InHandAtChange(id) THEN 0 ELSE bill[id].amount],
  collected <- [id \in Ids |-> IF InHandAtChange(id) THEN 0 ELSE collected[id]]

BillsAreAccounts == Account!Spec
=============================================================================
