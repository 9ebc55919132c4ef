------------------------------ MODULE RowLocks ------------------------------
(***************************************************************************)
(* The row locks of the database transactions that WalletLedger takes as   *)
(* single actions: which rows each of them locks, in which order, and who  *)
(* can come to wait for whom.                                              *)
(*                                                                         *)
(* A transaction is the sequence of its statements.  A statement takes its *)
(* locks in any order but one at a time, then reads or writes its rows.    *)
(* PostgreSQL keeps every lock until the transaction ends.                 *)
(***************************************************************************)
EXTENDS Integers, Sequences

CONSTANTS
  MaxId,      \* largest serial id: an integer column
  Users,      \* ids of users: numbers, for the code compares them
  Bills,      \* [creditor, debtor] by bill id
  Batches,    \* the bills of a referenceId, in the order of a table scan
  Payments,   \* gateway rows, [payer, bill] by row id; NoBill for a top-up
  NoBill,
  Txs         \* database transactions

ASSUME IdsAssumption ==
  /\ MaxId \in Nat
  /\ Users \subseteq 1 .. MaxId
  /\ DOMAIN Bills \subseteq 1 .. MaxId

ASSUME RowsAssumption ==
  /\ \A b \in DOMAIN Bills : Bills[b].creditor \in Users /\ Bills[b].debtor \in Users
  /\ \A p \in DOMAIN Payments : /\ Payments[p].payer \in Users
                                /\ Payments[p].bill \in DOMAIN Bills \cup {NoBill}

\* A scan meets the rows of a batch in one order, whoever deletes it.
ASSUME BatchesAssumption ==
  \A ref \in DOMAIN Batches :
    /\ Batches[ref] \in Seq(DOMAIN Bills)
    /\ \A i, j \in DOMAIN Batches[ref] : i < j => Batches[ref][i] < Batches[ref][j]

VARIABLES
  program,  \* the statements of the transaction
  at,       \* the one it is executing
  held,     \* locks it holds
  phase     \* "idle", "open" or "closed"

vars == <<program, at, held, phase>>

-----------------------------------------------------------------------------
(***************************************************************************)
(* Rows and locks                                                          *)
(***************************************************************************)

U(u) == [table |-> "user", id |-> u]
W(u) == [table |-> "wallet", id |-> u]
B(b) == [table |-> "bill", id |-> b]
P(p) == [table |-> "payment", id |-> p]

\* The rows that hold money.
Ledger == {W(u) : u \in Users} \cup {B(b) : b \in DOMAIN Bills}
Rows == Ledger \cup {U(u) : u \in Users} \cup {P(p) : p \in DOMAIN Payments}

\* FOR UPDATE, the lock of an UPDATE that changes no key, and the lock that a
\* foreign key's check takes on the row referred to.
Modes == {"update", "change", "keyshare"}

Locks == [row : Rows, mode : Modes]

Unlocked(row) == {}                              \* mutant: no lock in findOne
ForUpdate(row) == {[row |-> row, mode |-> "update"]}
Change(rows) == {[row |-> r, mode |-> "change"] : r \in rows}
KeyShare(rows) == {[row |-> r, mode |-> "keyshare"] : r \in rows}

\* Statements: a SELECT with pessimistic_write, a save of rows, the INSERT of a row
\* that refers to others, a DELETE.
Reads(row) == [read |-> {row}, written |-> {}, locks |-> ForUpdate(row)]
Writes(rows) == [read |-> {}, written |-> rows, locks |-> Change(rows)]
Refers(rows) == [read |-> {}, written |-> {}, locks |-> KeyShare(rows)]
Deletes(row) ==
  [read |-> {row}, written |-> {row}, locks |-> {[row |-> row, mode |-> "update"]}]

\* External: PostgreSQL's table of conflicting row locks.
Conflict(l, k) ==
  /\ l.row = k.row
  /\ \/ l.mode = "update" \/ k.mode = "update"
     \/ l.mode = "change" /\ k.mode = "change"

-----------------------------------------------------------------------------
(***************************************************************************)
(* What each transaction locks                                             *)
(***************************************************************************)

\* [first, second].sort((left, right) => left - right)
AsGiven(u, v) == <<u, v>>                        \* mutant: no sort
InOrder(u, v) == IF u <= v THEN <<u, v>> ELSE <<v, u>>

Transfer(u, v) ==
  LET pair == InOrder(u, v)
  IN  <<Reads(W(pair[1])), Reads(W(pair[2])), Writes({W(u), W(v)}),
        Refers({W(u), W(v), U(u), U(v)})>>

Withdraw(u) == <<Reads(U(u)), Reads(W(u)), Writes({W(u)}), Refers({W(u), U(u)})>>

\* findBillForUpdate locks the row of every table of its join.  By wallet, the wallets
\* and the bill are saved; by gateway, nothing is.  The debit, credit or PENDING rows
\* come last.
PayBill(b, saved) ==
  LET payer == Bills[b].debtor
      payee == Bills[b].creditor
      pair == InOrder(payer, payee)
  IN  <<Reads(B(b)), Reads(U(payee)), Reads(U(payer)), Reads(W(pair[1])), Reads(W(pair[2])),
        Writes(saved), Refers({W(payer), W(payee), U(payer), U(payee), B(b)})>>

\* The rows that a payment from the wallet saves.
PaidFromWallet(b) == {W(Bills[b].debtor), W(Bills[b].creditor), B(b)}

\* The PENDING row of a top-up.
Charge(u) == <<Refers({W(u), U(u)})>>

\* The save of a payment's token, or of its failure.
SavePayment(p) == <<Writes({P(p)})>>

\* failGatewayTransaction; of a payment that is done it saves nothing.
FailPayment(p) == <<Reads(P(p)), Writes({P(p)})>>

SettleCharge(p) ==
  LET wallet == W(Payments[p].payer)
  IN  <<Reads(P(p)), Reads(wallet), Writes({wallet, P(p)})>>

\* finalizeBillGatewayCallback
SettleBill(p, b) ==
  LET payee == Bills[b].creditor
  IN  <<Reads(P(p)), Reads(B(b)), Reads(U(payee)), Reads(U(Bills[b].debtor)),
        Reads(W(payee)), Writes({W(payee), B(b), P(p)}),
        Refers({W(payee), U(Payments[p].payer), U(payee), B(b)})>>

CreateBill(u, v) == <<Refers({U(u), U(v)})>>

\* The batch, then the payments whose billId the foreign key clears.
DeleteBill(ref) ==
  LET batch == Batches[ref]
      cleared == {p \in DOMAIN Payments : \E i \in DOMAIN batch : Payments[p].bill = batch[i]}
  IN  [i \in 1 .. Len(batch) + 1 |->
         IF i \in DOMAIN batch THEN Deletes(B(batch[i])) ELSE Writes({P(p) : p \in cleared})]

Programs ==
       (UNION {{Transfer(u, v) : v \in Users \ {u}} : u \in Users})
  \cup {CreateBill(u, v) : u, v \in Users}
  \cup {Withdraw(u) : u \in Users}
  \cup {Charge(u) : u \in Users}
  \cup {PayBill(b, {}) : b \in DOMAIN Bills}
  \cup {PayBill(b, PaidFromWallet(b)) : b \in DOMAIN Bills}
  \cup {DeleteBill(ref) : ref \in DOMAIN Batches}
  \cup {SavePayment(p) : p \in DOMAIN Payments}
  \cup {FailPayment(p) : p \in DOMAIN Payments}
  \cup {SettleCharge(p) : p \in {q \in DOMAIN Payments : Payments[q].bill = NoBill}}
  \cup {SettleBill(p, Payments[p].bill) :
          p \in {q \in DOMAIN Payments : Payments[q].bill \in DOMAIN Bills}}

-----------------------------------------------------------------------------
Init ==
  /\ program = [t \in Txs |-> <<>>]
  /\ at = [t \in Txs |-> 1]
  /\ held = [t \in Txs |-> {}]
  /\ phase = [t \in Txs |-> "idle"]

Open(t) ==
  /\ phase[t] = "idle"
  /\ \E statements \in Programs : program' = [program EXCEPT ![t] = statements]
  /\ phase' = [phase EXCEPT ![t] = "open"]
  /\ UNCHANGED <<at, held>>

\* Locks of the statement being executed that are still to be had.
Wanted(t) == IF at[t] \in DOMAIN program[t] THEN program[t][at[t]].locks \ held[t] ELSE {}

\* s holds the row that t wants.
Blocks(s, t, row) ==
  /\ s # t
  /\ \E l \in Wanted(t), k \in held[s] : l.row = row /\ Conflict(l, k)

Take(t, l) ==
  /\ l \in Wanted(t)
  /\ \A s \in Txs \ {t} : \A k \in held[s] : ~Conflict(l, k)
  /\ held' = [held EXCEPT ![t] = @ \cup {l}]
  /\ UNCHANGED <<program, at, phase>>

\* The statement has its locks; what it does with them is WalletLedger's.
FinishStatement(t) ==
  /\ at[t] \in DOMAIN program[t]
  /\ Wanted(t) = {}
  /\ at' = [at EXCEPT ![t] = @ + 1]
  /\ UNCHANGED <<program, held, phase>>

Close(t) ==
  /\ phase[t] = "open"
  /\ phase' = [phase EXCEPT ![t] = "closed"]
  /\ program' = [program EXCEPT ![t] = <<>>]
  /\ at' = [at EXCEPT ![t] = 1]
  /\ held' = [held EXCEPT ![t] = {}]

Commit(t) == at[t] \notin DOMAIN program[t] /\ Close(t)

\* A check or a call of the handler throws, the process dies, or PostgreSQL
\* chooses the transaction as the victim of a deadlock.
RollBack(t) == Close(t)

Next ==
  \E t \in Txs :
    \/ Open(t)
    \/ \E l \in Wanted(t) : Take(t, l)
    \/ FinishStatement(t)
    \/ Commit(t)
    \/ RollBack(t)

Spec == Init /\ [][Next]_vars
-----------------------------------------------------------------------------
(***************************************************************************)
(* Properties                                                              *)
(***************************************************************************)

\* Transactions of ts that wait for each other on some of the rows.
Circle(ts, rows) ==
  /\ ts # {}
  /\ \A t \in ts : \E s \in ts, row \in rows : Blocks(s, t, row)

\* Handlers never wait for each other in a circle of wallets and bills: a bill
\* is locked before any wallet, and wallets in the order of their users.  The
\* circles that are possible all have a wait for a user's row, which a joined
\* FOR UPDATE and a withdrawal lock, or for a payment that a deletion changes.
NoLedgerDeadlock == \A ts \in SUBSET Txs : ~Circle(ts, Ledger)

\* What the statements of a transaction have read FOR UPDATE, and written, so far.
Finished(t) == {i \in DOMAIN program[t] : i < at[t]}
Read(t) == UNION {program[t][i].read : i \in Finished(t)}
Written(t) == UNION {program[t][i].written : i \in Finished(t)}

\* What a transaction has read FOR UPDATE nobody else writes until it ends, and every
\* wallet and bill that it writes it has read so: no update is lost, and the
\* transaction is one step of the ledger.
TransactionsAreAtomic ==
  \A t \in Txs :
    /\ \A s \in Txs \ {t} : Read(t) \cap Written(s) = {}
    /\ Written(t) \cap Ledger \subseteq Read(t)
=============================================================================
