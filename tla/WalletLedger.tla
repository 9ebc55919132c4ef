---------------------------- MODULE WalletLedger ----------------------------
(***************************************************************************)
(* The wallet, bill-payment and gateway core: WalletService with the bill  *)
(* rows of BillService and the rows it keeps in PostgreSQL.                *)
(*                                                                         *)
(* One identifier of Ids stands for one money request: the UUID of the row *)
(* it inserts, the reference it generates and the gateway token it is      *)
(* given.  Each `dataSource.transaction` callback of WalletService locks   *)
(* every row it changes with `pessimistic_write` before it reads it, so a  *)
(* callback that awaits only the database is one action.  Where the code   *)
(* awaits something else (the gateway, the settlement API, a second save)  *)
(* the handler is cut, and its continuation is a later action.             *)
(*                                                                         *)
(* Money is in whole units.  `wallets.balance` and                         *)
(* `wallet_transactions.amount` are bigint columns without a transformer,  *)
(* which the PostgreSQL driver hands to JavaScript as text: `-=`, `>=` and *)
(* `<` turn the text into a number, `+=` appends to it (see Append10).     *)
(***************************************************************************)
EXTENDS Integers, FiniteSets

CONSTANTS
  Users,         \* users of the `user` table; all of them exist throughout
  Holders,       \* the users who own a wallet at the start
  Opening,       \* the balances at the start
  Bills,         \* bill ids
  Batches,       \* bill.referenceId values
  BillOffers,    \* bodies of POST /bills
  Ids,           \* money requests: each is used once
  Amounts,       \* amounts a client asks to charge, pay, transfer, withdraw
  Decades,       \* the powers of ten
  MaxBigint,     \* largest value of a bigint column
  MaxDecimal,    \* largest value of a decimal(10,2) column
  MaxCallbacks,  \* bound: callbacks of one token being handled at once
  NoUser, NoBill \* SQL NULL

ASSUME BoundsAssumption ==
  /\ MaxBigint \in Nat
  /\ MaxDecimal \in Nat
  /\ MaxCallbacks \in Nat

ASSUME AmountsAssumption == Amounts \subseteq 1 .. MaxBigint

ASSUME OpeningAssumption ==
  /\ Holders \subseteq Users
  /\ Opening \in [Users -> 0 .. MaxBigint]
  /\ \A u \in Users \ Holders : Opening[u] = 0

ASSUME OffersAssumption ==
  BillOffers \subseteq [creditor : Users, debtor : Users, referenceId : Batches,
                        amount : 0 .. MaxDecimal, paid : 0 .. MaxDecimal,
                        isPaid : BOOLEAN]

ASSUME NullsAssumption == NoUser \notin Users /\ NoBill \notin Bills

\* Every amount has a number of digits: one decade is above it, within a digit.
ASSUME DecadesAssumption ==
  /\ Decades \subseteq Nat \ {0}
  /\ \A a \in Amounts : \E p \in Decades : a < p /\ p <= 10 * a

VARIABLES
  owners,     \* users with a row in `wallets`
  balance,    \* wallets.balance by owner
  bill,       \* the `bill` table
  tx,         \* wallet_transactions: the row a request inserts first
  credits,    \* wallet credits under the reference: CREDIT rows, or the top-up
  collected,  \* history: what settled payments of the bill add up to
  payment,    \* gateway: what became of the token
  declined,   \* gateway: tokens with a refused attempt
  verified,   \* gateway: tokens whose payment was verified, hence captured
  accepted,   \* settlement API: payout orders it took
  dropped,    \* history: the gateway or the API had acted, and the transaction failed
  stage,      \* how far the handler of the request is
  req,        \* the handler's local variables while no row holds them
  callbacks   \* callback handlers between verifyPayment and their transaction

vars == <<owners, balance, bill, tx, credits, collected, payment, declined,
          verified, accepted, dropped, stage, req, callbacks>>

gatewayVars == <<payment, declined, verified, accepted, dropped>>

-----------------------------------------------------------------------------
(***************************************************************************)
(* Rows                                                                    *)
(***************************************************************************)

BillRow ==
  [state : {"absent", "live", "deleted"},
   creditor : Users \cup {NoUser}, debtor : Users \cup {NoUser},
   referenceId : Batches \cup {NoBill},
   amount : 0 .. MaxDecimal, paid : 0 .. MaxDecimal, isPaid : BOOLEAN]

\* walletId is the wallet of paidBy, or of paidTo in a CREDIT row; token says
\* whether referenceId is the gateway token yet.
TxRow ==
  [type : {"NONE", "CHARGE_WALLET", "DEBIT", "WITHDRAWAL", "PAY_BILLS"},
   status : {"NONE", "PENDING", "WITHDRAW_PENDING", "SUCCESS", "FAILED"},
   paidBy : Users \cup {NoUser}, paidTo : Users \cup {NoUser},
   bill : Bills \cup {NoBill}, amount : Nat, token : BOOLEAN]

NoTx == [type |-> "NONE", status |-> "NONE", paidBy |-> NoUser, paidTo |-> NoUser,
         bill |-> NoBill, amount |-> 0, token |-> FALSE]

NoBillRow == [state |-> "absent", creditor |-> NoUser, debtor |-> NoUser,
              referenceId |-> NoBill, amount |-> 0, paid |-> 0, isPaid |-> FALSE]

NoReq == [user |-> NoUser, amount |-> 0]

Stages == {"new", "tokened", "prepared", "linked", "failing", "settling",
           "accepted", "ended"}

\* Payments that go through the gateway.
Gateway == {"CHARGE_WALLET", "PAY_BILLS"}

\* Open database transactions of withdrawToBank: they hold the user's row and
\* wallet FOR UPDATE while the settlement API is called.
Holding == {"settling", "accepted"}

(***************************************************************************)
(* JavaScript's `text += amount` on decimal text, read back as a number:   *)
(* the digits of the amount are appended.  "0" + 5 is "05", that is 5, but *)
(* "12" + 5 is "125".                                                      *)
(***************************************************************************)
Shift(a) == CHOOSE p \in Decades : a < p /\ p <= 10 * a
Append10(n, a) == n * Shift(a) + a

-----------------------------------------------------------------------------
Init ==
  /\ owners = Holders
  /\ balance = Opening
  /\ bill = [b \in Bills |-> NoBillRow]
  /\ tx = [id \in Ids |-> NoTx]
  /\ credits = [id \in Ids |-> 0]
  /\ collected = [b \in Bills |-> 0]
  /\ payment = [id \in Ids |-> "none"]
  /\ declined = {}
  /\ verified = {}
  /\ accepted = {}
  /\ dropped = {}
  /\ stage = [id \in Ids |-> "new"]
  /\ req = [id \in Ids |-> NoReq]
  /\ callbacks = [id \in Ids |-> 0]

\* No open withdrawal holds the row of one of us or of their wallets.  Every
\* other transaction that names the user waits: for the wallet or the joined
\* user row it selects FOR UPDATE, or for the foreign-key check of its INSERT.
ReadUnlocked(us) == us # {}                       \* mutant: no pessimistic_write
Unlocked(us) == \A id \in Ids : stage[id] \in Holding => req[id].user \notin us

\* The handler of id throws, returns, or dies with the process.
EndCall(id) ==
  /\ stage' = [stage EXCEPT ![id] = "ended"]
  /\ req' = [req EXCEPT ![id] = NoReq]

-----------------------------------------------------------------------------
(***************************************************************************)
(* Wallet and bill rows                                                    *)
(***************************************************************************)

\* WalletRepositoryImpl.createForUser, called by register: a wallet holding 0;
\* userId is unique.
CreateForUser(u) ==
  /\ u \notin owners
  /\ owners' = owners \cup {u}
  /\ UNCHANGED <<balance, bill, tx, credits, collected, gatewayVars,
                 stage, req, callbacks>>

\* BillService.createBill: the row is inserted as the body describes it.
CreateBill(b, offer) ==
  /\ bill[b].state = "absent"
  /\ Unlocked({offer.creditor, offer.debtor})
  /\ bill' = [bill EXCEPT ![b] =
       [state |-> "live", creditor |-> offer.creditor, debtor |-> offer.debtor,
        referenceId |-> offer.referenceId, amount |-> offer.amount,
        paid |-> offer.paid, isPaid |-> offer.isPaid]]
  /\ UNCHANGED <<owners, balance, tx, credits, collected, gatewayVars,
                 stage, req, callbacks>>

\* The foreign key of wallet_transactions: ON DELETE SET NULL.
ClearBillId(batch) ==
  [id \in Ids |-> IF tx[id].bill \in batch THEN [tx[id] EXCEPT !.bill = NoBill] ELSE tx[id]]

\* BillService.deleteBill: one bill of the batch is found and its creditor
\* compared, then the whole batch goes.
DeleteBill(u, ref) ==
  LET batch == {b \in Bills : bill[b].state = "live" /\ bill[b].referenceId = ref}
  IN
  /\ \E b \in batch : bill[b].creditor = u
  /\ bill' = [b \in Bills |-> IF b \in batch THEN [bill[b] EXCEPT !.state = "deleted"]
                                            ELSE bill[b]]
  /\ tx' = ClearBillId(batch)
  /\ UNCHANGED <<owners, balance, credits, collected, gatewayVars,
                 stage, req, callbacks>>

\* ensureBillPaymentAmount
EnsureBillIsOpen(row, a) == ~row.isPaid /\ a > 0   \* mutant: no comparison
EnsureBillPaymentAmount(row, a) ==
  /\ ~row.isPaid
  /\ row.amount - row.paid > 0
  /\ a <= row.amount - row.paid

\* applyBillPayment: paid is the value `bill.paid += amount` left there.
KeepRemaining(row, paid) ==                        \* mutant: paid counts down
  [row EXCEPT !.paid = row.amount - paid, !.isPaid = (paid >= row.amount)]
ApplyBillPayment(row, paid) == [row EXCEPT !.paid = paid, !.isPaid = (paid >= row.amount)]

(***************************************************************************)
(* chargeWallet: the token is created first, the row saved afterwards.     *)
(***************************************************************************)

Fits(n) == n <= MaxBigint

ChargeRequestToken(id, u, a) ==
  /\ stage[id] = "new"
  /\ u \in owners
  /\ payment' = [payment EXCEPT ![id] = "issued"]
  /\ stage' = [stage EXCEPT ![id] = "tokened"]
  /\ req' = [req EXCEPT ![id] = [user |-> u, amount |-> a]]
  /\ UNCHANGED <<owners, balance, bill, tx, credits, collected, declined,
                 verified, accepted, dropped, callbacks>>

\* The row is saved and the payment link returned.
SaveCharge(id) ==
  /\ stage[id] = "tokened"
  /\ Unlocked({req[id].user})
  /\ tx' = [tx EXCEPT ![id] =
       [type |-> "CHARGE_WALLET", status |-> "PENDING", paidBy |-> req[id].user,
        paidTo |-> NoUser, bill |-> NoBill, amount |-> req[id].amount, token |-> TRUE]]
  /\ payment' = [payment EXCEPT ![id] = "offered"]
  /\ EndCall(id)
  /\ UNCHANGED <<owners, balance, bill, credits, collected, declined, verified,
                 accepted, dropped, callbacks>>

-----------------------------------------------------------------------------
(***************************************************************************)
(* payBill                                                                 *)
(***************************************************************************)

\* The checks of its transaction, up to the locked pair of wallets.
PayBillChecks(b, payer, a) ==
  /\ bill[b].state = "live"
  /\ bill[b].debtor = payer
  /\ EnsureBillPaymentAmount(bill[b], a)
  /\ {payer, bill[b].creditor} \subseteq owners
  /\ Unlocked({payer, bill[b].creditor})

\* balance after the payer's `-=` and the recipient's `+=`.  When both are one
\* user they are one object, which the first statement made a number.
MovedTwice(from, to, a) ==                          \* mutant: always two objects
  [balance EXCEPT ![from] = @ - a, ![to] = Append10(@, a)]
Moved(from, to, a) ==
  IF from = to THEN balance
  ELSE [balance EXCEPT ![from] = @ - a, ![to] = Append10(@, a)]

PaymentRow(type, status, b, payer, a) ==
  [type |-> type, status |-> status, paidBy |-> payer, paidTo |-> bill[b].creditor,
   bill |-> b, amount |-> a, token |-> FALSE]

\* Wallet path: dto.amount is a number here and so is bill.paid.
PayBillFromWallet(id, b, payer, a) ==
  /\ stage[id] = "new"
  /\ PayBillChecks(b, payer, a)
  /\ balance[payer] >= a
  /\ Fits(Moved(payer, bill[b].creditor, a)[bill[b].creditor])
  /\ balance' = Moved(payer, bill[b].creditor, a)
  /\ bill' = [bill EXCEPT ![b] = ApplyBillPayment(@, @.paid + a)]
  /\ tx' = [tx EXCEPT ![id] = PaymentRow("DEBIT", "SUCCESS", b, payer, a)]
  /\ credits' = [credits EXCEPT ![id] = @ + 1]
  /\ collected' = [collected EXCEPT ![b] = @ + a]
  /\ EndCall(id)
  /\ UNCHANGED <<owners, gatewayVars, callbacks>>

\* Gateway path, its transaction: a PENDING row under a reference of its own.
PayBillByGateway(id, b, payer, a) ==
  /\ stage[id] = "new"
  /\ PayBillChecks(b, payer, a)
  /\ balance[payer] < a
  /\ tx' = [tx EXCEPT ![id] = PaymentRow("PAY_BILLS", "PENDING", b, payer, a)]
  /\ stage' = [stage EXCEPT ![id] = "prepared"]
  /\ UNCHANGED <<owners, balance, bill, credits, collected, gatewayVars, req, callbacks>>

\* createPaymentToken answers.
IssueToken(id) ==
  /\ stage[id] = "prepared"
  /\ payment' = [payment EXCEPT ![id] = "issued"]
  /\ stage' = [stage EXCEPT ![id] = "linked"]
  /\ UNCHANGED <<owners, balance, bill, tx, credits, collected, declined, verified,
                 accepted, dropped, req, callbacks>>

\* save() writes the handler's copy of the row wherever it differs from the
\* stored one.  Once the bill is deleted billId differs, and its foreign key
\* refuses the statement.
RowSavable(id) == tx[id].bill # NoBill

WriteNothing(id) == UNCHANGED tx                  \* mutant: the save is left out
WriteToken(id) == tx' = [tx EXCEPT ![id].status = "PENDING", ![id].token = TRUE]

\* The token is saved as the row's reference and the payment link returned.
SaveToken(id) ==
  /\ stage[id] = "linked"
  /\ RowSavable(id)
  /\ WriteToken(id)
  /\ payment' = [payment EXCEPT ![id] = "offered"]
  /\ EndCall(id)
  /\ UNCHANGED <<owners, balance, bill, credits, collected, declined, verified,
                 accepted, dropped, callbacks>>

\* The write is committed and its acknowledgement lost: save() throws.
SaveTokenUnacknowledged(id) ==
  /\ stage[id] = "linked"
  /\ RowSavable(id)
  /\ WriteToken(id)
  /\ stage' = [stage EXCEPT ![id] = "failing"]
  /\ UNCHANGED <<owners, balance, bill, credits, collected, gatewayVars, req, callbacks>>

\* createPaymentToken, or the save of its token, throws into the catch block.
GatewayCallFails(id) ==
  /\ stage[id] \in {"prepared", "linked"}
  /\ stage' = [stage EXCEPT ![id] = "failing"]
  /\ UNCHANGED <<owners, balance, bill, tx, credits, collected, gatewayVars, req,
                 callbacks>>

\* The catch block saves FAILED, with the token if the copy got one, and rethrows.
SaveFailed(id) ==
  /\ stage[id] = "failing"
  /\ RowSavable(id)
  /\ tx' = [tx EXCEPT ![id].status = "FAILED", ![id].token = (payment[id] # "none")]
  /\ EndCall(id)
  /\ UNCHANGED <<owners, balance, bill, credits, collected, gatewayVars, callbacks>>

-----------------------------------------------------------------------------
(***************************************************************************)
(* transferWalletToWallet and withdrawToBank                               *)
(***************************************************************************)

Transfer(id, sender, recipient, a) ==
  /\ stage[id] = "new"
  /\ sender # recipient
  /\ {sender, recipient} \subseteq owners
  /\ Unlocked({sender, recipient})
  /\ balance[sender] >= a
  /\ Fits(Moved(sender, recipient, a)[recipient])
  /\ balance' = Moved(sender, recipient, a)
  /\ tx' = [tx EXCEPT ![id] =
       [type |-> "DEBIT", status |-> "SUCCESS", paidBy |-> sender,
        paidTo |-> recipient, bill |-> NoBill, amount |-> a, token |-> FALSE]]
  /\ credits' = [credits EXCEPT ![id] = @ + 1]
  /\ EndCall(id)
  /\ UNCHANGED <<owners, bill, collected, gatewayVars, callbacks>>

\* The transaction opens, locks the user and the wallet, debits and inserts;
\* nobody sees its writes before CommitWithdraw.
OpenWithdraw(id, u, a) ==
  /\ stage[id] = "new"
  /\ u \in owners
  /\ Unlocked({u})
  /\ balance[u] >= a
  /\ stage' = [stage EXCEPT ![id] = "settling"]
  /\ req' = [req EXCEPT ![id] = [user |-> u, amount |-> a]]
  /\ UNCHANGED <<owners, balance, bill, tx, credits, collected, gatewayVars, callbacks>>

\* The settlement API takes the payout order, and its answer arrives.
ProviderAccepts(id) ==
  /\ stage[id] = "settling"
  /\ accepted' = accepted \cup {id}
  /\ stage' = [stage EXCEPT ![id] = "accepted"]
  /\ UNCHANGED <<owners, balance, bill, tx, credits, collected, payment, declined,
                 verified, dropped, req, callbacks>>

CommitWithdraw(id) ==
  LET u == req[id].user
      a == req[id].amount
  IN
  /\ stage[id] = "accepted"
  /\ balance' = [balance EXCEPT ![u] = @ - a]
  /\ tx' = [tx EXCEPT ![id] =
       [type |-> "WITHDRAWAL", status |-> "WITHDRAW_PENDING", paidBy |-> u,
        paidTo |-> NoUser, bill |-> NoBill, amount |-> a, token |-> FALSE]]
  /\ EndCall(id)
  /\ UNCHANGED <<owners, bill, credits, collected, gatewayVars, callbacks>>

\* Where a handler can throw and leave it at that.
CaughtThrows == {"tokened", "settling", "accepted"}   \* mutant: not from the catch block
Throws == {"tokened", "failing", "settling", "accepted"}

\* The handler throws with nothing more written: the token was issued and the
\* insert of the charge fails, the catch block's own save fails, or the
\* withdrawal's transaction is rolled back, accepted payout or not.
HandlerThrows(id) ==
  /\ stage[id] \in Throws
  /\ EndCall(id)
  /\ dropped' = dropped \cup {i \in {id} : stage[i] = "accepted"}
  /\ UNCHANGED <<owners, balance, bill, tx, credits, collected, payment, declined,
                 verified, accepted, callbacks>>

-----------------------------------------------------------------------------
(***************************************************************************)
(* handlePaymentCallback.  External: the customer at the gateway's page.   *)
(***************************************************************************)

Pay(id) ==
  /\ payment[id] = "offered"
  /\ payment' = [payment EXCEPT ![id] = "paid"]
  /\ UNCHANGED <<owners, balance, bill, tx, credits, collected, declined, verified,
                 accepted, dropped, stage, req, callbacks>>

\* An attempt is refused; the page may let the customer try again.
Decline(id) ==
  /\ payment[id] = "offered"
  /\ id \notin declined
  /\ declined' = declined \cup {id}
  /\ UNCHANGED <<owners, balance, bill, tx, credits, collected, payment, verified,
                 accepted, dropped, stage, req, callbacks>>

\* payment_status is OK: verifyPayment is awaited before anything is read.  The
\* gateway may deliver the callback again at any time.
VerifyCallback(id) ==
  /\ payment[id] = "paid"
  /\ callbacks[id] < MaxCallbacks
  /\ verified' = verified \cup {id}
  /\ callbacks' = [callbacks EXCEPT ![id] = @ + 1]
  /\ UNCHANGED <<owners, balance, bill, tx, credits, collected, payment, declined,
                 accepted, dropped, stage, req>>

\* The status check under the row's lock, common to the three ends of a callback.
UnsettledNotRead(id) == tx[id].status # "NONE"   \* mutant: the check is left out
Unsettled(id) == tx[id].status # "SUCCESS"

\* payment_status is not OK: failGatewayTransaction.
FailCallback(id) ==
  /\ id \in declined
  /\ tx[id].token
  /\ Unsettled(id)
  /\ tx' = [tx EXCEPT ![id].status = "FAILED"]
  /\ UNCHANGED <<owners, balance, bill, credits, collected, gatewayVars, stage, req,
                 callbacks>>

\* The transaction of a verified callback finds the row by the token.
CallbackFinds(id) ==
  /\ callbacks[id] > 0
  /\ tx[id].token
  /\ callbacks' = [callbacks EXCEPT ![id] = @ - 1]

AlreadyProcessed(id) ==
  /\ CallbackFinds(id)
  /\ tx[id].status = "SUCCESS"
  /\ UNCHANGED <<owners, balance, bill, tx, credits, collected, gatewayVars, stage, req>>

\* finalizeWalletChargeCallback
SettleCharge(id) ==
  LET u == tx[id].paidBy IN
  /\ CallbackFinds(id)
  /\ Unsettled(id)
  /\ tx[id].type = "CHARGE_WALLET"
  /\ Unlocked({u})
  /\ Fits(Append10(balance[u], tx[id].amount))
  /\ balance' = [balance EXCEPT ![u] = Append10(@, tx[id].amount)]
  /\ credits' = [credits EXCEPT ![id] = @ + 1]
  /\ tx' = [tx EXCEPT ![id].status = "SUCCESS"]
  /\ UNCHANGED <<owners, bill, collected, gatewayVars, stage, req>>

\* finalizeBillGatewayCallback: transaction.amount is text, so bill.paid is
\* appended to like the balance is.
SettleBill(id) ==
  LET t == tx[id]
      b == t.bill
      paid == Append10(bill[b].paid, t.amount)
  IN
  /\ CallbackFinds(id)
  /\ Unsettled(id)
  /\ t.type = "PAY_BILLS"
  /\ b # NoBill
  /\ bill[b].state = "live"
  /\ EnsureBillPaymentAmount(bill[b], t.amount)
  /\ t.paidTo \in owners
  /\ Unlocked({t.paidBy, t.paidTo, bill[b].creditor, bill[b].debtor})
  /\ Fits(Append10(balance[t.paidTo], t.amount))
  /\ paid <= MaxDecimal
  /\ balance' = [balance EXCEPT ![t.paidTo] = Append10(@, t.amount)]
  /\ bill' = [bill EXCEPT ![b] = ApplyBillPayment(@, paid)]
  /\ credits' = [credits EXCEPT ![id] = @ + 1]
  /\ collected' = [collected EXCEPT ![b] = @ + t.amount]
  /\ tx' = [tx EXCEPT ![id].status = "SUCCESS"]
  /\ UNCHANGED <<owners, gatewayVars, stage, req>>

\* The row is missing, a check or a statement of the transaction fails: it is
\* rolled back, though the gateway has captured the payment.
CallbackRolledBack(id) ==
  /\ callbacks[id] > 0
  /\ callbacks' = [callbacks EXCEPT ![id] = @ - 1]
  /\ dropped' = dropped \cup {id}
  /\ UNCHANGED <<owners, balance, bill, tx, credits, collected, payment, declined,
                 verified, accepted, stage, req>>

-----------------------------------------------------------------------------
\* The process dies: every handler with it, and its open transactions.
Crash ==
  /\ stage' = [id \in Ids |-> IF stage[id] = "new" THEN "new" ELSE "ended"]
  /\ req' = [id \in Ids |-> NoReq]
  /\ callbacks' = [id \in Ids |-> 0]
  /\ dropped' = dropped \cup {id \in Ids : callbacks[id] > 0 \/ stage[id] = "accepted"}
  /\ UNCHANGED <<owners, balance, bill, tx, credits, collected, payment, declined,
                 verified, accepted>>

\* The next step of a handler that has started.
Proceed(id) ==
  \/ SaveCharge(id)
  \/ IssueToken(id)
  \/ GatewayCallFails(id)
  \/ SaveToken(id)
  \/ SaveTokenUnacknowledged(id)
  \/ SaveFailed(id)
  \/ ProviderAccepts(id)
  \/ CommitWithdraw(id)
  \/ HandlerThrows(id)

\* The end of a callback handler that has verified the payment.
Finalize(id) ==
  \/ AlreadyProcessed(id)
  \/ SettleCharge(id)
  \/ SettleBill(id)
  \/ CallbackRolledBack(id)

Request(id) ==
  \/ \E u \in Users, a \in Amounts : ChargeRequestToken(id, u, a)
  \/ \E b \in Bills, u \in Users, a \in Amounts : PayBillFromWallet(id, b, u, a)
  \/ \E b \in Bills, u \in Users, a \in Amounts : PayBillByGateway(id, b, u, a)
  \/ \E u, v \in Users, a \in Amounts : Transfer(id, u, v, a)
  \/ \E u \in Users, a \in Amounts : OpenWithdraw(id, u, a)

Customer(id) ==
  \/ Pay(id)
  \/ Decline(id)
  \/ VerifyCallback(id)
  \/ FailCallback(id)

Rows ==
  \/ \E u \in Users : CreateForUser(u)
  \/ \E b \in Bills, offer \in BillOffers : CreateBill(b, offer)
  \/ \E u \in Users, ref \in Batches : DeleteBill(u, ref)

Next ==
  \/ Rows
  \/ Crash
  \/ \E id \in Ids : Request(id) \/ Proceed(id) \/ Customer(id) \/ Finalize(id)

Spec == Init /\ [][Next]_vars

\* Every await of a handler is settled: the driver and the HTTP client of the
\* runtime both fail a call that gets no answer.
Fairness == \A id \in Ids : WF_vars(Proceed(id))

FairSpec == Spec /\ Fairness
-----------------------------------------------------------------------------
(***************************************************************************)
(* Properties                                                              *)
(***************************************************************************)

\* The type invariant: every column and every handler keeps its type.
TypeOK ==
  /\ owners \subseteq Users
  /\ balance \in [Users -> Int]
  /\ bill \in [Bills -> BillRow]
  /\ tx \in [Ids -> TxRow]
  /\ credits \in [Ids -> Nat]
  /\ collected \in [Bills -> Nat]
  /\ payment \in [Ids -> {"none", "issued", "offered", "paid"}]
  /\ declined \subseteq Ids
  /\ verified \subseteq Ids
  /\ accepted \subseteq Ids
  /\ dropped \subseteq Ids
  /\ stage \in [Ids -> Stages]
  /\ req \in [Ids -> [user : Users \cup {NoUser}, amount : Nat]]
  /\ callbacks \in [Ids -> 0 .. MaxCallbacks]

\* No wallet is ever overdrawn, although withdrawToBank checks the balance,
\* then waits for the settlement API, and commits its debit only afterwards.
NoOverdraft == \A u \in Users : balance[u] >= 0

\* A debtor never pays more for a bill than its amount, however many wallet and
\* gateway payments of it are under way: what a payment was allowed to be when
\* it was prepared is checked again when it is settled.
CollectedWithinBill == \A b \in Bills : collected[b] <= bill[b].amount

\* A transfer, a bill payment or a top-up is done once its DEBIT row, or its
\* gateway row with status SUCCESS, is there.
Done(id) ==
  \/ tx[id].type = "DEBIT"
  \/ tx[id].type \in Gateway /\ tx[id].status = "SUCCESS"

\* Every reference that is done has credited one wallet once, and no other
\* reference has: callbacks delivered twice, in parallel or after a decline
\* credit nothing twice, and no failed or unfinished payment credits at all.
OneCreditPerReference == \A id \in Ids : credits[id] = IF Done(id) THEN 1 ELSE 0

\* A payment link reaches the customer only when the row its callback will look
\* up is there, under the token: a paid link always finds its payment.
PaidLinkHasRow ==
  \A id \in Ids : payment[id] \in {"offered", "paid"} =>
    tx[id].token /\ tx[id].type \in Gateway

\* The step inserts the row that debits u for id.
Debits(id, u) ==
  /\ tx[id].type = "NONE"
  /\ tx'[id].type \in {"DEBIT", "WITHDRAWAL"}
  /\ tx'[id].paidBy = u

\* The step credits u under the reference of id.
Credits(id, u) ==
  /\ credits'[id] = credits[id] + 1
  /\ u = IF tx'[id].type = "CHARGE_WALLET" THEN tx'[id].paidBy ELSE tx'[id].paidTo

\* What another system did for a request is kept, unless the transaction that
\* should have recorded it failed.  A payment the gateway captured is settled, or
\* a callback that verified it is still at work: no late decline, repeated
\* callback or handler that cleans up its row undoes or swallows it.  A payout
\* the provider took is debited, or its transaction is still open.
RemoteEffectsAreKept ==
  /\ \A id \in verified \ dropped :
       tx[id].type \in Gateway /\ (tx[id].status = "SUCCESS" \/ callbacks[id] > 0)
  /\ \A id \in accepted \ dropped : tx[id].type = "WITHDRAWAL" \/ stage[id] = "accepted"

\* No balance changes without a row of the ledger that says so, and no payment
\* to oneself changes one: a wallet loses exactly the amount of a DEBIT or
\* WITHDRAWAL row inserted in the same transaction, and gains the
\* amount of the reference it is credited for if it was empty, and more than the
\* amount otherwise: what `+=` on the text of a bigint column does.
BalanceFollowsRows ==
  [][\A u \in Users :
       /\ balance'[u] < balance[u] =>
            \E id \in Ids : Debits(id, u) /\ balance'[u] = balance[u] - tx'[id].amount
       /\ balance'[u] > balance[u] =>
            \E id \in Ids : /\ Credits(id, u)
                            /\ ~Debits(id, u)
                            /\ balance'[u] >= balance[u] + tx'[id].amount
                            /\ balance'[u] = balance[u] + tx'[id].amount
                                 <=> balance[u] = 0]_vars

\* The gateway rows implement GatewayPayment: settled at most once, after
\* verification, and final, whatever callbacks come late or twice.
Payments == INSTANCE GatewayPayment WITH
  status <- [id \in Ids |-> IF tx[id].type \in Gateway THEN tx[id].status ELSE "NONE"],
  captured <- verified,
  credits <- [id \in Ids |-> IF tx[id].type \in Gateway THEN credits[id] ELSE 0]

PaymentsAreSettledOnce == Payments!Spec

\* The bills implement BillAccount: whatever payments are under way when a bill is
\* paid up or deleted, it is not opened again, not paid above its amount, and not
\* paid at all once it is gone.  Nothing spoils a bill here.
Account == INSTANCE BillAccount WITH
  state <- [b \in Bills |-> IF bill[b].state = "absent" THEN "none"
                            ELSE IF bill[b].state = "deleted" THEN "gone"
                            ELSE IF bill[b].isPaid THEN "closed" ELSE "open"],
  due <- [b \in Bills |-> IF bill[b].state = "live" THEN bill[b].amount ELSE 0]

BillsAreAccounts == Account!Spec

\* Every handler that starts comes to its end, the one whose catch block can
\* not save because the bill was deleted meanwhile included; so every lock of a
\* withdrawal is released.
HandlerEnds == \A id \in Ids : stage[id] # "new" ~> stage[id] = "ended"

(***************************************************************************)
(* What docs/wallet-payment-vandar-api.md says and the code does not do.   *)
(***************************************************************************)

\* Section 5.2 and 5.3: a top-up "increments wallet balance" and a transfer
\* "moves balance" -- by its amount.  `+=` on bigint text appends it.
CreditIsExact ==
  [][\A u \in Users : balance'[u] > balance[u] =>
       \E id \in Ids : Credits(id, u) /\ balance'[u] = balance[u] + tx'[id].amount]_vars

\* Section 8, settlement flow: the balance is decreased and the WITHDRAWAL row
\* created before createSettlement is called.  Both are still uncommitted, and
\* undone when anything fails after the provider took the order.
AcceptedPayoutIsDebited ==
  \A id \in accepted : stage[id] = "accepted" \/ tx[id].type = "WITHDRAWAL"
=============================================================================
