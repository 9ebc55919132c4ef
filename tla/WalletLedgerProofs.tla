-------------------------- MODULE WalletLedgerProofs --------------------------
(***************************************************************************)
(* Theorems about WalletLedger for every value of its constants.           *)
(***************************************************************************)
EXTENDS WalletLedger, TLAPS

-----------------------------------------------------------------------------
(***************************************************************************)
(* The amounts of the ledger, and what appending does to a number.         *)
(***************************************************************************)

\* An amount is a positive number that a bigint column holds.
LEMMA AmountIsPositive ==
  ASSUME NEW a \in Amounts
  PROVE  a \in Nat /\ a > 0 /\ a <= MaxBigint
BY AmountsAssumption, BoundsAssumption

\* The decade an amount's digits shift by.
LEMMA ShiftIsDecade ==
  ASSUME NEW a \in Amounts
  PROVE  Shift(a) \in Nat /\ Shift(a) > 0
<1>1. \E p \in Decades : a < p /\ p <= 10 * a
  BY DecadesAssumption
<1>2. Shift(a) \in Decades
  BY <1>1 DEF Shift
<1>3. \A p \in Decades : p \in Nat /\ p > 0
  BY DecadesAssumption
<1> QED BY <1>2, <1>3

\* Appending an amount's digits to a number yields at least their sum: this is
\* what `+=` on bigint text does to a balance and to bill.paid.
LEMMA AppendIsLarger ==
  ASSUME NEW n \in Nat, NEW a \in Amounts
  PROVE  Append10(n, a) \in Nat /\ Append10(n, a) >= n + a
<1>1. Shift(a) \in Nat /\ Shift(a) > 0 /\ a \in Nat
  BY ShiftIsDecade, AmountIsPositive
<1>2. n * Shift(a) \in Nat /\ n * Shift(a) >= n
  <2>1. \A p \in Nat : p > 0 => n * p \in Nat /\ n * p >= n
    OBVIOUS
  <2> QED BY <1>1, <2>1
<1> QED BY <1>1, <1>2 DEF Append10

\* Appending is adding only to nothing: a decade is above a positive amount,
\* hence above one, so a number that is there is multiplied.
LEMMA AppendIsExactOnZero ==
  ASSUME NEW n \in Nat, NEW a \in Amounts
  PROVE  Append10(n, a) = n + a <=> n = 0
<1>1. \E p \in Decades : a < p /\ p <= 10 * a
  BY DecadesAssumption
<1>2. Shift(a) \in Nat /\ Shift(a) > a /\ a \in Nat /\ a > 0
  BY <1>1, ShiftIsDecade, AmountIsPositive DEF Shift
<1>3. \A p \in Nat : p > 1 /\ n > 0 => n * p > n
  OBVIOUS
<1>4. 0 * Shift(a) = 0
  BY <1>2
<1>5. Shift(a) > 1
  BY <1>2
<1>6. n > 0 => n * Shift(a) > n /\ n * Shift(a) \in Int
  BY <1>2, <1>3, <1>5
<1> QED BY <1>2, <1>4, <1>6 DEF Append10

\* Appending to a number, of whatever sign, yields a number.
LEMMA AppendIsInt ==
  ASSUME NEW n \in Int, NEW a \in Amounts
  PROVE  Append10(n, a) \in Int
BY ShiftIsDecade, AmountIsPositive DEF Append10

-----------------------------------------------------------------------------
(***************************************************************************)
(* Where a request is, and what its rows and its token look like there.    *)
(***************************************************************************)

\* What a handler has written and heard when it reaches a stage.
StageShape(id) ==
  /\ stage[id] \in {"new"} \cup Holding => tx[id].type = "NONE" /\ payment[id] = "none"
  /\ stage[id] = "tokened" => tx[id].type = "NONE" /\ payment[id] = "issued"
  /\ stage[id] \in {"tokened"} \cup Holding =>
       req[id].user \in Users /\ req[id].amount \in Amounts
  /\ stage[id] \in {"prepared", "linked", "failing"} =>
       /\ tx[id].type = "PAY_BILLS"
       /\ tx[id].status = "PENDING"
       /\ payment[id] \in {"none", "issued"}

\* A row states an amount a client asked for and a paying user.
RowShape(id) ==
  tx[id].type # "NONE" => tx[id].amount \in Amounts /\ tx[id].paidBy \in Users

\* The customer acts on links that were returned to him only.
TokenShape(id) ==
  id \in declined \cup verified \/ callbacks[id] > 0 => payment[id] \in {"offered", "paid"}

Shape == \A id \in Ids : StageShape(id) /\ RowShape(id) /\ TokenShape(id)

Typed == TypeOK /\ Shape

-----------------------------------------------------------------------------
(***************************************************************************)
(* What the statements on the two tables leave of their rows.              *)
(***************************************************************************)

Statuses == {"NONE", "PENDING", "WITHDRAW_PENDING", "SUCCESS", "FAILED"}

\* The step changes nothing of a payment's row but its status and its token.
Rewritten(id) ==
  /\ tx' \in [Ids -> TxRow]
  /\ \A i \in Ids : i # id => tx'[i] = tx[i]
  /\ tx'[id].type = tx[id].type
  /\ tx'[id].amount = tx[id].amount
  /\ tx'[id].paidBy = tx[id].paidBy
  /\ tx'[id].paidTo = tx[id].paidTo
  /\ tx'[id].bill = tx[id].bill

\* An UPDATE of a payment's status.
LEMMA StatusUpdated ==
  ASSUME TypeOK, NEW id \in Ids, NEW s \in Statuses,
         tx' = [tx EXCEPT ![id].status = s]
  PROVE  Rewritten(id) /\ tx'[id].status = s /\ tx'[id].token = tx[id].token
<1>1. tx \in [Ids -> TxRow] /\ tx[id] \in TxRow
  BY DEF TypeOK
<1>2. [tx[id] EXCEPT !.status = s] \in TxRow
  BY <1>1 DEF TxRow, Statuses
<1>3. tx' = [tx EXCEPT ![id] = [tx[id] EXCEPT !.status = s]]
  OBVIOUS
<1>4. tx' \in [Ids -> TxRow]
  BY <1>1, <1>2, <1>3
<1> QED BY <1>1, <1>4 DEF Rewritten, TxRow

\* An UPDATE of a payment's status and reference.
LEMMA ReferenceUpdated ==
  ASSUME TypeOK, NEW id \in Ids, NEW s \in Statuses, NEW t \in BOOLEAN,
         tx' = [tx EXCEPT ![id].status = s, ![id].token = t]
  PROVE  Rewritten(id) /\ tx'[id].status = s /\ tx'[id].token = t
<1>1. tx \in [Ids -> TxRow] /\ tx[id] \in TxRow
  BY DEF TypeOK
<1>2. [tx[id] EXCEPT !.status = s, !.token = t] \in TxRow
  BY <1>1 DEF TxRow, Statuses
<1>3. tx' = [tx EXCEPT ![id] = [tx[id] EXCEPT !.status = s, !.token = t]]
  OBVIOUS
<1>4. tx' \in [Ids -> TxRow]
  BY <1>1, <1>2, <1>3
<1> QED BY <1>1, <1>4 DEF Rewritten, TxRow

\* DELETE of a batch of bills: the foreign key clears billId, nothing else.
LEMMA BatchDeleted ==
  ASSUME TypeOK, NEW u \in Users, NEW ref \in Batches, DeleteBill(u, ref)
  PROVE  /\ tx' \in [Ids -> TxRow]
         /\ \A i \in Ids :
              /\ tx'[i].type = tx[i].type /\ tx'[i].status = tx[i].status
              /\ tx'[i].amount = tx[i].amount /\ tx'[i].paidBy = tx[i].paidBy
              /\ tx'[i].token = tx[i].token
<1> DEFINE batch == {b \in Bills : bill[b].state = "live" /\ bill[b].referenceId = ref}
<1>1. tx' = [i \in Ids |-> IF tx[i].bill \in batch THEN [tx[i] EXCEPT !.bill = NoBill]
                                                   ELSE tx[i]]
  BY DEF DeleteBill, ClearBillId
<1>2. ASSUME NEW row \in TxRow
      PROVE  LET new == [row EXCEPT !.bill = NoBill] IN
             /\ new \in TxRow
             /\ new.type = row.type /\ new.status = row.status
             /\ new.amount = row.amount /\ new.paidBy = row.paidBy
             /\ new.token = row.token
  BY DEF TxRow
<1>3. \A i \in Ids : tx[i] \in TxRow
  BY DEF TypeOK
<1> HIDE DEF batch
<1> QED BY <1>1, <1>2, <1>3

\* The balances after a payment between two wallets, or within one.
LEMMA MovedIsTyped ==
  ASSUME TypeOK, NEW u \in Users, NEW v \in Users, NEW a \in Amounts
  PROVE  Moved(u, v, a) \in [Users -> Int]
<1>1. balance \in [Users -> Int] /\ a \in Int
  BY AmountIsPositive DEF TypeOK
<1>2. balance[u] - a \in Int /\ Append10(balance[v], a) \in Int
  BY <1>1, AppendIsInt
<1> QED BY <1>1, <1>2 DEF Moved

\* applyBillPayment on a bill the payment fits.
LEMMA BillPaid ==
  ASSUME NEW row \in BillRow, NEW paid \in 0 .. MaxDecimal
  PROVE  /\ ApplyBillPayment(row, paid) \in BillRow
         /\ ApplyBillPayment(row, paid).state = row.state
         /\ ApplyBillPayment(row, paid).amount = row.amount
         /\ ApplyBillPayment(row, paid).paid = paid
         /\ ApplyBillPayment(row, paid).isPaid <=> paid >= row.amount
<1>1. ASSUME NEW p \in BOOLEAN
      PROVE  /\ [row EXCEPT !.paid = paid, !.isPaid = p] \in BillRow
             /\ [row EXCEPT !.paid = paid, !.isPaid = p].state = row.state
             /\ [row EXCEPT !.paid = paid, !.isPaid = p].amount = row.amount
             /\ [row EXCEPT !.paid = paid, !.isPaid = p].paid = paid
             /\ [row EXCEPT !.paid = paid, !.isPaid = p].isPaid = p
  BY DEF BillRow
<1>2. (paid >= row.amount) \in BOOLEAN
  OBVIOUS
<1> QED BY <1>1, <1>2 DEF ApplyBillPayment

-----------------------------------------------------------------------------
(***************************************************************************)
(* Type correctness                                                        *)
(***************************************************************************)

\* The tables start empty and well typed.
LEMMA TypedInit == Init => Typed
<1> SUFFICES ASSUME Init PROVE Typed
  OBVIOUS
<1>1. TypeOK
  BY OpeningAssumption, BoundsAssumption
  DEF Init, TypeOK, BillRow, TxRow, NoTx, NoBillRow, NoReq, Stages
<1>2. Shape
  BY DEF Init, Shape, StageShape, RowShape, TokenShape, NoTx, Holding
<1> QED BY <1>1, <1>2 DEF Typed

\* Every step of the service, the customer or the gateway keeps types and shapes.
LEMMA TypedStep == Typed /\ [Next]_vars => Typed'
<1> SUFFICES ASSUME Typed, [Next]_vars PROVE Typed'
  OBVIOUS
<1> USE DEF Typed
<1>1. ASSUME NEW u \in Users, CreateForUser(u) PROVE Typed'
  <2>1. TypeOK'
    BY <1>1 DEF TypeOK, CreateForUser, gatewayVars
  <2>2. Shape'
    BY <1>1 DEF TypeOK, CreateForUser, gatewayVars, Shape, StageShape, RowShape,
      TokenShape, Holding
  <2> QED BY <2>1, <2>2
<1>2. ASSUME NEW b \in Bills, NEW o \in BillOffers, CreateBill(b, o) PROVE Typed'
  <2>1. bill' \in [Bills -> BillRow]
    BY <1>2, OffersAssumption, BoundsAssumption DEF TypeOK, BillRow, CreateBill, gatewayVars
  <2>2. TypeOK'
    BY <1>2, <2>1 DEF TypeOK, CreateBill, gatewayVars
  <2>3. Shape'
    BY <1>2, <2>1 DEF TypeOK, CreateBill, gatewayVars, Shape, StageShape, RowShape,
      TokenShape, Holding
  <2> QED BY <2>2, <2>3
<1>3. ASSUME NEW u \in Users, NEW ref \in Batches, DeleteBill(u, ref) PROVE Typed'
  <2>1. /\ tx' \in [Ids -> TxRow]
        /\ \A i \in Ids : /\ tx'[i].type = tx[i].type /\ tx'[i].status = tx[i].status
                          /\ tx'[i].amount = tx[i].amount /\ tx'[i].paidBy = tx[i].paidBy
    BY <1>3, BatchDeleted
  <2>2. bill' \in [Bills -> BillRow]
    <3>1. ASSUME NEW row \in BillRow PROVE [row EXCEPT !.state = "deleted"] \in BillRow
      BY DEF BillRow
    <3> QED BY <1>3, <3>1 DEF TypeOK, DeleteBill
  <2>3. TypeOK'
    BY <1>3, <2>1, <2>2 DEF TypeOK, DeleteBill, gatewayVars
  <2>4. Shape'
    <3>1. UNCHANGED <<stage, payment, req, declined, verified, callbacks>>
      BY <1>3 DEF DeleteBill, gatewayVars
    <3> QED BY <2>1, <3>1 DEF Shape, StageShape, RowShape, TokenShape, Holding
  <2> QED BY <2>3, <2>4
<1>4. ASSUME Crash PROVE Typed'
  <2>1. TypeOK'
    BY <1>4, BoundsAssumption DEF TypeOK, Stages, NoReq, Crash, gatewayVars
  <2>2. Shape'
    BY <1>4 DEF TypeOK, Crash, gatewayVars, Shape, StageShape, RowShape, TokenShape, Holding
  <2> QED BY <2>1, <2>2
<1>5. ASSUME NEW id \in Ids, NEW u \in Users, NEW a \in Amounts, ChargeRequestToken(id,
  u, a) PROVE Typed'
  <2>1. TypeOK'
    BY <1>5, AmountIsPositive DEF TypeOK, Stages, ChargeRequestToken, gatewayVars
  <2>2. Shape'
    BY <1>5 DEF TypeOK, ChargeRequestToken, gatewayVars, Shape, StageShape, RowShape,
      TokenShape, Holding
  <2> QED BY <2>1, <2>2
<1>6. ASSUME NEW id \in Ids, SaveCharge(id) PROVE Typed'
  <2>1. tx' \in [Ids -> TxRow]
    BY <1>6, AmountIsPositive
      DEF TypeOK, TxRow, BillRow, StageShape, Shape, RowShape, Holding, NoTx, SaveCharge,
      EndCall, gatewayVars
  <2>2. TypeOK'
    BY <1>6, <2>1 DEF TypeOK, Stages, NoReq, SaveCharge, EndCall, gatewayVars
  <2>3. Shape'
    BY <1>6, <2>1 DEF TypeOK, SaveCharge, EndCall, gatewayVars, Shape, StageShape,
      RowShape, TokenShape, Holding
  <2> QED BY <2>2, <2>3
<1>7. ASSUME NEW id \in Ids, NEW b \in Bills, NEW u \in Users, NEW a \in Amounts,
  PayBillFromWallet(id, b, u, a) PROVE Typed'
  <2>1. tx' \in [Ids -> TxRow]
    BY <1>7, AmountIsPositive
      DEF TypeOK, TxRow, BillRow, StageShape, Shape, RowShape, Holding, NoTx,
      PayBillFromWallet, EndCall, gatewayVars, PayBillChecks, PaymentRow
  <2>2. bill[b] \in BillRow /\ bill[b].creditor \in Users
    BY <1>7, NullsAssumption DEF TypeOK, BillRow, PayBillChecks, PayBillFromWallet
  <2>3. balance' \in [Users -> Int]
    BY <1>7, <2>2, MovedIsTyped DEF PayBillFromWallet
  <2>4. bill[b].paid + a \in 0 .. MaxDecimal
    BY <1>7, <2>2, AmountIsPositive, BoundsAssumption
      DEF BillRow, EnsureBillPaymentAmount, PayBillChecks, PayBillFromWallet
  <2>5. bill' = [bill EXCEPT ![b] = ApplyBillPayment(bill[b], bill[b].paid + a)]
    BY <1>7 DEF PayBillFromWallet
  <2>6. bill' \in [Bills -> BillRow]
    BY <2>2, <2>4, <2>5, BillPaid DEF TypeOK
  <2>7. TypeOK'
    BY <1>7, <2>1, <2>3, <2>6, AmountIsPositive
      DEF TypeOK, Stages, NoReq, PayBillFromWallet, EndCall, gatewayVars, PayBillChecks,
      PaymentRow
  <2>8. Shape'
    BY <1>7, <2>1, <2>3, <2>6
      DEF TypeOK, PayBillFromWallet, EndCall, gatewayVars, PayBillChecks, PaymentRow,
      Shape, StageShape, RowShape, TokenShape, Holding
  <2> QED BY <2>7, <2>8
<1>8. ASSUME NEW id \in Ids, NEW b \in Bills, NEW u \in Users, NEW a \in Amounts,
  PayBillByGateway(id, b, u, a) PROVE Typed'
  <2>1. tx' \in [Ids -> TxRow]
    BY <1>8, AmountIsPositive
      DEF TypeOK, TxRow, BillRow, StageShape, Shape, RowShape, Holding, NoTx,
      PayBillByGateway, gatewayVars, PayBillChecks, PaymentRow
  <2>2. TypeOK'
    BY <1>8, <2>1 DEF TypeOK, Stages, PayBillByGateway, gatewayVars, PayBillChecks,
      PaymentRow
  <2>3. Shape'
    BY <1>8, <2>1 DEF TypeOK, PayBillByGateway, gatewayVars, PayBillChecks, PaymentRow,
      Shape, StageShape, RowShape, TokenShape, Holding
  <2> QED BY <2>2, <2>3
<1>9. ASSUME NEW id \in Ids, IssueToken(id) PROVE Typed'
  <2>1. TypeOK'
    BY <1>9 DEF TypeOK, Stages, IssueToken, gatewayVars
  <2>2. Shape'
    BY <1>9 DEF TypeOK, IssueToken, gatewayVars, Shape, StageShape, RowShape, TokenShape,
      Holding
  <2> QED BY <2>1, <2>2
<1>10. ASSUME NEW id \in Ids, SaveToken(id) PROVE Typed'
  <2>1. Rewritten(id) /\ tx'[id].status = "PENDING" /\ tx'[id].token = TRUE
    BY <1>10, ReferenceUpdated DEF SaveToken, WriteToken, Statuses
  <2>2. TypeOK'
    BY <1>10, <2>1 DEF TypeOK, Stages, NoReq, SaveToken, EndCall, gatewayVars,
      WriteToken, RowSavable, Rewritten
  <2>3. Shape'
    BY <1>10, <2>1 DEF Shape, StageShape, RowShape, TokenShape, Holding, TypeOK,
      SaveToken, EndCall, gatewayVars, WriteToken, RowSavable, Rewritten
  <2> QED BY <2>2, <2>3
<1>11. ASSUME NEW id \in Ids, SaveTokenUnacknowledged(id) PROVE Typed'
  <2>1. Rewritten(id) /\ tx'[id].status = "PENDING" /\ tx'[id].token = TRUE
    BY <1>11, ReferenceUpdated DEF SaveTokenUnacknowledged, WriteToken, Statuses
  <2>2. TypeOK'
    BY <1>11, <2>1 DEF TypeOK, Stages, SaveTokenUnacknowledged, gatewayVars, WriteToken,
      RowSavable, Rewritten
  <2>3. Shape'
    BY <1>11, <2>1 DEF Shape, StageShape, RowShape, TokenShape, Holding, TypeOK,
      SaveTokenUnacknowledged, gatewayVars, WriteToken, RowSavable, Rewritten
  <2> QED BY <2>2, <2>3
<1>12. ASSUME NEW id \in Ids, GatewayCallFails(id) PROVE Typed'
  <2>1. TypeOK'
    BY <1>12 DEF TypeOK, Stages, GatewayCallFails, gatewayVars
  <2>2. Shape'
    BY <1>12 DEF TypeOK, GatewayCallFails, gatewayVars, Shape, StageShape, RowShape,
      TokenShape, Holding
  <2> QED BY <2>1, <2>2
<1>13. ASSUME NEW id \in Ids, SaveFailed(id) PROVE Typed'
  <2>1. Rewritten(id) /\ tx'[id].status = "FAILED" /\ tx'[id].token = (payment[id] # "none")
    BY <1>13, ReferenceUpdated DEF SaveFailed, WriteToken, Statuses
  <2>2. TypeOK'
    BY <1>13, <2>1 DEF TypeOK, Stages, NoReq, SaveFailed, EndCall, gatewayVars,
      RowSavable, Rewritten
  <2>3. Shape'
    BY <1>13, <2>1 DEF Shape, StageShape, RowShape, TokenShape, Holding, TypeOK,
      SaveFailed, EndCall, gatewayVars, RowSavable, Rewritten
  <2> QED BY <2>2, <2>3
<1>14. ASSUME NEW id \in Ids, NEW u \in Users, NEW v \in Users, NEW a \in Amounts,
  Transfer(id, u, v, a) PROVE Typed'
  <2>1. tx' \in [Ids -> TxRow]
    BY <1>14, AmountIsPositive
      DEF TypeOK, TxRow, BillRow, StageShape, Shape, RowShape, Holding, NoTx, Transfer,
      EndCall, gatewayVars
  <2>2. balance' \in [Users -> Int]
    BY <1>14, MovedIsTyped DEF Transfer
  <2>3. TypeOK'
    BY <1>14, <2>1, <2>2 DEF TypeOK, Stages, NoReq, Transfer, EndCall, gatewayVars
  <2>4. Shape'
    BY <1>14, <2>1, <2>2 DEF TypeOK, Transfer, EndCall, gatewayVars, Shape, StageShape,
      RowShape, TokenShape, Holding
  <2> QED BY <2>3, <2>4
<1>15. ASSUME NEW id \in Ids, NEW u \in Users, NEW a \in Amounts, OpenWithdraw(id, u, a)
  PROVE Typed'
  <2>1. TypeOK'
    BY <1>15, AmountIsPositive DEF TypeOK, Stages, OpenWithdraw, gatewayVars
  <2>2. Shape'
    BY <1>15 DEF TypeOK, OpenWithdraw, gatewayVars, Shape, StageShape, RowShape,
      TokenShape, Holding
  <2> QED BY <2>1, <2>2
<1>16. ASSUME NEW id \in Ids, ProviderAccepts(id) PROVE Typed'
  <2>1. TypeOK'
    BY <1>16 DEF TypeOK, Stages, ProviderAccepts, gatewayVars
  <2>2. Shape'
    BY <1>16 DEF TypeOK, ProviderAccepts, gatewayVars, Shape, StageShape, RowShape,
      TokenShape, Holding
  <2> QED BY <2>1, <2>2
<1>17. ASSUME NEW id \in Ids, CommitWithdraw(id) PROVE Typed'
  <2>1. tx' \in [Ids -> TxRow]
    BY <1>17, AmountIsPositive
      DEF TypeOK, TxRow, BillRow, StageShape, Shape, RowShape, Holding, NoTx,
      CommitWithdraw, EndCall, gatewayVars
  <2>2. balance' \in [Users -> Int]
    BY <1>17, AmountIsPositive DEF CommitWithdraw, TypeOK, Shape, StageShape, Holding
  <2>3. TypeOK'
    BY <1>17, <2>1, <2>2 DEF TypeOK, Stages, NoReq, CommitWithdraw, EndCall, gatewayVars
  <2>4. Shape'
    BY <1>17, <2>1, <2>2 DEF TypeOK, CommitWithdraw, EndCall, gatewayVars, Shape,
      StageShape, RowShape, TokenShape, Holding
  <2> QED BY <2>3, <2>4
<1>18. ASSUME NEW id \in Ids, HandlerThrows(id) PROVE Typed'
  <2>1. TypeOK'
    BY <1>18 DEF TypeOK, Stages, NoReq, HandlerThrows, EndCall, gatewayVars
  <2>2. Shape'
    BY <1>18 DEF TypeOK, HandlerThrows, EndCall, gatewayVars, Shape, StageShape,
      RowShape, TokenShape, Holding
  <2> QED BY <2>1, <2>2
<1>19. ASSUME NEW id \in Ids, Pay(id) PROVE Typed'
  <2>1. TypeOK'
    BY <1>19 DEF TypeOK, Pay, gatewayVars
  <2>2. Shape'
    BY <1>19 DEF TypeOK, Pay, gatewayVars, Shape, StageShape, RowShape, TokenShape, Holding
  <2> QED BY <2>1, <2>2
<1>20. ASSUME NEW id \in Ids, Decline(id) PROVE Typed'
  <2>1. TypeOK'
    BY <1>20 DEF TypeOK, Decline, gatewayVars
  <2>2. Shape'
    BY <1>20 DEF TypeOK, Decline, gatewayVars, Shape, StageShape, RowShape, TokenShape,
      Holding
  <2> QED BY <2>1, <2>2
<1>21. ASSUME NEW id \in Ids, VerifyCallback(id) PROVE Typed'
  <2>1. TypeOK'
    BY <1>21, BoundsAssumption DEF TypeOK, VerifyCallback, gatewayVars
  <2>2. Shape'
    BY <1>21 DEF TypeOK, VerifyCallback, gatewayVars, Shape, StageShape, RowShape,
      TokenShape, Holding
  <2> QED BY <2>1, <2>2
<1>22. ASSUME NEW id \in Ids, FailCallback(id) PROVE Typed'
  <2>1. Rewritten(id) /\ tx'[id].status = "FAILED" /\ tx'[id].token = tx[id].token
    BY <1>22, StatusUpdated DEF FailCallback, WriteToken, Statuses
  <2>2. TypeOK'
    BY <1>22, <2>1 DEF TypeOK, FailCallback, gatewayVars, Rewritten
  <2>3. Shape'
    BY <1>22, <2>1 DEF Shape, StageShape, RowShape, TokenShape, Holding, TypeOK,
      FailCallback, gatewayVars, Rewritten
  <2> QED BY <2>2, <2>3
<1>23. ASSUME NEW id \in Ids, AlreadyProcessed(id) PROVE Typed'
  <2>1. TypeOK'
    BY <1>23, BoundsAssumption DEF TypeOK, AlreadyProcessed, gatewayVars, CallbackFinds
  <2>2. Shape'
    BY <1>23 DEF TypeOK, AlreadyProcessed, gatewayVars, CallbackFinds, Shape, StageShape,
      RowShape, TokenShape, Holding
  <2> QED BY <2>1, <2>2
<1>24. ASSUME NEW id \in Ids, SettleCharge(id) PROVE Typed'
  <2>1. Rewritten(id) /\ tx'[id].status = "SUCCESS" /\ tx'[id].token = tx[id].token
    BY <1>24, StatusUpdated DEF SettleCharge, WriteToken, Statuses
  <2>2. tx[id].amount \in Amounts /\ tx[id].paidBy \in Users
    BY <1>24 DEF SettleCharge, Shape, RowShape, TypeOK
  <2>3. balance' \in [Users -> Int]
    <3>1. Append10(balance[tx[id].paidBy], tx[id].amount) \in Int
      BY <2>2, AppendIsInt DEF TypeOK
    <3> QED BY <1>24, <3>1 DEF SettleCharge, TypeOK
  <2>4. TypeOK'
    BY <1>24, <2>1, <2>3, BoundsAssumption
      DEF TypeOK, SettleCharge, gatewayVars, CallbackFinds, Rewritten
  <2>5. Shape'
    BY <1>24, <2>1, <2>3 DEF Shape, StageShape, RowShape, TokenShape, Holding, TypeOK,
      SettleCharge, gatewayVars, CallbackFinds, Rewritten
  <2> QED BY <2>4, <2>5
<1>25. ASSUME NEW id \in Ids, SettleBill(id) PROVE Typed'
  <2>1. Rewritten(id) /\ tx'[id].status = "SUCCESS" /\ tx'[id].token = tx[id].token
    BY <1>25, StatusUpdated DEF SettleBill, WriteToken, Statuses
  <2>2. tx[id].amount \in Amounts /\ tx[id].paidTo \in Users
    BY <1>25 DEF SettleBill, Shape, RowShape, TypeOK
  <2>3. balance' \in [Users -> Int]
    <3>1. Append10(balance[tx[id].paidTo], tx[id].amount) \in Int
      BY <2>2, AppendIsInt DEF TypeOK
    <3> QED BY <1>25, <3>1 DEF SettleBill, TypeOK
  <2> DEFINE b == tx[id].bill
         paid == Append10(bill[b].paid, tx[id].amount)
  <2>4. b \in Bills
    BY <1>25 DEF SettleBill, TypeOK, TxRow
  <2>5. paid \in 0 .. MaxDecimal
    <3>1. bill[b].paid \in Nat
      BY <2>4, BoundsAssumption DEF TypeOK, BillRow
    <3> QED BY <1>25, <2>2, <3>1, AppendIsLarger, BoundsAssumption DEF SettleBill
  <2>6. bill' = [bill EXCEPT ![b] = ApplyBillPayment(bill[b], paid)]
    BY <1>25 DEF SettleBill
  <2>7. bill' \in [Bills -> BillRow]
    BY <2>5, <2>6, <2>4, BillPaid DEF TypeOK
  <2>8. collected' \in [Bills -> Nat]
    BY <1>25, <2>2, <2>4, AmountIsPositive DEF SettleBill, TypeOK
  <2>9. TypeOK'
    BY <1>25, <2>1, <2>3, <2>7, <2>8, BoundsAssumption
      DEF TypeOK, SettleBill, gatewayVars, CallbackFinds, Rewritten
  <2>10. Shape'
    BY <1>25, <2>1, <2>3, <2>7, <2>8
      DEF Shape, StageShape, RowShape, TokenShape, Holding, TypeOK, SettleBill,
      gatewayVars, CallbackFinds, Rewritten
  <2> QED BY <2>9, <2>10
<1>26. ASSUME NEW id \in Ids, CallbackRolledBack(id) PROVE Typed'
  <2>1. TypeOK'
    BY <1>26, BoundsAssumption DEF TypeOK, CallbackRolledBack, gatewayVars
  <2>2. Shape'
    BY <1>26 DEF TypeOK, CallbackRolledBack, gatewayVars, Shape, StageShape, RowShape,
      TokenShape, Holding
  <2> QED BY <2>1, <2>2
<1>27. CASE UNCHANGED vars
  BY <1>27 DEF vars, TypeOK, Shape, StageShape, RowShape, TokenShape, Holding
<1> QED BY <1>1, <1>2, <1>3, <1>4, <1>5, <1>6, <1>7, <1>8, <1>9, <1>10, <1>11, <1>12,
  <1>13, <1>14, <1>15, <1>16, <1>17, <1>18, <1>19, <1>20, <1>21, <1>22, <1>23, <1>24,
  <1>25, <1>26, <1>27 DEF Next, Rows, Request, Proceed, Customer, Finalize

\* Every column keeps its type and every handler the shape of its stage, in
\* every behaviour: the invariant all other proofs start from.
THEOREM AlwaysTyped == Spec => []Typed
<1>1. Init => Typed
  BY TypedInit
<1>2. Typed /\ [Next]_vars => Typed'
  BY TypedStep
<1> QED BY <1>1, <1>2, PTL DEF Spec

\* Type correctness of the ledger.
THEOREM TypeCorrect == Spec => []TypeOK
<1>1. Typed => TypeOK
  BY DEF Typed
<1> QED BY <1>1, AlwaysTyped, PTL

-----------------------------------------------------------------------------
(***************************************************************************)
(* A bill collects no more than its amount                                 *)
(***************************************************************************)

\* A row refers to a bill that is there: the foreign key of billId.
Linked == \A id \in Ids : tx[id].bill \in Bills => bill[tx[id].bill].state = "live"

\* No statement leaves a row that refers to a missing bill.
LEMMA LinkedStep == Typed /\ Linked /\ [Next]_vars => Linked'
<1> SUFFICES ASSUME Typed, Linked, [Next]_vars PROVE Linked'
  OBVIOUS
<1> USE DEF Typed
<1>0. bill \in [Bills -> BillRow] /\ tx \in [Ids -> TxRow]
  BY DEF TypeOK
<1>1. ASSUME NEW b \in Bills, NEW o \in BillOffers, CreateBill(b, o) PROVE Linked'
  BY <1>0, <1>1 DEF CreateBill, Linked
<1>2. ASSUME NEW u \in Users, NEW ref \in Batches, DeleteBill(u, ref) PROVE Linked'
  <2> DEFINE batch == {b \in Bills : bill[b].state = "live" /\ bill[b].referenceId = ref}
  <2>1. ASSUME NEW b \in Bills \ batch PROVE bill'[b] = bill[b]
    BY <1>2, <2>1 DEF DeleteBill
  <2>2. ASSUME NEW id \in Ids, tx[id].bill \in batch PROVE tx'[id].bill = NoBill
    BY <1>0, <1>2, <2>2 DEF DeleteBill, ClearBillId, TxRow
  <2>3. ASSUME NEW id \in Ids, tx[id].bill \notin batch PROVE tx'[id] = tx[id]
    BY <1>2, <2>3 DEF DeleteBill, ClearBillId
  <2> HIDE DEF batch
  <2> QED BY <2>1, <2>2, <2>3, NullsAssumption DEF Linked
<1>3. ASSUME NEW id \in Ids, SaveCharge(id) \/ CommitWithdraw(id) PROVE Linked'
  BY <1>0, <1>3, NullsAssumption DEF SaveCharge, CommitWithdraw, Linked
<1>4. ASSUME NEW id \in Ids, NEW u \in Users, NEW v \in Users, NEW a \in Amounts,
             Transfer(id, u, v, a)
      PROVE  Linked'
  BY <1>0, <1>4, NullsAssumption DEF Transfer, Linked
<1>5. ASSUME NEW id \in Ids, NEW b \in Bills, NEW u \in Users, NEW a \in Amounts,
             PayBillByGateway(id, b, u, a)
      PROVE  Linked'
  BY <1>0, <1>5 DEF PayBillByGateway, PayBillChecks, PaymentRow, Linked
<1>6. ASSUME NEW id \in Ids, NEW b \in Bills, NEW u \in Users, NEW a \in Amounts,
             PayBillFromWallet(id, b, u, a)
      PROVE  Linked'
  <2>1. bill'[b].state = bill[b].state /\ \A c \in Bills \ {b} : bill'[c] = bill[c]
    BY <1>0, <1>6 DEF PayBillFromWallet, ApplyBillPayment, BillRow
  <2> QED BY <1>0, <1>6, <2>1 DEF PayBillFromWallet, PayBillChecks, PaymentRow, Linked
<1>7. ASSUME NEW id \in Ids, Rewritten(id), UNCHANGED bill PROVE Linked'
  BY <1>7 DEF Rewritten, Linked
<1>8. ASSUME NEW id \in Ids, SaveToken(id) \/ SaveTokenUnacknowledged(id) PROVE Linked'
  BY <1>7, <1>8, ReferenceUpdated
    DEF SaveToken, SaveTokenUnacknowledged, WriteToken, Statuses
<1>9. ASSUME NEW id \in Ids, SaveFailed(id) PROVE Linked'
  BY <1>7, <1>9, ReferenceUpdated DEF SaveFailed, Statuses
<1>10. ASSUME NEW id \in Ids, FailCallback(id) \/ SettleCharge(id) PROVE Linked'
  BY <1>7, <1>10, StatusUpdated DEF FailCallback, SettleCharge, Statuses
<1>11. ASSUME NEW id \in Ids, SettleBill(id) PROVE Linked'
  <2>1. Rewritten(id)
    BY <1>11, StatusUpdated DEF SettleBill, Statuses
  <2>2. \A c \in Bills : bill'[c].state = bill[c].state
    BY <1>0, <1>11 DEF SettleBill, ApplyBillPayment, BillRow
  <2> QED BY <2>1, <2>2 DEF Rewritten, Linked
<1>12. CASE UNCHANGED <<bill, tx>>
  BY <1>12 DEF Linked
<1> QED
  BY <1>1, <1>2, <1>3, <1>4, <1>5, <1>6, <1>8, <1>9, <1>10, <1>11, <1>12
    DEF Next, Rows, Request, Proceed, Customer, Finalize, vars, gatewayVars,
      CreateForUser, Crash, ChargeRequestToken, IssueToken, GatewayCallFails,
      OpenWithdraw, ProviderAccepts, HandlerThrows, Pay, Decline, VerifyCallback,
      AlreadyProcessed, CallbackRolledBack

\* The foreign key holds in every behaviour.
THEOREM AlwaysLinked == Spec => []Linked
<1>1. Init => Linked
  BY NullsAssumption DEF Init, Linked, NoTx
<1> QED BY <1>1, LinkedStep, AlwaysTyped, PTL DEF Spec

\* CollectedWithinBill is not inductive: a payment is checked against
\* bill.paid, which appending may take beyond what was collected, never below.
Covered ==
  \A b \in Bills : /\ collected[b] <= bill[b].paid
                   /\ collected[b] <= bill[b].amount
                   /\ bill[b].state = "absent" => collected[b] = 0

\* Which steps touch a bill or what was collected for it.
LEMMA BillSteps ==
  ASSUME [Next]_vars
  PROVE  \/ \E b \in Bills, o \in BillOffers : CreateBill(b, o)
         \/ \E u \in Users, ref \in Batches : DeleteBill(u, ref)
         \/ \E id \in Ids, b \in Bills, u \in Users, a \in Amounts :
              PayBillFromWallet(id, b, u, a)
         \/ \E id \in Ids : SettleBill(id)
         \/ UNCHANGED <<bill, collected>>
<1>1. CASE Rows
  BY <1>1 DEF Rows, CreateForUser
<1>2. CASE Crash \/ UNCHANGED vars
  BY <1>2 DEF Crash, vars
<1>3. ASSUME NEW id \in Ids, Request(id)
      PROVE  \/ \E b \in Bills, u \in Users, a \in Amounts : PayBillFromWallet(id, b, u, a)
             \/ UNCHANGED <<bill, collected>>
  BY <1>3 DEF Request, ChargeRequestToken, PayBillByGateway, Transfer, OpenWithdraw
<1>4. ASSUME NEW id \in Ids, Proceed(id) PROVE UNCHANGED <<bill, collected>>
  BY <1>4 DEF Proceed, SaveCharge, IssueToken, GatewayCallFails, SaveToken,
    SaveTokenUnacknowledged, SaveFailed, ProviderAccepts, CommitWithdraw, HandlerThrows
<1>5. ASSUME NEW id \in Ids, Customer(id) PROVE UNCHANGED <<bill, collected>>
  BY <1>5 DEF Customer, Pay, Decline, VerifyCallback, FailCallback
<1>6. ASSUME NEW id \in Ids, Finalize(id)
      PROVE  SettleBill(id) \/ UNCHANGED <<bill, collected>>
  BY <1>6 DEF Finalize, AlreadyProcessed, SettleCharge, CallbackRolledBack
<1> QED BY <1>1, <1>2, <1>3, <1>4, <1>5, <1>6 DEF Next

\* The four actions that touch a bill keep paid ahead of what was collected.
LEMMA CoveredStep == Typed /\ Covered /\ [Next]_vars => Covered'
<1> SUFFICES ASSUME Typed, Covered, [Next]_vars PROVE Covered'
  OBVIOUS
<1> USE DEF Typed
<1>0. /\ bill \in [Bills -> BillRow] /\ collected \in [Bills -> Nat]
      /\ \A b \in Bills : bill[b].paid \in Nat /\ bill[b].amount \in Nat
  BY BoundsAssumption DEF TypeOK, BillRow
<1>1. ASSUME NEW b \in Bills, NEW o \in BillOffers, CreateBill(b, o) PROVE Covered'
  <2>1. o.paid \in Nat /\ o.amount \in Nat
    BY OffersAssumption, BoundsAssumption
  <2> QED BY <1>0, <1>1, <2>1 DEF CreateBill, Covered
<1>2. ASSUME NEW u \in Users, NEW ref \in Batches, DeleteBill(u, ref) PROVE Covered'
  <2>1. ASSUME NEW b \in Bills
        PROVE  /\ bill'[b].paid = bill[b].paid /\ bill'[b].amount = bill[b].amount
               /\ bill'[b].state = "absent" => bill[b].state = "absent"
    BY <1>0, <1>2 DEF DeleteBill, BillRow
  <2> QED BY <1>2, <2>1 DEF DeleteBill, Covered
<1>3. ASSUME NEW id \in Ids, NEW b \in Bills, NEW u \in Users, NEW a \in Amounts,
             PayBillFromWallet(id, b, u, a)
      PROVE  Covered'
  <2>1. a \in Nat /\ bill[b].state = "live" /\ a <= bill[b].amount - bill[b].paid
    BY <1>3, AmountIsPositive DEF PayBillFromWallet, PayBillChecks, EnsureBillPaymentAmount
  <2>2. bill[b].paid + a \in 0 .. MaxDecimal
    BY <1>0, <2>1, BoundsAssumption DEF BillRow
  <2>3. /\ bill' = [bill EXCEPT ![b] = ApplyBillPayment(bill[b], bill[b].paid + a)]
        /\ collected' = [collected EXCEPT ![b] = collected[b] + a]
    BY <1>3 DEF PayBillFromWallet
  <2>4. LET row == ApplyBillPayment(bill[b], bill[b].paid + a) IN
        row.state = "live" /\ row.amount = bill[b].amount /\ row.paid = bill[b].paid + a
    BY <1>0, <2>1, <2>2, BillPaid
  <2> QED BY <1>0, <2>1, <2>3, <2>4 DEF Covered
<1>4. ASSUME NEW id \in Ids, SettleBill(id) PROVE Covered'
  <2> DEFINE b == tx[id].bill
             a == tx[id].amount
             paid == Append10(bill[b].paid, a)
  <2>1. b \in Bills /\ a \in Amounts
    BY <1>4 DEF SettleBill, TypeOK, TxRow, Shape, RowShape
  <2>2. a \in Nat /\ a <= bill[b].amount - bill[b].paid /\ paid <= MaxDecimal
    BY <1>4, <2>1, AmountIsPositive DEF SettleBill, EnsureBillPaymentAmount
  <2>3. paid \in Nat /\ paid >= bill[b].paid + a
    BY <1>0, <2>1, AppendIsLarger
  <2>4. /\ bill' = [bill EXCEPT ![b] = ApplyBillPayment(bill[b], paid)]
        /\ collected' = [collected EXCEPT ![b] = collected[b] + a]
    BY <1>4 DEF SettleBill
  <2>5. LET row == ApplyBillPayment(bill[b], paid) IN
        row.state = bill[b].state /\ row.amount = bill[b].amount /\ row.paid = paid
    BY <1>0, <2>1, <2>2, <2>3, BoundsAssumption, BillPaid
  <2>6. bill[b].state = "live"
    BY <1>4 DEF SettleBill
  <2> HIDE DEF b, a, paid
  <2> QED BY <1>0, <2>1, <2>2, <2>3, <2>4, <2>5, <2>6 DEF Covered
<1>5. CASE UNCHANGED <<bill, collected>>
  BY <1>5 DEF Covered
<1> QED BY <1>1, <1>2, <1>3, <1>4, <1>5, BillSteps

\* However many payments of a bill are prepared, linked, retried or called back
\* at once, what the debtor is charged for it stays within its amount.
THEOREM NeverOvercollected == Spec => []CollectedWithinBill
<1>1. Init => Covered
  BY DEF Init, Covered, NoBillRow
<1>2. Covered => CollectedWithinBill
  BY DEF Covered, CollectedWithinBill
<1> QED BY <1>1, <1>2, CoveredStep, AlwaysTyped, PTL DEF Spec

-----------------------------------------------------------------------------
(***************************************************************************)
(* The bills implement BillAccount                                         *)
(***************************************************************************)

\* What BillAccount sees of a bill.
Life(b) == IF bill[b].state = "absent" THEN "none"
           ELSE IF bill[b].state = "deleted" THEN "gone"
           ELSE IF bill[b].isPaid THEN "closed" ELSE "open"
Due(b) == IF bill[b].state = "live" THEN bill[b].amount ELSE 0

\* Its moves, in those words.
LEMMA AccountMoves ==
  ASSUME NEW b \in Bills
  PROVE  /\ /\ Life(b)' = Life(b) /\ Due(b)' = Due(b) /\ collected'[b] = collected[b]
            => Account!Keeps(b)
         /\ /\ Life(b) = "none" /\ Life(b)' \in {"open", "closed"} /\ collected'[b] <= Due(b)'
            => Account!Opens(b)
         /\ /\ Life(b) = "open" /\ Due(b)' = Due(b)
            /\ collected[b] < collected'[b] /\ collected'[b] <= Due(b)
            /\ Life(b)' = "closed" \/ (Life(b)' = "open" /\ collected'[b] < Due(b))
            => Account!Collects(b)
         /\ /\ Life(b) \in {"open", "closed"} /\ Life(b)' = "gone" /\ Due(b)' = 0
            /\ collected'[b] = collected[b]
            => Account!Goes(b)
<1> DEFINE S == [c \in Bills |-> IF bill[c].state = "absent" THEN "none"
                                 ELSE IF bill[c].state = "deleted" THEN "gone"
                                 ELSE IF bill[c].isPaid THEN "closed" ELSE "open"]
           D == [c \in Bills |-> IF bill[c].state = "live" THEN bill[c].amount ELSE 0]
<1>1. S[b] = Life(b) /\ D[b] = Due(b) /\ S'[b] = Life(b)' /\ D'[b] = Due(b)'
  BY DEF Life, Due
<1> HIDE DEF S, D
<1> QED
  BY <1>1 DEF S, D, Account!Keeps, Account!Opens, Account!Collects, Account!Goes

\* A payment of what is left of an open bill collects it: paid is never behind what
\* was collected, so a bill that stays open has something left.
LEMMA PaymentCollects ==
  ASSUME Typed, Covered, NEW b \in Bills, NEW a \in Amounts, NEW paid \in 0 .. MaxDecimal,
         bill[b].state = "live", ~bill[b].isPaid,
         a <= bill[b].amount - bill[b].paid, paid >= bill[b].paid + a,
         bill' = [bill EXCEPT ![b] = ApplyBillPayment(bill[b], paid)],
         collected' = [collected EXCEPT ![b] = collected[b] + a],
         NEW c \in Bills
  PROVE  Account!Collects(c) \/ Account!Keeps(c)
<1>0. /\ bill \in [Bills -> BillRow] /\ collected \in [Bills -> Nat]
      /\ bill[b].paid \in Nat /\ bill[b].amount \in Nat /\ a \in Nat /\ a > 0 /\ paid \in Nat
      /\ collected[b] <= bill[b].paid
  BY AmountIsPositive, BoundsAssumption DEF Typed, TypeOK, BillRow, Covered
<1>1. LET row == ApplyBillPayment(bill[b], paid) IN
      /\ row.state = "live" /\ row.amount = bill[b].amount
      /\ row.isPaid <=> paid >= bill[b].amount
  BY <1>0, BillPaid
<1>2. CASE c = b
  <2>1. /\ bill'[b] = ApplyBillPayment(bill[b], paid) /\ collected'[b] = collected[b] + a
    BY <1>0
  <2>2. /\ Life(c) = "open" /\ Due(c) = bill[b].amount /\ Due(c)' = bill[b].amount
        /\ Life(c)' = IF paid >= bill[b].amount THEN "closed" ELSE "open"
    BY <1>1, <1>2, <2>1 DEF Life, Due
  <2>3. /\ collected[b] < collected[b] + a /\ collected[b] + a <= bill[b].amount
        /\ paid >= bill[b].amount \/ collected[b] + a < bill[b].amount
    BY <1>0
  <2>4. /\ collected[c] < collected'[c] /\ collected'[c] <= Due(c)
        /\ Life(c)' = "closed" \/ (Life(c)' = "open" /\ collected'[c] < Due(c))
    BY <1>2, <2>1, <2>2, <2>3
  <2> QED BY <2>2, <2>4, AccountMoves
<1>3. CASE c # b
  <2>1. bill'[c] = bill[c] /\ collected'[c] = collected[c]
    BY <1>0, <1>3
  <2> QED BY <2>1, AccountMoves DEF Life, Due
<1> QED BY <1>2, <1>3

\* Every step moves each bill as an account does.
LEMMA AccountStep ==
  ASSUME Typed, Covered, [Next]_vars
  PROVE  Account!Next
<1> SUFFICES ASSUME NEW c \in Bills
             PROVE  \/ Account!Keeps(c) \/ Account!Opens(c) \/ Account!Collects(c)
                    \/ Account!Goes(c)
  BY DEF Account!Next
<1>0. /\ bill \in [Bills -> BillRow] /\ collected \in [Bills -> Nat]
      /\ \A b \in Bills : bill[b].paid \in Nat /\ bill[b].amount \in Nat
  BY BoundsAssumption DEF Typed, TypeOK, BillRow
<1>1. ASSUME NEW b \in Bills, NEW o \in BillOffers, CreateBill(b, o)
      PROVE  Account!Opens(c) \/ Account!Keeps(c)
  <2>1. CASE c = b
    <3>1. bill'[c].state = "live" /\ bill'[c].amount \in Nat /\ bill[c].state = "absent"
      BY <1>0, <1>1, <2>1, OffersAssumption, BoundsAssumption DEF CreateBill
    <3>2. collected'[c] = 0
      BY <1>1, <3>1 DEF CreateBill, Covered
    <3> QED BY <3>1, <3>2, AccountMoves DEF Life, Due
  <2>2. CASE c # b
    <3>1. bill'[c] = bill[c] /\ collected'[c] = collected[c]
      BY <1>0, <1>1, <2>2 DEF CreateBill
    <3> QED BY <3>1, AccountMoves DEF Life, Due
  <2> QED BY <2>1, <2>2
<1>2. ASSUME NEW u \in Users, NEW ref \in Batches, DeleteBill(u, ref)
      PROVE  Account!Goes(c) \/ Account!Keeps(c)
  <2>1. collected'[c] = collected[c]
    BY <1>2 DEF DeleteBill
  <2>2. CASE bill[c].state = "live" /\ bill[c].referenceId = ref
    <3>1. bill'[c].state = "deleted"
      BY <1>0, <1>2, <2>2 DEF DeleteBill, BillRow
    <3>2. Life(c) \in {"open", "closed"} /\ Life(c)' = "gone" /\ Due(c)' = 0
      BY <2>2, <3>1 DEF Life, Due
    <3> QED BY <2>1, <3>2, AccountMoves
  <2>3. CASE ~(bill[c].state = "live" /\ bill[c].referenceId = ref)
    <3>1. bill'[c] = bill[c]
      BY <1>2, <2>3 DEF DeleteBill
    <3> QED BY <2>1, <3>1, AccountMoves DEF Life, Due
  <2> QED BY <2>2, <2>3
<1>3. ASSUME NEW id \in Ids, NEW b \in Bills, NEW u \in Users, NEW a \in Amounts,
             PayBillFromWallet(id, b, u, a)
      PROVE  Account!Collects(c) \/ Account!Keeps(c)
  <2>1. /\ a \in Nat /\ bill[b].state = "live" /\ ~bill[b].isPaid
        /\ a <= bill[b].amount - bill[b].paid
    BY <1>3, AmountIsPositive DEF PayBillFromWallet, PayBillChecks, EnsureBillPaymentAmount
  <2>2. bill[b].paid + a \in 0 .. MaxDecimal /\ bill[b].paid + a >= bill[b].paid + a
    BY <1>0, <2>1, BoundsAssumption DEF BillRow
  <2>3. /\ bill' = [bill EXCEPT ![b] = ApplyBillPayment(bill[b], bill[b].paid + a)]
        /\ collected' = [collected EXCEPT ![b] = collected[b] + a]
    BY <1>3 DEF PayBillFromWallet
  <2> QED BY <2>1, <2>2, <2>3, PaymentCollects
<1>4. ASSUME NEW id \in Ids, SettleBill(id)
      PROVE  Account!Collects(c) \/ Account!Keeps(c)
  <2> DEFINE b == tx[id].bill
             a == tx[id].amount
             paid == Append10(bill[b].paid, a)
  <2>1. b \in Bills /\ a \in Amounts
    BY <1>4 DEF SettleBill, Typed, TypeOK, TxRow, Shape, RowShape
  <2>2. /\ ~bill[b].isPaid /\ a <= bill[b].amount - bill[b].paid /\ paid <= MaxDecimal
        /\ bill[b].state = "live"
    BY <1>4, <2>1 DEF SettleBill, EnsureBillPaymentAmount
  <2>3. paid \in Nat /\ paid >= bill[b].paid + a
    BY <1>0, <2>1, AppendIsLarger
  <2>4. /\ bill' = [bill EXCEPT ![b] = ApplyBillPayment(bill[b], paid)]
        /\ collected' = [collected EXCEPT ![b] = collected[b] + a]
    BY <1>4 DEF SettleBill
  <2> HIDE DEF b, a, paid
  <2>5. paid \in 0 .. MaxDecimal
    BY <2>2, <2>3, BoundsAssumption
  <2> QED BY <2>1, <2>2, <2>3, <2>4, <2>5, PaymentCollects
<1>5. CASE UNCHANGED <<bill, collected>>
  BY <1>5, AccountMoves DEF Life, Due
<1> QED BY <1>1, <1>2, <1>3, <1>4, <1>5, BillSteps

\* Every behaviour of the bills under payment is one of BillAccount: no order of
\* payments, callbacks and deletions reopens, overpays or revives one.
THEOREM BillsImplement == Spec => BillsAreAccounts
<1>1. Init => Covered
  BY DEF Init, Covered, NoBillRow
<1>2. Init => Account!Init
  BY DEF Init, NoBillRow, Account!Init
<1>3. Typed /\ Covered /\ [Next]_vars => [Account!Next]_(Account!vars)
  BY AccountStep
<1> QED
  BY <1>1, <1>2, <1>3, CoveredStep, AlwaysTyped, PTL
    DEF Spec, Account!Spec, BillsAreAccounts

-----------------------------------------------------------------------------
(***************************************************************************)
(* One credit per reference                                                *)
(***************************************************************************)

\* Which steps touch the rows of the ledger or credit a wallet.
LEMMA LedgerSteps ==
  ASSUME [Next]_vars
  PROVE  \/ \E u \in Users, ref \in Batches : DeleteBill(u, ref)
         \/ \E id \in Ids, b \in Bills, u \in Users, a \in Amounts :
              PayBillFromWallet(id, b, u, a) \/ PayBillByGateway(id, b, u, a)
         \/ \E id \in Ids, u \in Users, v \in Users, a \in Amounts : Transfer(id, u, v, a)
         \/ \E id \in Ids : SaveCharge(id) \/ CommitWithdraw(id)
         \/ \E id \in Ids : SaveToken(id) \/ SaveTokenUnacknowledged(id) \/ SaveFailed(id)
         \/ \E id \in Ids : FailCallback(id) \/ SettleCharge(id) \/ SettleBill(id)
         \/ UNCHANGED <<tx, credits>>
<1>1. CASE Rows
  BY <1>1 DEF Rows, CreateForUser, CreateBill
<1>2. CASE Crash \/ UNCHANGED vars
  BY <1>2 DEF Crash, vars
<1>3. ASSUME NEW id \in Ids, Request(id)
      PROVE  \/ \E b \in Bills, u \in Users, a \in Amounts :
                  PayBillFromWallet(id, b, u, a) \/ PayBillByGateway(id, b, u, a)
             \/ \E u \in Users, v \in Users, a \in Amounts : Transfer(id, u, v, a)
             \/ UNCHANGED <<tx, credits>>
  BY <1>3 DEF Request, ChargeRequestToken, OpenWithdraw
<1>4. ASSUME NEW id \in Ids, Proceed(id)
      PROVE  \/ SaveCharge(id) \/ CommitWithdraw(id)
             \/ SaveToken(id) \/ SaveTokenUnacknowledged(id) \/ SaveFailed(id)
             \/ UNCHANGED <<tx, credits>>
  BY <1>4 DEF Proceed, IssueToken, GatewayCallFails, ProviderAccepts, HandlerThrows
<1>5. ASSUME NEW id \in Ids, Customer(id)
      PROVE  FailCallback(id) \/ UNCHANGED <<tx, credits>>
  BY <1>5 DEF Customer, Pay, Decline, VerifyCallback
<1>6. ASSUME NEW id \in Ids, Finalize(id)
      PROVE  SettleCharge(id) \/ SettleBill(id) \/ UNCHANGED <<tx, credits>>
  BY <1>6 DEF Finalize, AlreadyProcessed, CallbackRolledBack
<1> QED BY <1>1, <1>2, <1>3, <1>4, <1>5, <1>6 DEF Next

\* A step that inserts a row does so for a request that has none; a step that
\* rewrites one credits a wallet exactly when it makes the row SUCCESS.
LEMMA OneCreditStep ==
  Typed /\ OneCreditPerReference /\ [Next]_vars => OneCreditPerReference'
<1> SUFFICES ASSUME Typed, OneCreditPerReference, [Next]_vars
             PROVE  OneCreditPerReference'
  OBVIOUS
<1> USE DEF Typed
<1>0. tx \in [Ids -> TxRow] /\ credits \in [Ids -> Nat]
  BY DEF TypeOK
<1>1. ASSUME NEW u \in Users, NEW ref \in Batches, DeleteBill(u, ref)
      PROVE  OneCreditPerReference'
  <2>1. \A i \in Ids : tx'[i].type = tx[i].type /\ tx'[i].status = tx[i].status
    BY <1>1, BatchDeleted
  <2>2. UNCHANGED credits
    BY <1>1 DEF DeleteBill
  <2> QED BY <2>1, <2>2 DEF OneCreditPerReference, Done
<1>2. ASSUME NEW id \in Ids, stage[id] = "new", tx'[id].type = "DEBIT",
             \A i \in Ids \ {id} : tx'[i] = tx[i],
             credits' = [credits EXCEPT ![id] = @ + 1]
      PROVE  OneCreditPerReference'
  BY <1>0, <1>2 DEF OneCreditPerReference, Done, Shape, StageShape, Gateway
<1>3. ASSUME NEW id \in Ids, NEW b \in Bills, NEW u \in Users, NEW a \in Amounts,
             PayBillFromWallet(id, b, u, a)
      PROVE  OneCreditPerReference'
  BY <1>0, <1>2, <1>3 DEF PayBillFromWallet, PaymentRow
<1>4. ASSUME NEW id \in Ids, NEW u \in Users, NEW v \in Users, NEW a \in Amounts,
             Transfer(id, u, v, a)
      PROVE  OneCreditPerReference'
  BY <1>0, <1>2, <1>4 DEF Transfer
<1>5. ASSUME NEW id \in Ids, tx[id].type = "NONE", tx'[id].type # "DEBIT",
             tx'[id].status # "SUCCESS", \A i \in Ids \ {id} : tx'[i] = tx[i],
             UNCHANGED credits
      PROVE  OneCreditPerReference'
  BY <1>5 DEF OneCreditPerReference, Done, Gateway
<1>6. ASSUME NEW id \in Ids, NEW b \in Bills, NEW u \in Users, NEW a \in Amounts,
             PayBillByGateway(id, b, u, a)
      PROVE  OneCreditPerReference'
  BY <1>0, <1>5, <1>6 DEF PayBillByGateway, PaymentRow, Shape, StageShape
<1>7. ASSUME NEW id \in Ids, SaveCharge(id) \/ CommitWithdraw(id)
      PROVE  OneCreditPerReference'
  BY <1>0, <1>5, <1>7 DEF SaveCharge, CommitWithdraw, Shape, StageShape, Holding
<1>8. ASSUME NEW id \in Ids, Rewritten(id), tx[id].status # "SUCCESS",
             tx'[id].status # "SUCCESS", UNCHANGED credits
      PROVE  OneCreditPerReference'
  BY <1>8 DEF Rewritten, OneCreditPerReference, Done
<1>9. ASSUME NEW id \in Ids, SaveToken(id) \/ SaveTokenUnacknowledged(id)
      PROVE  OneCreditPerReference'
  <2>1. Rewritten(id) /\ tx'[id].status = "PENDING"
    BY <1>9, ReferenceUpdated
      DEF SaveToken, SaveTokenUnacknowledged, WriteToken, Statuses
  <2>2. tx[id].status = "PENDING" /\ UNCHANGED credits
    BY <1>9 DEF SaveToken, SaveTokenUnacknowledged, Shape, StageShape
  <2> QED BY <1>8, <2>1, <2>2
<1>10. ASSUME NEW id \in Ids, SaveFailed(id) PROVE OneCreditPerReference'
  <2>1. Rewritten(id) /\ tx'[id].status = "FAILED"
    BY <1>10, ReferenceUpdated DEF SaveFailed, Statuses
  <2>2. tx[id].status = "PENDING" /\ UNCHANGED credits
    BY <1>10 DEF SaveFailed, Shape, StageShape
  <2> QED BY <1>8, <2>1, <2>2
<1>11. ASSUME NEW id \in Ids, FailCallback(id) PROVE OneCreditPerReference'
  <2>1. Rewritten(id) /\ tx'[id].status = "FAILED"
    BY <1>11, StatusUpdated DEF FailCallback, Statuses
  <2> QED BY <1>8, <1>11, <2>1 DEF FailCallback, Unsettled
<1>12. ASSUME NEW id \in Ids, SettleCharge(id) \/ SettleBill(id)
       PROVE  OneCreditPerReference'
  <2>1. Rewritten(id) /\ tx'[id].status = "SUCCESS"
    BY <1>12, StatusUpdated DEF SettleCharge, SettleBill, Statuses
  <2>2. /\ tx[id].status # "SUCCESS" /\ tx[id].type \in Gateway
        /\ credits' = [credits EXCEPT ![id] = @ + 1]
    BY <1>12 DEF SettleCharge, SettleBill, Unsettled, Gateway
  <2>3. ~Done(id) /\ Done(id)'
    BY <2>1, <2>2 DEF Rewritten, Done, Gateway
  <2> QED BY <1>0, <2>1, <2>2, <2>3 DEF Rewritten, OneCreditPerReference, Done
<1>13. CASE UNCHANGED <<tx, credits>>
  BY <1>13 DEF OneCreditPerReference, Done
<1> QED
  BY <1>1, <1>3, <1>4, <1>6, <1>7, <1>9, <1>10, <1>11, <1>12, <1>13, LedgerSteps

\* Whatever callbacks arrive, in whatever number and order, every reference that
\* is done has credited one wallet once, and no other reference has.
THEOREM CreditedOnce == Spec => []OneCreditPerReference
<1>1. Init => OneCreditPerReference
  BY DEF Init, OneCreditPerReference, Done, NoTx, Gateway
<1> QED BY <1>1, OneCreditStep, AlwaysTyped, PTL DEF Spec

-----------------------------------------------------------------------------
(***************************************************************************)
(* No wallet is overdrawn                                                  *)
(***************************************************************************)

\* NoOverdraft is not inductive: a withdrawal debits what it checked before it
\* called the settlement API.  Its locks keep the amount in the wallet.
Held ==
  /\ NoOverdraft
  /\ \A id \in Ids : stage[id] \in Holding => req[id].amount <= balance[req[id].user]
  /\ \A i, j \in Ids : /\ i # j
                       /\ stage[i] \in Holding
                       /\ stage[j] \in Holding
                       => req[i].user # req[j].user

\* Which steps change a balance or open a withdrawal.
LEMMA BalanceSteps ==
  ASSUME Typed, [Next]_vars
  PROVE  \/ \E id \in Ids, b \in Bills, u \in Users, a \in Amounts :
              PayBillFromWallet(id, b, u, a)
         \/ \E id \in Ids, u \in Users, v \in Users, a \in Amounts : Transfer(id, u, v, a)
         \/ \E id \in Ids, u \in Users, a \in Amounts : OpenWithdraw(id, u, a)
         \/ \E id \in Ids : CommitWithdraw(id) \/ SettleCharge(id) \/ SettleBill(id)
         \/ /\ UNCHANGED balance
            /\ \A i \in Ids : stage'[i] \in Holding
                                => stage[i] \in Holding /\ req'[i] = req[i]
<1> USE DEF Typed, TypeOK
<1>1. CASE Rows
  BY <1>1 DEF Rows, CreateForUser, CreateBill, DeleteBill
<1>2. CASE Crash \/ UNCHANGED vars
  BY <1>2 DEF Crash, vars, Holding
<1>3. ASSUME NEW id \in Ids, Request(id)
      PROVE  \/ \E b \in Bills, u \in Users, a \in Amounts : PayBillFromWallet(id, b, u, a)
             \/ \E u \in Users, v \in Users, a \in Amounts : Transfer(id, u, v, a)
             \/ \E u \in Users, a \in Amounts : OpenWithdraw(id, u, a)
             \/ /\ UNCHANGED balance
                /\ \A i \in Ids : stage'[i] \in Holding
                                    => stage[i] \in Holding /\ req'[i] = req[i]
  BY <1>3 DEF Request, ChargeRequestToken, PayBillByGateway, Holding
<1>4. ASSUME NEW id \in Ids, Proceed(id)
      PROVE  \/ CommitWithdraw(id)
             \/ /\ UNCHANGED balance
                /\ \A i \in Ids : stage'[i] \in Holding
                                    => stage[i] \in Holding /\ req'[i] = req[i]
  <2>1. CASE ProviderAccepts(id) \/ IssueToken(id) \/ GatewayCallFails(id)
             \/ SaveTokenUnacknowledged(id)
    BY <2>1 DEF ProviderAccepts, IssueToken, GatewayCallFails, SaveTokenUnacknowledged,
      Holding
  <2>2. CASE SaveCharge(id) \/ SaveToken(id) \/ SaveFailed(id) \/ HandlerThrows(id)
    BY <2>2 DEF SaveCharge, SaveToken, SaveFailed, HandlerThrows, EndCall, Holding
  <2> QED BY <1>4, <2>1, <2>2 DEF Proceed
<1>5. ASSUME NEW id \in Ids, Customer(id) PROVE UNCHANGED <<balance, stage, req>>
  BY <1>5 DEF Customer, Pay, Decline, VerifyCallback, FailCallback
<1>6. ASSUME NEW id \in Ids, Finalize(id)
      PROVE  SettleCharge(id) \/ SettleBill(id) \/ UNCHANGED <<balance, stage, req>>
  BY <1>6 DEF Finalize, AlreadyProcessed, CallbackRolledBack
<1> QED BY <1>1, <1>2, <1>3, <1>4, <1>5, <1>6 DEF Next

\* A payment takes from a wallet that no withdrawal holds; a withdrawal takes
\* what it holds.
LEMMA HeldStep == Typed /\ Held /\ [Next]_vars => Held'
<1> SUFFICES ASSUME Typed, Held, [Next]_vars PROVE Held'
  OBVIOUS
<1> USE DEF Typed
<1>0. /\ balance \in [Users -> Int] /\ \A u \in Users : balance[u] \in Nat
      /\ \A id \in Ids : stage[id] \in Holding =>
           req[id].user \in Users /\ req[id].amount \in Amounts /\ req[id].amount \in Nat
      /\ stage \in [Ids -> Stages] /\ DOMAIN req = Ids
  BY AmountIsPositive DEF TypeOK, Held, NoOverdraft, Shape, StageShape
<1>1. ASSUME NEW id \in Ids, NEW u \in Users, NEW v \in Users, NEW a \in Amounts,
             balance[u] >= a, Unlocked({u, v}), balance' = Moved(u, v, a), EndCall(id)
      PROVE  Held'
  <2>1. \A w \in Users : balance'[w] >= 0 /\ (w \notin {u, v} => balance'[w] = balance[w])
    BY <1>0, <1>1, AmountIsPositive, AppendIsLarger DEF Moved
  <2>2. \A i \in Ids : stage'[i] \in Holding =>
          stage[i] \in Holding /\ req'[i] = req[i] /\ req[i].user \notin {u, v}
    BY <1>0, <1>1 DEF EndCall, Unlocked, Holding
  <2> QED BY <1>0, <2>1, <2>2 DEF Held, NoOverdraft
<1>2. ASSUME NEW id \in Ids, NEW b \in Bills, NEW u \in Users, NEW a \in Amounts,
             PayBillFromWallet(id, b, u, a)
      PROVE  Held'
  <2>1. bill[b].creditor \in Users
    BY <1>2, NullsAssumption DEF PayBillFromWallet, PayBillChecks, TypeOK
  <2> QED BY <1>1, <1>2, <2>1 DEF PayBillFromWallet, PayBillChecks
<1>3. ASSUME NEW id \in Ids, NEW u \in Users, NEW v \in Users, NEW a \in Amounts,
             Transfer(id, u, v, a)
      PROVE  Held'
  BY <1>1, <1>3 DEF Transfer
<1>4. ASSUME NEW id \in Ids, NEW u \in Users, NEW a \in Amounts, OpenWithdraw(id, u, a)
      PROVE  Held'
  <2>1. /\ UNCHANGED balance /\ balance[u] >= a
        /\ req'[id].user = u /\ req'[id].amount = a
        /\ \A i \in Ids : i # id => stage'[i] = stage[i] /\ req'[i] = req[i]
        /\ \A i \in Ids : stage[i] \in Holding => req[i].user # u
    BY <1>0, <1>4 DEF OpenWithdraw, Unlocked
  <2> QED BY <1>0, <2>1, AmountIsPositive DEF Held, NoOverdraft
<1>5. ASSUME NEW id \in Ids, CommitWithdraw(id) PROVE Held'
  <2> DEFINE u == req[id].user
  <2>1. stage[id] \in Holding /\ u \in Users /\ req[id].amount \in Nat
    BY <1>0, <1>5 DEF CommitWithdraw, Holding
  <2>2. balance' = [balance EXCEPT ![u] = @ - req[id].amount]
    BY <1>5 DEF CommitWithdraw
  <2>3. \A i \in Ids : stage'[i] \in Holding =>
          stage[i] \in Holding /\ req'[i] = req[i] /\ i # id
    BY <1>0, <1>5 DEF CommitWithdraw, EndCall, Holding
  <2>4. \A i \in Ids : stage'[i] \in Holding => req[i].user # u
    BY <2>1, <2>3 DEF Held
  <2> QED BY <1>0, <2>1, <2>2, <2>3, <2>4 DEF Held, NoOverdraft
<1>6. ASSUME NEW id \in Ids, SettleCharge(id) \/ SettleBill(id) PROVE Held'
  <2>1. PICK u \in Users :
          balance' = [balance EXCEPT ![u] = Append10(balance[u], tx[id].amount)]
    BY <1>6 DEF SettleCharge, SettleBill, Shape, RowShape, TypeOK
  <2>2. tx[id].amount \in Amounts
    BY <1>6 DEF SettleCharge, SettleBill, Shape, RowShape
  <2>3. \A w \in Users : balance'[w] \in Nat /\ balance'[w] >= balance[w]
    BY <1>0, <2>1, <2>2, AppendIsLarger, AmountIsPositive
  <2>4. UNCHANGED <<stage, req>>
    BY <1>6 DEF SettleCharge, SettleBill
  <2> QED BY <1>0, <2>3, <2>4 DEF Held, NoOverdraft
<1>7. CASE /\ UNCHANGED balance
           /\ \A i \in Ids : stage'[i] \in Holding
                               => stage[i] \in Holding /\ req'[i] = req[i]
  BY <1>7 DEF Held, NoOverdraft
<1> QED BY <1>2, <1>3, <1>4, <1>5, <1>6, <1>7, BalanceSteps

\* No interleaving of transfers, bill payments, top-ups and withdrawals, nor a
\* crash among them, leaves a wallet with less than nothing.
THEOREM NeverOverdrawn == Spec => []NoOverdraft
<1>1. Init => Held
  BY OpeningAssumption, BoundsAssumption DEF Init, Held, NoOverdraft, Holding
<1>2. Held => NoOverdraft
  BY DEF Held
<1> QED BY <1>1, <1>2, HeldStep, AlwaysTyped, PTL DEF Spec

-----------------------------------------------------------------------------
(***************************************************************************)
(* Balances follow the rows of the ledger                                  *)
(***************************************************************************)

\* What the step does to the balance of u has its row: a loss is subtracted, a gain
\* is appended.
Followed(u) ==
  /\ balance'[u] < balance[u] =>
       \E id \in Ids : Debits(id, u) /\ balance'[u] = balance[u] - tx'[id].amount
  /\ balance'[u] > balance[u] =>
       \E id \in Ids : /\ Credits(id, u)
                       /\ ~Debits(id, u)
                       /\ tx'[id].amount \in Amounts
                       /\ balance'[u] = Append10(balance[u], tx'[id].amount)

\* Every step has the rows for what it does.
LEMMA FollowedStep ==
  ASSUME Typed, Held, [Next]_vars, NEW w \in Users
  PROVE  Followed(w)
<1>0. /\ balance \in [Users -> Int] /\ \A u \in Users : balance[u] \in Nat
      /\ tx \in [Ids -> TxRow] /\ credits \in [Ids -> Nat] /\ TypeOK /\ Shape
  BY DEF Typed, TypeOK, Held, NoOverdraft
<1>1. ASSUME NEW id \in Ids, NEW u \in Users, NEW v \in Users, NEW a \in Amounts,
             stage[id] = "new", balance' = Moved(u, v, a),
             tx'[id].type = "DEBIT", tx'[id].paidBy = u, tx'[id].paidTo = v, tx'[id].amount = a,
             credits' = [credits EXCEPT ![id] = @ + 1]
      PROVE  Followed(w)
  <2>1. tx[id].type = "NONE" /\ credits'[id] = credits[id] + 1
    BY <1>0, <1>1 DEF Shape, StageShape
  <2>2. CASE u = v \/ w \notin {u, v}
    BY <1>0, <1>1, <2>2 DEF Moved, Followed
  <2>3. CASE u # v /\ w = u
    <3>1. balance'[w] = balance[w] - a /\ a \in Nat
      BY <1>0, <1>1, <2>3, AmountIsPositive DEF Moved
    <3>2. Debits(id, w)
      BY <1>1, <2>1, <2>3 DEF Debits
    <3>3. ~(balance'[w] > balance[w])
      BY <1>0, <3>1
    <3> QED BY <1>1, <3>1, <3>2, <3>3 DEF Followed
  <2>4. CASE u # v /\ w = v
    <3>1. balance'[w] = Append10(balance[w], a) /\ balance'[w] >= balance[w] + a
            /\ balance'[w] \in Nat /\ a \in Nat
      BY <1>0, <1>1, <2>4, AmountIsPositive, AppendIsLarger DEF Moved
    <3>2. Credits(id, w) /\ ~Debits(id, w)
      BY <1>1, <2>1, <2>4 DEF Credits, Debits
    <3>3. ~(balance'[w] < balance[w])
      BY <1>0, <3>1
    <3> QED BY <1>1, <3>1, <3>2, <3>3 DEF Followed
  <2> QED BY <2>2, <2>3, <2>4
<1>2. ASSUME NEW id \in Ids, NEW b \in Bills, NEW u \in Users, NEW a \in Amounts,
             PayBillFromWallet(id, b, u, a)
      PROVE  Followed(w)
  <2>1. bill[b].creditor \in Users
    BY <1>0, <1>2, NullsAssumption DEF PayBillFromWallet, PayBillChecks, TypeOK
  <2>2. tx'[id] = PaymentRow("DEBIT", "SUCCESS", b, u, a)
    BY <1>0, <1>2 DEF PayBillFromWallet
  <2>3. /\ tx'[id].type = "DEBIT" /\ tx'[id].paidBy = u /\ tx'[id].paidTo = bill[b].creditor
        /\ tx'[id].amount = a
    BY <2>2 DEF PaymentRow
  <2> QED BY <1>1, <1>2, <2>1, <2>3 DEF PayBillFromWallet
<1>3. ASSUME NEW id \in Ids, NEW u \in Users, NEW v \in Users, NEW a \in Amounts,
             Transfer(id, u, v, a)
      PROVE  Followed(w)
  <2>1. /\ tx'[id].type = "DEBIT" /\ tx'[id].paidBy = u /\ tx'[id].paidTo = v
        /\ tx'[id].amount = a
    BY <1>0, <1>3 DEF Transfer
  <2> QED BY <1>1, <1>3, <2>1 DEF Transfer
<1>4. ASSUME NEW id \in Ids, CommitWithdraw(id)
      PROVE  Followed(w)
  <2> DEFINE u == req[id].user
             a == req[id].amount
  <2>1. /\ tx[id].type = "NONE" /\ u \in Users /\ a \in Amounts
    BY <1>0, <1>4 DEF CommitWithdraw, Shape, StageShape, Holding
  <2>2. /\ tx'[id].type = "WITHDRAWAL" /\ tx'[id].paidBy = u /\ tx'[id].amount = a
        /\ balance' = [balance EXCEPT ![u] = @ - a]
    BY <1>0, <1>4 DEF CommitWithdraw
  <2> HIDE DEF u, a
  <2>3. CASE w = u
    <3>1. balance'[w] = balance[w] - a /\ a \in Nat
      BY <1>0, <2>1, <2>2, <2>3, AmountIsPositive
    <3>2. ~(balance'[w] > balance[w]) /\ Debits(id, w)
      BY <1>0, <2>1, <2>2, <2>3, <3>1 DEF Debits
    <3> QED BY <2>2, <3>1, <3>2 DEF Followed
  <2>4. CASE w # u
    BY <1>0, <2>2, <2>4 DEF Followed
  <2> QED BY <2>3, <2>4
<1>5. ASSUME NEW id \in Ids, SettleCharge(id) \/ SettleBill(id)
      PROVE  Followed(w)
  <2>1. Rewritten(id)
    BY <1>0, <1>5, StatusUpdated DEF SettleCharge, SettleBill, Statuses
  <2>2. /\ tx[id].type # "NONE" /\ tx[id].amount \in Amounts
        /\ credits'[id] = credits[id] + 1
    BY <1>0, <1>5 DEF SettleCharge, SettleBill, Shape, RowShape
  <2>3. PICK u \in Users :
          /\ balance' = [balance EXCEPT ![u] = Append10(balance[u], tx[id].amount)]
          /\ u = IF tx[id].type = "CHARGE_WALLET" THEN tx[id].paidBy ELSE tx[id].paidTo
    BY <1>0, <1>5 DEF SettleCharge, SettleBill, Shape, RowShape, TypeOK
  <2>4. tx'[id].amount = tx[id].amount /\ Credits(id, u) /\ ~Debits(id, u)
    BY <2>1, <2>2, <2>3 DEF Rewritten, Credits, Debits
  <2>5. CASE w = u
    <3>1. /\ balance'[w] = Append10(balance[w], tx[id].amount)
          /\ balance'[w] >= balance[w] + tx[id].amount
          /\ tx[id].amount \in Nat /\ balance'[w] \in Nat
      BY <1>0, <2>2, <2>3, <2>5, AmountIsPositive, AppendIsLarger
    <3>2. ~(balance'[w] < balance[w])
      BY <1>0, <3>1
    <3> QED BY <2>2, <2>4, <2>5, <3>1, <3>2 DEF Followed
  <2>6. CASE w # u
    BY <1>0, <2>3, <2>6 DEF Followed
  <2> QED BY <2>5, <2>6
<1>6. CASE UNCHANGED balance
  BY <1>0, <1>6 DEF Followed
<1> QED BY <1>2, <1>3, <1>4, <1>5, <1>6, BalanceSteps DEF OpenWithdraw

\* What appending does to a balance.
LEMMA GainIsExactOnEmpty ==
  ASSUME Typed, Held, [Next]_vars, NEW u \in Users, balance'[u] > balance[u]
  PROVE  \E id \in Ids : /\ Credits(id, u)
                         /\ ~Debits(id, u)
                         /\ balance'[u] >= balance[u] + tx'[id].amount
                         /\ balance'[u] = balance[u] + tx'[id].amount <=> balance[u] = 0
<1>1. balance[u] \in Nat
  BY DEF Typed, TypeOK, Held, NoOverdraft
<1>2. PICK id \in Ids : /\ Credits(id, u)
                        /\ ~Debits(id, u)
                        /\ tx'[id].amount \in Amounts
                        /\ balance'[u] = Append10(balance[u], tx'[id].amount)
  BY FollowedStep DEF Followed
<1>3. /\ balance'[u] >= balance[u] + tx'[id].amount
      /\ balance'[u] = balance[u] + tx'[id].amount <=> balance[u] = 0
  BY <1>1, <1>2, AppendIsLarger, AppendIsExactOnZero
<1> QED BY <1>2, <1>3

\* No balance changes but by what a row of the ledger says, and a credit is right
\* if and only if the wallet was empty: the extent of what appending to bigint text does.
THEOREM BalancesFollow == Spec => BalanceFollowsRows
<1>1. Init => Held
  BY OpeningAssumption, BoundsAssumption DEF Init, Held, NoOverdraft, Holding
<1>2. Typed /\ Held /\ [Next]_vars =>
        [\A u \in Users :
           /\ balance'[u] < balance[u] =>
                \E id \in Ids : Debits(id, u) /\ balance'[u] = balance[u] - tx'[id].amount
           /\ balance'[u] > balance[u] =>
                \E id \in Ids : /\ Credits(id, u)
                                /\ ~Debits(id, u)
                                /\ balance'[u] >= balance[u] + tx'[id].amount
                                /\ balance'[u] = balance[u] + tx'[id].amount
                                     <=> balance[u] = 0]_vars
  BY FollowedStep, GainIsExactOnEmpty DEF Followed
<1> QED BY <1>1, <1>2, HeldStep, AlwaysTyped, PTL DEF Spec, BalanceFollowsRows

-----------------------------------------------------------------------------
(***************************************************************************)
(* A link that can be paid has its row                                     *)
(***************************************************************************)

\* The customer has the link.
Out(id) == payment[id] \in {"offered", "paid"}

\* Its row is there, under the token.
Backed(id) == tx[id].token /\ tx[id].type \in Gateway

\* The handler of a link that is out has come to its end.
LEMMA OutIsEnded == Typed => \A id \in Ids : Out(id) => stage[id] = "ended"
BY DEF Typed, TypeOK, Shape, StageShape, Out, Stages, Holding

\* No step takes the row of a link away, nor gives a link out without one.
LEMMA BackedStep == Typed /\ PaidLinkHasRow /\ [Next]_vars => PaidLinkHasRow'
<1> SUFFICES ASSUME Typed, PaidLinkHasRow, [Next]_vars PROVE PaidLinkHasRow'
  OBVIOUS
<1>0. /\ tx \in [Ids -> TxRow] /\ payment \in [Ids -> {"none", "issued", "offered", "paid"}]
      /\ TypeOK /\ \A id \in Ids : Out(id) => stage[id] = "ended" /\ Backed(id)
  BY OutIsEnded DEF Typed, TypeOK, PaidLinkHasRow, Out, Backed
<1>1. ASSUME \A id \in Ids : payment'[id] \in {"offered", "paid"} =>
               /\ Out(id)
               /\ tx'[id].type = tx[id].type
               /\ tx[id].token => tx'[id].token
      PROVE  PaidLinkHasRow'
  BY <1>0, <1>1 DEF PaidLinkHasRow, Backed
<1>2. ASSUME NEW id \in Ids, stage[id] # "ended", payment' = payment,
             \A i \in Ids \ {id} : tx'[i] = tx[i]
      PROVE  PaidLinkHasRow'
  BY <1>0, <1>1, <1>2 DEF Out
<1>3. ASSUME NEW id \in Ids, payment' = [payment EXCEPT ![id] = "offered"],
             \A i \in Ids \ {id} : tx'[i] = tx[i],
             tx'[id].token, tx'[id].type \in Gateway
      PROVE  PaidLinkHasRow'
  BY <1>0, <1>3 DEF PaidLinkHasRow, Backed, Out
<1>4. ASSUME NEW u \in Users, NEW ref \in Batches, DeleteBill(u, ref) PROVE PaidLinkHasRow'
  <2>1. payment' = payment
    BY <1>4 DEF DeleteBill, gatewayVars
  <2> QED BY <1>0, <1>1, <1>4, <2>1, BatchDeleted DEF Out
<1>5. ASSUME NEW id \in Ids, SaveCharge(id) PROVE PaidLinkHasRow'
  <2>1. tx'[id].token /\ tx'[id].type = "CHARGE_WALLET" /\ \A i \in Ids \ {id} : tx'[i] = tx[i]
    BY <1>0, <1>5 DEF SaveCharge
  <2> QED BY <1>3, <1>5, <2>1 DEF SaveCharge, Gateway
<1>6. ASSUME NEW id \in Ids, SaveToken(id) PROVE PaidLinkHasRow'
  <2>1. Rewritten(id) /\ tx'[id].token = TRUE
    BY <1>0, <1>6, ReferenceUpdated DEF SaveToken, WriteToken, Statuses
  <2>2. tx[id].type = "PAY_BILLS"
    BY <1>6 DEF Typed, Shape, StageShape, SaveToken
  <2> QED BY <1>3, <1>6, <2>1, <2>2 DEF SaveToken, Rewritten, Gateway
<1>7. ASSUME NEW id \in Ids, SaveTokenUnacknowledged(id) \/ SaveFailed(id) PROVE PaidLinkHasRow'
  BY <1>0, <1>2, <1>7
    DEF SaveTokenUnacknowledged, SaveFailed, WriteToken, gatewayVars
<1>8. ASSUME NEW id \in Ids, FailCallback(id) \/ SettleCharge(id) \/ SettleBill(id) PROVE PaidLinkHasRow'
  <2>1. Rewritten(id) /\ tx'[id].token = tx[id].token
    BY <1>0, <1>8, StatusUpdated DEF FailCallback, SettleCharge, SettleBill, Statuses
  <2>2. payment' = payment
    BY <1>8 DEF FailCallback, SettleCharge, SettleBill, gatewayVars
  <2> QED BY <1>1, <2>1, <2>2 DEF Rewritten, Out
<1>9. ASSUME NEW id \in Ids, Request(id) PROVE PaidLinkHasRow'
  <2>1. CASE \E u \in Users, a \in Amounts : ChargeRequestToken(id, u, a)
    BY <1>0, <1>1, <2>1 DEF ChargeRequestToken, Out
  <2>2. CASE ~\E u \in Users, a \in Amounts : ChargeRequestToken(id, u, a)
    BY <1>0, <1>2, <1>9, <2>2
      DEF Request, PayBillFromWallet, PayBillByGateway, Transfer, OpenWithdraw, gatewayVars
  <2> QED BY <2>1, <2>2
<1>10. ASSUME NEW id \in Ids, CommitWithdraw(id) PROVE PaidLinkHasRow'
  BY <1>0, <1>2, <1>10 DEF CommitWithdraw, gatewayVars
<1>11. ASSUME NEW id \in Ids, IssueToken(id) \/ Pay(id), UNCHANGED tx PROVE PaidLinkHasRow'
  BY <1>0, <1>1, <1>11 DEF IssueToken, Pay, Out
<1>12. CASE UNCHANGED <<payment, tx>>
  BY <1>1, <1>12 DEF Out
<1> QED
  BY <1>4, <1>5, <1>6, <1>7, <1>8, <1>9, <1>10, <1>11, <1>12
    DEF Next, Rows, Proceed, Customer, Finalize, vars, gatewayVars,
      CreateForUser, CreateBill, Crash, IssueToken, GatewayCallFails,
      ProviderAccepts, HandlerThrows, Pay, Decline, VerifyCallback,
      AlreadyProcessed, CallbackRolledBack

\* A link that reached a customer always finds its payment.
THEOREM LinksAreBacked == Spec => []PaidLinkHasRow
<1>1. Init => PaidLinkHasRow
  BY DEF Init, PaidLinkHasRow
<1> QED BY TypedInit, TypedStep, BackedStep, <1>1, PTL DEF Spec

-----------------------------------------------------------------------------
(***************************************************************************)
(* The gateway rows implement GatewayPayment                               *)
(***************************************************************************)

\* A gateway row has a status of its own, and a callback that is being handled has
\* verified its payment.
Told ==
  \A id \in Ids :
    /\ tx[id].type \in Gateway => tx[id].status \in {"PENDING", "FAILED", "SUCCESS"}
    /\ callbacks[id] > 0 => id \in verified

\* What GatewayPayment sees of a row.
Status(id) == IF tx[id].type \in Gateway THEN tx[id].status ELSE "NONE"
Credit(id) == IF tx[id].type \in Gateway THEN credits[id] ELSE 0

\* Which steps touch what callbacks have verified.
LEMMA CallbackSteps ==
  ASSUME Typed, [Next]_vars
  PROVE  \/ \E id \in Ids : VerifyCallback(id)
         \/ verified' = verified /\ \A id \in Ids : callbacks'[id] > 0 => callbacks[id] > 0
<1>0. callbacks \in [Ids -> 0 .. MaxCallbacks] /\ MaxCallbacks \in Nat
  BY BoundsAssumption DEF Typed, TypeOK
<1>1. CASE Rows \/ UNCHANGED vars
  BY <1>1 DEF Rows, CreateForUser, CreateBill, DeleteBill, vars, gatewayVars
<1>2. CASE Crash
  BY <1>2 DEF Crash, gatewayVars
<1>3. ASSUME NEW id \in Ids, Request(id) \/ Proceed(id)
      PROVE  UNCHANGED <<verified, callbacks>>
  BY <1>3 DEF Request, ChargeRequestToken, PayBillFromWallet, PayBillByGateway, Transfer, OpenWithdraw,
              Proceed, SaveCharge, IssueToken, GatewayCallFails, SaveToken, SaveTokenUnacknowledged,
              SaveFailed, ProviderAccepts, CommitWithdraw, HandlerThrows, gatewayVars
<1>4. ASSUME NEW id \in Ids, Customer(id)
      PROVE  VerifyCallback(id) \/ UNCHANGED <<verified, callbacks>>
  BY <1>4 DEF Customer, Pay, Decline, FailCallback, gatewayVars
<1>5. ASSUME NEW id \in Ids, Finalize(id)
      PROVE  verified' = verified /\ \A i \in Ids : callbacks'[i] > 0 => callbacks[i] > 0
  <2>1. /\ verified' = verified /\ callbacks[id] > 0
        /\ callbacks' = [callbacks EXCEPT ![id] = @ - 1]
    BY <1>5 DEF Finalize, AlreadyProcessed, SettleCharge, SettleBill, CallbackRolledBack,
                CallbackFinds, gatewayVars
  <2> QED BY <1>0, <2>1
<1> QED BY <1>1, <1>2, <1>3, <1>4, <1>5 DEF Next

\* What the step does to that is a step of GatewayPayment, or nothing.
Simulates ==
  \/ /\ \A i \in Ids : Status(i)' = Status(i) /\ Credit(i)' = Credit(i)
     /\ verified' = verified
  \/ \E id \in Ids :
       /\ \A i \in Ids \ {id} : Status(i)' = Status(i) /\ Credit(i)' = Credit(i)
       /\ \/ /\ Status(id) = "NONE" /\ Status(id)' = "PENDING"
             /\ Credit(id)' = Credit(id) /\ verified' = verified
          \/ /\ Status(id) = "PENDING" /\ Status(id)' = "FAILED"
             /\ Credit(id)' = Credit(id) /\ verified' = verified
          \/ /\ Status(id) # "NONE" /\ Status(id)' = Status(id)
             /\ Credit(id)' = Credit(id) /\ verified' = verified \cup {id}
          \/ /\ id \in verified /\ Status(id) \in {"PENDING", "FAILED"} /\ Status(id)' = "SUCCESS"
             /\ Credit(id)' = Credit(id) + 1 /\ verified' = verified

\* Every step does so.
LEMMA SimulationStep ==
  Typed /\ OneCreditPerReference /\ PaidLinkHasRow /\ Told /\ [Next]_vars => Told' /\ Simulates
<1> SUFFICES ASSUME Typed, OneCreditPerReference, PaidLinkHasRow, Told, [Next]_vars
             PROVE  Told' /\ Simulates
  OBVIOUS
<1>0. /\ tx \in [Ids -> TxRow] /\ credits \in [Ids -> Nat] /\ TypeOK /\ Shape
  BY DEF Typed, TypeOK
<1>1. ASSUME NEW id \in Ids, VerifyCallback(id)
      PROVE  Told' /\ Simulates
  <2>1. /\ payment[id] = "paid" /\ tx' = tx /\ credits' = credits /\ verified' = verified \cup {id}
        /\ \A i \in Ids \ {id} : callbacks'[i] = callbacks[i]
    BY <1>0, <1>1 DEF VerifyCallback, TypeOK
  <2>2. tx[id].type \in Gateway
    BY <2>1 DEF PaidLinkHasRow
  <2>3. \A i \in Ids : Status(i)' = Status(i) /\ Credit(i)' = Credit(i)
    BY <2>1 DEF Status, Credit
  <2>4. Status(id) # "NONE"
    BY <2>2 DEF Told, Status
  <2>5. Told'
    BY <2>1 DEF Told
  <2> QED BY <2>1, <2>3, <2>4, <2>5 DEF Simulates
<1> SUFFICES ASSUME verified' = verified, \A id \in Ids : callbacks'[id] > 0 => callbacks[id] > 0
             PROVE  Told' /\ Simulates
  BY <1>1, CallbackSteps
<1>2. ASSUME \A i \in Ids : tx'[i].type = tx[i].type /\ tx'[i].status = tx[i].status,
             credits' = credits
      PROVE  Told' /\ Simulates
  <2>1. Told'
    BY <1>2 DEF Told
  <2>2. \A i \in Ids : Status(i)' = Status(i) /\ Credit(i)' = Credit(i)
    BY <1>2 DEF Status, Credit
  <2> QED BY <2>1, <2>2 DEF Simulates
<1>3. ASSUME NEW u \in Users, NEW ref \in Batches, DeleteBill(u, ref)
      PROVE  Told' /\ Simulates
  <2>1. \A i \in Ids : tx'[i].type = tx[i].type /\ tx'[i].status = tx[i].status
    BY <1>0, <1>3, BatchDeleted
  <2> QED BY <1>2, <1>3, <2>1 DEF DeleteBill
<1>4. ASSUME NEW id \in Ids, tx[id].type = "NONE", tx'[id].type \notin Gateway,
             \A i \in Ids \ {id} : tx'[i] = tx[i] /\ credits'[i] = credits[i]
      PROVE  Told' /\ Simulates
  <2>1. tx[id].type \notin Gateway
    BY <1>4 DEF Gateway
  <2>2. Told'
    BY <1>4 DEF Told
  <2>3. \A i \in Ids : Status(i)' = Status(i) /\ Credit(i)' = Credit(i)
    BY <1>4, <2>1 DEF Status, Credit
  <2> QED BY <2>2, <2>3 DEF Simulates
<1>5. ASSUME NEW id \in Ids, NEW b \in Bills, NEW u \in Users, NEW a \in Amounts,
             PayBillFromWallet(id, b, u, a)
      PROVE  Told' /\ Simulates
  <2>1. tx[id].type = "NONE"
    BY <1>0, <1>5 DEF PayBillFromWallet, Shape, StageShape
  <2> QED BY <1>0, <1>4, <1>5, <2>1 DEF PayBillFromWallet, PaymentRow, Gateway
<1>6. ASSUME NEW id \in Ids, NEW u \in Users, NEW v \in Users, NEW a \in Amounts,
             Transfer(id, u, v, a)
      PROVE  Told' /\ Simulates
  <2>1. tx[id].type = "NONE"
    BY <1>0, <1>6 DEF Transfer, Shape, StageShape
  <2> QED BY <1>0, <1>4, <1>6, <2>1 DEF Transfer, Gateway
<1>7. ASSUME NEW id \in Ids, CommitWithdraw(id)
      PROVE  Told' /\ Simulates
  <2>1. tx[id].type = "NONE"
    BY <1>0, <1>7 DEF CommitWithdraw, Shape, StageShape, Holding
  <2> QED BY <1>0, <1>4, <1>7, <2>1 DEF CommitWithdraw, Gateway
<1>8. ASSUME NEW id \in Ids, tx[id].type = "NONE", tx'[id].type \in Gateway, tx'[id].status = "PENDING",
             \A i \in Ids \ {id} : tx'[i] = tx[i], credits' = credits
      PROVE  Told' /\ Simulates
  <2>1. credits[id] = 0
    BY <1>8 DEF OneCreditPerReference, Done, Gateway
  <2>2. Told'
    BY <1>8 DEF Told
  <2>3. Status(id) = "NONE" /\ Status(id)' = "PENDING" /\ Credit(id) = 0 /\ Credit(id)' = 0
    BY <1>8, <2>1 DEF Status, Credit, Gateway
  <2>4. \A i \in Ids \ {id} : Status(i)' = Status(i) /\ Credit(i)' = Credit(i)
    BY <1>8 DEF Status, Credit
  <2> QED BY <2>2, <2>3, <2>4 DEF Simulates
<1>9. ASSUME NEW id \in Ids, SaveCharge(id)
      PROVE  Told' /\ Simulates
  <2>1. tx[id].type = "NONE"
    BY <1>0, <1>9 DEF SaveCharge, Shape, StageShape
  <2> QED BY <1>0, <1>8, <1>9, <2>1 DEF SaveCharge, Gateway
<1>10. ASSUME NEW id \in Ids, NEW b \in Bills, NEW u \in Users, NEW a \in Amounts,
              PayBillByGateway(id, b, u, a)
       PROVE  Told' /\ Simulates
  <2>1. tx[id].type = "NONE"
    BY <1>0, <1>10 DEF PayBillByGateway, Shape, StageShape
  <2> QED BY <1>0, <1>8, <1>10, <2>1 DEF PayBillByGateway, PaymentRow, Gateway
<1>11. ASSUME NEW id \in Ids, SaveToken(id) \/ SaveTokenUnacknowledged(id)
       PROVE  Told' /\ Simulates
  <2>1. Rewritten(id) /\ tx'[id].status = "PENDING"
    BY <1>0, <1>11, ReferenceUpdated DEF SaveToken, SaveTokenUnacknowledged, WriteToken, Statuses
  <2>2. tx[id].status = "PENDING" /\ credits' = credits
    BY <1>0, <1>11 DEF SaveToken, SaveTokenUnacknowledged, Shape, StageShape
  <2> QED BY <1>2, <2>1, <2>2 DEF Rewritten
<1>12. ASSUME NEW id \in Ids, Rewritten(id), tx'[id].status = "FAILED", tx[id].type \in Gateway,
              tx[id].status # "SUCCESS", credits' = credits
       PROVE  Told' /\ Simulates
  <2>1. Told'
    BY <1>12 DEF Told, Rewritten
  <2>2. /\ Status(id) \in {"PENDING", "FAILED"} /\ Status(id)' = "FAILED" /\ Credit(id)' = Credit(id)
        /\ \A i \in Ids \ {id} : Status(i)' = Status(i) /\ Credit(i)' = Credit(i)
    BY <1>12 DEF Told, Rewritten, Status, Credit
  <2>3. CASE Status(id) = "PENDING"
    BY <2>1, <2>2, <2>3 DEF Simulates
  <2>4. CASE Status(id) = "FAILED"
    <3>1. \A i \in Ids : Status(i)' = Status(i) /\ Credit(i)' = Credit(i)
      BY <2>2, <2>4
    <3> QED BY <2>1, <3>1 DEF Simulates
  <2> QED BY <2>2, <2>3, <2>4
<1>13. ASSUME NEW id \in Ids, SaveFailed(id)
       PROVE  Told' /\ Simulates
  <2>1. Rewritten(id) /\ tx'[id].status = "FAILED"
    BY <1>0, <1>13, ReferenceUpdated DEF SaveFailed, Statuses
  <2>2. tx[id].status = "PENDING" /\ tx[id].type \in Gateway /\ credits' = credits
    BY <1>0, <1>13 DEF SaveFailed, Shape, StageShape, Gateway
  <2> QED BY <1>12, <2>1, <2>2
<1>14. ASSUME NEW id \in Ids, FailCallback(id)
       PROVE  Told' /\ Simulates
  <2>1. Rewritten(id) /\ tx'[id].status = "FAILED"
    BY <1>0, <1>14, StatusUpdated DEF FailCallback, Statuses
  <2>2. tx[id].type \in Gateway
    BY <1>0, <1>14 DEF FailCallback, Shape, TokenShape, PaidLinkHasRow
  <2> QED BY <1>12, <1>14, <2>1, <2>2 DEF FailCallback, Unsettled
<1>15. ASSUME NEW id \in Ids, SettleCharge(id) \/ SettleBill(id)
       PROVE  Told' /\ Simulates
  <2>1. Rewritten(id) /\ tx'[id].status = "SUCCESS"
    BY <1>0, <1>15, StatusUpdated DEF SettleCharge, SettleBill, Statuses
  <2>2. /\ tx[id].type \in Gateway /\ tx[id].status # "SUCCESS" /\ callbacks[id] > 0
        /\ credits' = [credits EXCEPT ![id] = @ + 1]
    BY <1>15 DEF SettleCharge, SettleBill, Unsettled, CallbackFinds, Gateway
  <2>3. Told'
    BY <2>1, <2>2 DEF Told, Rewritten
  <2>4. credits'[id] = credits[id] + 1 /\ \A i \in Ids \ {id} : credits'[i] = credits[i]
    BY <1>0, <2>2
  <2>5. /\ id \in verified /\ Status(id) \in {"PENDING", "FAILED"} /\ Status(id)' = "SUCCESS"
        /\ Credit(id)' = Credit(id) + 1
    BY <2>1, <2>2, <2>4 DEF Told, Rewritten, Status, Credit
  <2>6. \A i \in Ids \ {id} : Status(i)' = Status(i) /\ Credit(i)' = Credit(i)
    BY <2>1, <2>4 DEF Rewritten, Status, Credit
  <2> QED BY <2>3, <2>5, <2>6 DEF Simulates
<1>16. CASE UNCHANGED <<tx, credits>>
  BY <1>2, <1>16
<1> QED
  BY <1>3, <1>5, <1>6, <1>7, <1>9, <1>10, <1>11, <1>13, <1>14, <1>15, <1>16, LedgerSteps

\* What simulates a step is one of GatewayPayment.
LEMMA AbstractStep ==
  ASSUME Simulates
  PROVE  Payments!Next \/ UNCHANGED Payments!vars
<1> DEFINE S == [id \in Ids |-> IF tx[id].type \in Gateway THEN tx[id].status ELSE "NONE"]
           C == [id \in Ids |-> IF tx[id].type \in Gateway THEN credits[id] ELSE 0]
<1>1. /\ S = [id \in Ids |-> Status(id)] /\ C = [id \in Ids |-> Credit(id)]
      /\ S' = [id \in Ids |-> Status(id)'] /\ C' = [id \in Ids |-> Credit(id)']
  BY DEF Status, Credit
<1>2. CASE /\ \A i \in Ids : Status(i)' = Status(i) /\ Credit(i)' = Credit(i)
           /\ verified' = verified
  <2>1. S' = S /\ C' = C
    BY <1>1, <1>2
  <2> QED BY <1>2, <2>1 DEF Payments!vars
<1>3. ASSUME NEW id \in Ids,
             \A i \in Ids \ {id} : Status(i)' = Status(i) /\ Credit(i)' = Credit(i),
             \/ /\ Status(id) = "NONE" /\ Status(id)' = "PENDING"
                /\ Credit(id)' = Credit(id) /\ verified' = verified
             \/ /\ Status(id) = "PENDING" /\ Status(id)' = "FAILED"
                /\ Credit(id)' = Credit(id) /\ verified' = verified
             \/ /\ Status(id) # "NONE" /\ Status(id)' = Status(id)
                /\ Credit(id)' = Credit(id) /\ verified' = verified \cup {id}
             \/ /\ id \in verified /\ Status(id) \in {"PENDING", "FAILED"} /\ Status(id)' = "SUCCESS"
                /\ Credit(id)' = Credit(id) + 1 /\ verified' = verified
      PROVE  Payments!Next
  <2>1. /\ S[id] = Status(id) /\ C[id] = Credit(id)
        /\ S' = [S EXCEPT ![id] = Status(id)'] /\ C' = [C EXCEPT ![id] = Credit(id)']
    <3> HIDE DEF S, C
    <3>1. S[id] = Status(id) /\ C[id] = Credit(id)
      BY <1>1
    <3>2. S' = [S EXCEPT ![id] = Status(id)']
      BY <1>1, <1>3
    <3>3. C' = [C EXCEPT ![id] = Credit(id)']
      BY <1>1, <1>3
    <3> QED BY <3>1, <3>2, <3>3
  <2>2. C' = [C EXCEPT ![id] = @ + 1] \/ Credit(id)' # Credit(id) + 1
    BY <2>1
  <2>3. S' = S \/ Status(id)' # Status(id)
    BY <1>1, <1>3
  <2>4. C' = C \/ Credit(id)' # Credit(id)
    BY <1>1, <1>3
  <2>5. CASE /\ Status(id) = "NONE" /\ Status(id)' = "PENDING"
             /\ Credit(id)' = Credit(id) /\ verified' = verified
    <3>1. Payments!Open(id)
      BY <2>1, <2>4, <2>5 DEF Payments!Open
    <3> QED BY <3>1 DEF Payments!Next
  <2>6. CASE /\ Status(id) = "PENDING" /\ Status(id)' = "FAILED"
             /\ Credit(id)' = Credit(id) /\ verified' = verified
    <3>1. Payments!Fail(id)
      BY <2>1, <2>4, <2>6 DEF Payments!Fail
    <3> QED BY <3>1 DEF Payments!Next
  <2>7. CASE /\ Status(id) # "NONE" /\ Status(id)' = Status(id)
             /\ Credit(id)' = Credit(id) /\ verified' = verified \cup {id}
    <3>1. Payments!Capture(id)
      BY <2>1, <2>3, <2>4, <2>7 DEF Payments!Capture
    <3> QED BY <3>1 DEF Payments!Next
  <2>8. CASE /\ id \in verified /\ Status(id) \in {"PENDING", "FAILED"} /\ Status(id)' = "SUCCESS"
             /\ Credit(id)' = Credit(id) + 1 /\ verified' = verified
    <3>1. Payments!Settle(id)
      BY <2>1, <2>2, <2>8 DEF Payments!Settle
    <3> QED BY <3>1 DEF Payments!Next
  <2> QED BY <1>3, <2>5, <2>6, <2>7, <2>8
<1> QED BY <1>2, <1>3 DEF Simulates

\* A callback at work has verified its payment, in every behaviour.
LEMMA AlwaysTold == Spec => []Told
<1>1. Init => Told
  BY DEF Init, Told, NoTx, Gateway
<1> QED BY <1>1, SimulationStep, AlwaysTyped, CreditedOnce, LinksAreBacked, PTL DEF Spec

\* Every behaviour of the wallet's gateway payments is one of GatewayPayment.
THEOREM PaymentsImplement == Spec => PaymentsAreSettledOnce
<1>1. Init => Told /\ Payments!Init
  BY DEF Init, Told, NoTx, Gateway, Payments!Init
<1>2. Simulates => [Payments!Next]_(Payments!vars)
  BY AbstractStep
<1> QED
  BY <1>1, <1>2, SimulationStep, AlwaysTyped, CreditedOnce, LinksAreBacked, PTL
    DEF Spec, Payments!Spec, PaymentsAreSettledOnce
-----------------------------------------------------------------------------
(***************************************************************************)
(* What another system did is kept                                         *)
(***************************************************************************)

\* The two halves of RemoteEffectsAreKept for one request; that a captured
\* payment has a gateway row is PaidLinkHasRow.
CaptureKept(id) == id \in verified \ dropped => tx[id].status = "SUCCESS" \/ callbacks[id] > 0
PayoutKept(id) == id \in accepted \ dropped => tx[id].type = "WITHDRAWAL" \/ stage[id] = "accepted"

Kept == \A id \in Ids : CaptureKept(id) /\ PayoutKept(id)

\* The step of one handler leaves the rows and stages of the others alone.
LEMMA HandlerStep ==
  ASSUME Typed, NEW i \in Ids, Request(i) \/ Proceed(i)
  PROVE  /\ \A j \in Ids \ {i} : tx'[j] = tx[j] /\ stage'[j] = stage[j]
         /\ stage[i] # "ended"
         /\ UNCHANGED <<verified, callbacks>>
         /\ dropped \subseteq dropped'
<1>0. tx \in [Ids -> TxRow] /\ stage \in [Ids -> Stages]
  BY DEF Typed, TypeOK
<1>1. CASE Request(i)
  BY <1>0, <1>1 DEF Request, ChargeRequestToken, PayBillFromWallet, PayBillByGateway,
    Transfer, OpenWithdraw, EndCall, gatewayVars
<1>2. CASE Proceed(i)
  BY <1>0, <1>2 DEF Proceed, SaveCharge, IssueToken, GatewayCallFails, SaveToken,
    SaveTokenUnacknowledged, WriteToken, SaveFailed, ProviderAccepts, CommitWithdraw,
    HandlerThrows, EndCall, gatewayVars, Throws
<1> QED BY <1>1, <1>2

\* What a handler of its own does to the row of a payout.
LEMMA PayoutHandled ==
  ASSUME Typed, NEW id \in Ids, PayoutKept(id), Request(id) \/ Proceed(id)
  PROVE  PayoutKept(id)'
<1>0. /\ tx \in [Ids -> TxRow] /\ stage \in [Ids -> Stages] /\ TypeOK /\ StageShape(id)
      /\ tx[id].type = "WITHDRAWAL" \/ stage[id] = "accepted" \/ id \notin accepted \ dropped
  BY DEF Typed, TypeOK, Shape, PayoutKept
<1>1. CASE Request(id)
  <2>1. stage[id] = "new" /\ accepted' = accepted /\ dropped' = dropped
    BY <1>1 DEF Request, ChargeRequestToken, PayBillFromWallet, PayBillByGateway, Transfer,
      OpenWithdraw, gatewayVars
  <2> QED BY <1>0, <2>1 DEF StageShape, PayoutKept
<1>2. CASE ProviderAccepts(id) \/ CommitWithdraw(id)
  BY <1>0, <1>2 DEF ProviderAccepts, CommitWithdraw, PayoutKept
<1>3. CASE HandlerThrows(id)
  BY <1>0, <1>3 DEF HandlerThrows, PayoutKept
<1>4. CASE SaveCharge(id) \/ IssueToken(id) \/ GatewayCallFails(id) \/ SaveToken(id)
           \/ SaveTokenUnacknowledged(id) \/ SaveFailed(id)
  <2>1. stage[id] \in {"tokened", "prepared", "linked", "failing"}
        /\ accepted' = accepted /\ dropped' = dropped
    BY <1>4 DEF SaveCharge, IssueToken, GatewayCallFails, SaveToken, SaveTokenUnacknowledged,
      SaveFailed, gatewayVars
  <2>2. tx[id].type # "WITHDRAWAL" /\ stage[id] # "accepted"
    BY <1>0, <2>1 DEF StageShape
  <2> QED BY <1>0, <2>1, <2>2 DEF PayoutKept
<1> QED BY <1>1, <1>2, <1>3, <1>4 DEF Proceed

\* No step of the service takes back what another system has done, but the
\* failure of the transaction that was to record it.
LEMMA KeptStep == Typed /\ PaidLinkHasRow /\ Told /\ Kept /\ [Next]_vars => Kept'
<1> SUFFICES ASSUME Typed, PaidLinkHasRow, Told, Kept, [Next]_vars,
                    NEW id \in Ids
             PROVE  CaptureKept(id)' /\ PayoutKept(id)'
  BY DEF Kept
<1>0. /\ tx \in [Ids -> TxRow] /\ stage \in [Ids -> Stages] /\ TypeOK
      /\ callbacks \in [Ids -> 0 .. MaxCallbacks] /\ MaxCallbacks \in Nat
      /\ CaptureKept(id) /\ PayoutKept(id)
      /\ id \in verified => stage[id] = "ended"
  BY BoundsAssumption, OutIsEnded DEF Typed, TypeOK, Kept, Shape, TokenShape, Out
<1>1. ASSUME NEW i \in Ids, Request(i) \/ Proceed(i) PROVE CaptureKept(id)' /\ PayoutKept(id)'
  <2>1. CASE i = id
    <3>1. PayoutKept(id)'
      BY <1>0, <1>1, <2>1, PayoutHandled
    <3>2. CaptureKept(id)'
      BY <1>0, <1>1, <2>1, HandlerStep DEF CaptureKept
    <3> QED BY <3>1, <3>2
  <2>2. CASE i # id
    <3>1. /\ tx'[id] = tx[id] /\ stage'[id] = stage[id] /\ dropped \subseteq dropped'
          /\ UNCHANGED <<verified, callbacks>>
      BY <1>1, <2>2, HandlerStep
    <3>2. id \in accepted' => id \in accepted
      BY <1>1, <2>2 DEF Request, ChargeRequestToken, PayBillFromWallet, PayBillByGateway,
        Transfer, OpenWithdraw, Proceed, SaveCharge, IssueToken, GatewayCallFails, SaveToken,
        SaveTokenUnacknowledged, SaveFailed, ProviderAccepts, CommitWithdraw, HandlerThrows,
        gatewayVars
    <3> QED BY <1>0, <3>1, <3>2 DEF CaptureKept, PayoutKept
  <2> QED BY <2>1, <2>2
<1>2. ASSUME tx'[id].type = tx[id].type, stage' = stage, accepted' = accepted,
             dropped \subseteq dropped',
             id \in verified' \ dropped' => tx'[id].status = "SUCCESS" \/ callbacks'[id] > 0
      PROVE  CaptureKept(id)' /\ PayoutKept(id)'
  BY <1>0, <1>2 DEF CaptureKept, PayoutKept
<1>3. CASE Rows
  <2>1. tx'[id].type = tx[id].type /\ tx'[id].status = tx[id].status
    BY <1>0, <1>3, BatchDeleted DEF Rows, CreateForUser, CreateBill
  <2>2. UNCHANGED <<stage, gatewayVars, callbacks>>
    BY <1>3 DEF Rows, CreateForUser, CreateBill, DeleteBill
  <2> QED BY <1>0, <1>2, <2>1, <2>2 DEF gatewayVars, CaptureKept
<1>4. CASE Crash
  BY <1>0, <1>4 DEF Crash, CaptureKept, PayoutKept
<1>5. ASSUME NEW i \in Ids, Pay(i) \/ Decline(i) \/ VerifyCallback(i)
      PROVE  CaptureKept(id)' /\ PayoutKept(id)'
  <2>1. UNCHANGED <<tx, stage, accepted, dropped>>
    BY <1>5 DEF Pay, Decline, VerifyCallback
  <2>2. id \in verified' \ dropped' => tx'[id].status = "SUCCESS" \/ callbacks'[id] > 0
    BY <1>0, <1>5, <2>1 DEF Pay, Decline, VerifyCallback, CaptureKept
  <2> QED BY <1>2, <2>1, <2>2
<1>6. ASSUME NEW i \in Ids, FailCallback(i) PROVE CaptureKept(id)' /\ PayoutKept(id)'
  <2>1. Rewritten(i) /\ tx'[i].status = "FAILED"
    BY <1>0, <1>6, StatusUpdated DEF FailCallback, Statuses
  <2>2. UNCHANGED <<stage, gatewayVars, callbacks>> /\ tx[i].status # "SUCCESS"
    BY <1>6 DEF FailCallback, Unsettled
  <2> QED BY <1>0, <1>2, <2>1, <2>2 DEF Rewritten, gatewayVars, CaptureKept
<1>7. ASSUME NEW i \in Ids, SettleCharge(i) \/ SettleBill(i)
      PROVE  CaptureKept(id)' /\ PayoutKept(id)'
  <2>1. Rewritten(i) /\ tx'[i].status = "SUCCESS"
    BY <1>0, <1>7, StatusUpdated DEF SettleCharge, SettleBill, Statuses
  <2>2. UNCHANGED <<stage, gatewayVars>> /\ callbacks' = [callbacks EXCEPT ![i] = @ - 1]
    BY <1>7 DEF SettleCharge, SettleBill, CallbackFinds
  <2> QED BY <1>0, <1>2, <2>1, <2>2 DEF Rewritten, gatewayVars, CaptureKept
<1>8. ASSUME NEW i \in Ids, AlreadyProcessed(i) PROVE CaptureKept(id)' /\ PayoutKept(id)'
  BY <1>0, <1>2, <1>8 DEF AlreadyProcessed, CallbackFinds, gatewayVars, CaptureKept
<1>9. ASSUME NEW i \in Ids, CallbackRolledBack(i) PROVE CaptureKept(id)' /\ PayoutKept(id)'
  BY <1>0, <1>2, <1>9 DEF CallbackRolledBack, CaptureKept
<1>10. CASE UNCHANGED vars
  BY <1>0, <1>2, <1>10 DEF vars, CaptureKept
<1> QED BY <1>1, <1>3, <1>4, <1>5, <1>6, <1>7, <1>8, <1>9, <1>10 DEF Next, Customer, Finalize

\* A capture or a payout is lost only with the transaction that should have
\* recorded it: never by the order of callbacks, declines and handlers.
THEOREM RemoteEffectsKept == Spec => []RemoteEffectsAreKept
<1>1. Init => Kept
  BY DEF Init, Kept, CaptureKept, PayoutKept
<1>2. Typed /\ PaidLinkHasRow /\ Kept => RemoteEffectsAreKept
  BY DEF Typed, TypeOK, Shape, TokenShape, PaidLinkHasRow, Kept, CaptureKept, PayoutKept,
    RemoteEffectsAreKept
<1> QED BY <1>1, <1>2, KeptStep, AlwaysTyped, LinksAreBacked, AlwaysTold, PTL DEF Spec
=============================================================================
