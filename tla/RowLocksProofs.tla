---------------------------- MODULE RowLocksProofs ----------------------------
(***************************************************************************)
(* For any number of users, bills and transactions, no transactions wait   *)
(* for each other in a circle of wallets and bills.                        *)
(***************************************************************************)
EXTENDS RowLocks, WellFoundedInduction, TLAPS

-----------------------------------------------------------------------------
(***************************************************************************)
(* The order in which rows of the ledger are locked.                       *)
(***************************************************************************)

\* Bills before wallets, each by their ids.
Rank(row) == IF row.table = "bill" THEN row.id ELSE MaxId + row.id

\* A program locks a row of the ledger either above all those it has locked,
\* or when it has locked it FOR UPDATE already.
Orderly(p) ==
  \A i \in DOMAIN p : \A l \in p[i].locks : l.row \in Ledger =>
    \/ \E j \in DOMAIN p : j < i /\ [row |-> l.row, mode |-> "update"] \in p[j].locks
    \/ \A j \in DOMAIN p : j <= i =>
         \A k \in p[j].locks : k.row \in Ledger /\ k # l => Rank(k.row) < Rank(l.row)

\* Ranks are numbers up to twice the largest id, and bills rank below wallets.
LEMMA LedgerRanks ==
  /\ \A b \in DOMAIN Bills : Rank(B(b)) = b /\ b \in 1 .. MaxId
  /\ \A u \in Users : Rank(W(u)) = MaxId + u /\ u \in 1 .. MaxId
  /\ \A row \in Ledger : Rank(row) \in 1 .. 2 * MaxId
<1>1. \A b \in DOMAIN Bills : Rank(B(b)) = b /\ b \in 1 .. MaxId
  BY IdsAssumption DEF Rank, B
<1>2. \A u \in Users : Rank(W(u)) = MaxId + u /\ u \in 1 .. MaxId
  BY IdsAssumption DEF Rank, W
<1>3. ASSUME NEW row \in Ledger
      PROVE  Rank(row) \in 1 .. 2 * MaxId
  <2>1. CASE \E b \in DOMAIN Bills : row = B(b)
    BY <1>1, <2>1, IdsAssumption
  <2>2. CASE \E u \in Users : row = W(u)
    BY <1>2, <2>2, IdsAssumption
  <2> QED BY <2>1, <2>2 DEF Ledger
<1> QED BY <1>1, <1>2, <1>3

\* The locks of each kind of statement.
LEMMA StatementLocks ==
  /\ \A row : Reads(row).locks = {[row |-> row, mode |-> "update"]}
  /\ \A row : Deletes(row).locks = {[row |-> row, mode |-> "update"]}
  /\ \A rows : Writes(rows).locks = {[row |-> r, mode |-> "change"] : r \in rows}
  /\ \A rows : Refers(rows).locks = {[row |-> r, mode |-> "keyshare"] : r \in rows}
BY DEF Reads, Deletes, Writes, Refers, ForUpdate, Change, KeyShare

\* The rows of users are outside the ledger.
LEMMA UsersAreOutside == \A u \in Users : U(u) \notin Ledger
BY DEF Ledger, U, W, B

\* So are its first n statements, if the program is orderly up to there.
OrderlyTo(p, n) ==
  \A i \in 1 .. n : \A l \in p[i].locks : l.row \in Ledger =>
    \/ \E j \in 1 .. n : j < i /\ [row |-> l.row, mode |-> "update"] \in p[j].locks
    \/ \A j \in 1 .. n : j <= i =>
         \A k \in p[j].locks : k.row \in Ledger /\ k # l => Rank(k.row) < Rank(l.row)

\* The others lock rows of the ledger that these have locked FOR UPDATE.
CoveredFrom(p, n, m) ==
  \A i \in 1 .. m : n < i => \A l \in p[i].locks : l.row \in Ledger =>
    \E j \in 1 .. n : [row |-> l.row, mode |-> "update"] \in p[j].locks

\* Both together make a program orderly.
LEMMA TailIsOrderly ==
  ASSUME NEW p, NEW n \in Nat, NEW m \in Nat, n <= m, DOMAIN p = 1 .. m,
         OrderlyTo(p, n), CoveredFrom(p, n, m)
  PROVE  Orderly(p)
<1>1. \A i \in 1 .. m : i \in 1 .. n \/ n < i
  OBVIOUS
<1>2. \A j \in 1 .. n : j \in 1 .. m
  OBVIOUS
<1>3. \A i \in 1 .. n, j \in 1 .. m : j <= i => j \in 1 .. n
  OBVIOUS
<1>4. \A i \in 1 .. m, j \in 1 .. n : n < i => j < i
  OBVIOUS
<1> QED BY <1>1, <1>2, <1>3, <1>4 DEF Orderly, OrderlyTo, CoveredFrom

\* A transfer locks two wallets in the order of their users.
LEMMA TransferIsOrderly ==
  ASSUME NEW u \in Users, NEW v \in Users, u # v
  PROVE  Orderly(Transfer(u, v))
<1> DEFINE pair == InOrder(u, v)
           p == Transfer(u, v)
<1>1. /\ pair[1] \in Users /\ pair[2] \in Users /\ pair[1] < pair[2]
      /\ u \in {pair[1], pair[2]} /\ v \in {pair[1], pair[2]}
  <2>1. \A w \in Users : w \in Int
    BY IdsAssumption
  <2>2. u < v \/ v < u
    BY <2>1
  <2> QED BY <2>1, <2>2 DEF InOrder
<1>2. DOMAIN p = 1 .. 4
  BY DEF Transfer
<1>3. /\ p[1].locks = {[row |-> W(pair[1]), mode |-> "update"]}
      /\ p[2].locks = {[row |-> W(pair[2]), mode |-> "update"]}
      /\ \A l \in p[3].locks \cup p[4].locks : l.row \in {W(u), W(v), U(u), U(v)}
  <2>1. /\ p[1] = Reads(W(pair[1])) /\ p[2] = Reads(W(pair[2]))
        /\ p[3] = Writes({W(u), W(v)}) /\ p[4] = Refers({W(u), W(v), U(u), U(v)})
    BY DEF Transfer
  <2> HIDE DEF p
  <2> QED BY <2>1, StatementLocks
<1> HIDE DEF p, pair
<1>4. Rank(W(pair[1])) < Rank(W(pair[2]))
  BY <1>1, LedgerRanks, IdsAssumption
<1>5. ASSUME NEW i \in 1 .. 2, NEW l \in p[i].locks, l.row \in Ledger
      PROVE  \/ \E j \in 1 .. 2 : j < i /\ [row |-> l.row, mode |-> "update"] \in p[j].locks
             \/ \A j \in 1 .. 2 : j <= i =>
                  \A k \in p[j].locks : k.row \in Ledger /\ k # l => Rank(k.row) < Rank(l.row)
  <2>1. CASE i = 1
    BY <1>3, <1>5, <2>1
  <2>2. CASE i = 2
    BY <1>3, <1>4, <1>5, <2>2
  <2> QED BY <2>1, <2>2
<1>6. ASSUME NEW i \in 1 .. 4, 2 < i, NEW l \in p[i].locks, l.row \in Ledger
      PROVE  \E j \in 1 .. 2 : [row |-> l.row, mode |-> "update"] \in p[j].locks
  <2>1. i = 3 \/ i = 4
    BY <1>6
  <2>2. l.row \in {W(u), W(v), U(u), U(v)}
    BY <1>3, <1>6, <2>1
  <2>3. l.row \in {W(pair[1]), W(pair[2])}
    BY <1>1, <1>6, <2>2, UsersAreOutside
  <2> QED BY <1>3, <2>3
<1>10. OrderlyTo(p, 2)
  BY <1>5 DEF OrderlyTo
<1>11. CoveredFrom(p, 2, 4)
  BY <1>6 DEF CoveredFrom
<1>12. 2 \in Nat /\ 4 \in Nat /\ 2 <= 4
  OBVIOUS
<1> QED BY <1>2, <1>10, <1>11, <1>12, TailIsOrderly, Zenon DEF p

\* A withdrawal locks one wallet.
LEMMA WithdrawIsOrderly ==
  ASSUME NEW u \in Users
  PROVE  Orderly(Withdraw(u))
<1> DEFINE p == Withdraw(u)
<1>1. DOMAIN p = 1 .. 4
  BY DEF Withdraw
<1>2. /\ p[1].locks = {[row |-> U(u), mode |-> "update"]}
      /\ p[2].locks = {[row |-> W(u), mode |-> "update"]}
      /\ \A l \in p[3].locks \cup p[4].locks : l.row \in {W(u), U(u)}
  <2>1. p[1] = Reads(U(u)) /\ p[2] = Reads(W(u)) /\ p[3] = Writes({W(u)}) /\ p[4] = Refers({W(u), U(u)})
    BY DEF Withdraw
  <2> HIDE DEF p
  <2> QED BY <2>1, StatementLocks
<1> HIDE DEF p
<1>3. ASSUME NEW i \in 1 .. 2, NEW l \in p[i].locks, l.row \in Ledger
      PROVE  \/ \E j \in 1 .. 2 : j < i /\ [row |-> l.row, mode |-> "update"] \in p[j].locks
             \/ \A j \in 1 .. 2 : j <= i =>
                  \A k \in p[j].locks : k.row \in Ledger /\ k # l => Rank(k.row) < Rank(l.row)
  BY <1>2, <1>3, UsersAreOutside
<1>4. ASSUME NEW i \in 1 .. 4, 2 < i, NEW l \in p[i].locks, l.row \in Ledger
      PROVE  \E j \in 1 .. 2 : [row |-> l.row, mode |-> "update"] \in p[j].locks
  <2>1. i = 3 \/ i = 4
    BY <1>4
  <2> QED BY <1>2, <1>4, <2>1, UsersAreOutside
<1>10. OrderlyTo(p, 2)
  BY <1>3 DEF OrderlyTo
<1>11. CoveredFrom(p, 2, 4)
  BY <1>4 DEF CoveredFrom
<1>12. 2 \in Nat /\ 4 \in Nat /\ 2 <= 4
  OBVIOUS
<1> QED BY <1>1, <1>10, <1>11, <1>12, TailIsOrderly, Zenon DEF p

\* So does a top-up when its row is inserted.
LEMMA ChargeIsOrderly ==
  ASSUME NEW u \in Users
  PROVE  Orderly(Charge(u))
BY IdsAssumption DEF Orderly, Charge, Refers, KeyShare, Rank, Ledger, B, W, U

\* The callback of a top-up locks one wallet too.
LEMMA SettleChargeIsOrderly ==
  ASSUME NEW p \in DOMAIN Payments
  PROVE  Orderly(SettleCharge(p))
BY IdsAssumption, RowsAssumption DEF Orderly, SettleCharge,
    Reads, Writes, ForUpdate, Change, Rank, Ledger, B, W, P

\* A bill's payer locks the bill, then the two wallets in order, whatever of them
\* is saved.
LEMMA PayBillIsOrderly ==
  ASSUME NEW b \in DOMAIN Bills, NEW saved \in {{}, PaidFromWallet(b)}
  PROVE  Orderly(PayBill(b, saved))
<1> DEFINE payer == Bills[b].debtor
           payee == Bills[b].creditor
           pair == InOrder(payer, payee)
           p == PayBill(b, saved)
<1>1. payer \in Users /\ payee \in Users
  BY RowsAssumption
<1>2. /\ pair[1] \in Users /\ pair[2] \in Users /\ pair[1] <= pair[2]
      /\ payer \in {pair[1], pair[2]} /\ payee \in {pair[1], pair[2]}
  <2>1. CASE payer <= payee
    <3>1. pair[1] = payer /\ pair[2] = payee
      BY <2>1 DEF InOrder
    <3> QED BY <1>1, <2>1, <3>1
  <2>2. CASE ~(payer <= payee)
    <3>1. pair[1] = payee /\ pair[2] = payer
      BY <2>2 DEF InOrder
    <3> HIDE DEF pair
    <3>2. payer \in Int /\ payee \in Int
      <4>1. \A u \in Users : u \in Int
        BY IdsAssumption
      <4> QED BY <1>1, <4>1
    <3> QED BY <1>1, <2>2, <3>1, <3>2
  <2> QED BY <2>1, <2>2
<1>3. DOMAIN p = 1 .. 7
  BY DEF PayBill
<1>4. /\ p[1].locks = {[row |-> B(b), mode |-> "update"]}
      /\ p[2].locks = {[row |-> U(payee), mode |-> "update"]}
      /\ p[3].locks = {[row |-> U(payer), mode |-> "update"]}
      /\ p[4].locks = {[row |-> W(pair[1]), mode |-> "update"]}
      /\ p[5].locks = {[row |-> W(pair[2]), mode |-> "update"]}
      /\ \A l \in p[6].locks : l.row \in {W(payer), W(payee), B(b)}
      /\ \A l \in p[7].locks : l.row \in {W(payer), W(payee), U(payer), U(payee), B(b)}
  <2>1. /\ p[1] = Reads(B(b)) /\ p[2] = Reads(U(payee)) /\ p[3] = Reads(U(payer))
        /\ p[4] = Reads(W(pair[1])) /\ p[5] = Reads(W(pair[2]))
        /\ p[6] = Writes(saved) /\ p[7] = Refers({W(payer), W(payee), U(payer), U(payee), B(b)})
    BY DEF PayBill
  <2> HIDE DEF p
  <2>2. saved \subseteq {W(payer), W(payee), B(b)}
    BY DEF PaidFromWallet
  <2> QED BY <2>1, <2>2, StatementLocks
<1> HIDE DEF p, pair
<1>5. /\ \A u \in Users : U(u) \notin Ledger
      /\ \A x \in p[2].locks \cup p[3].locks : x.row \notin Ledger
  <2>1. \A u \in Users : U(u) \notin Ledger
    BY DEF Ledger, U, W, B
  <2> QED BY <1>1, <1>4, <2>1
<1>6. Rank(B(b)) = b /\ b \in 1 .. MaxId
  BY LedgerRanks
<1>7. /\ Rank(W(pair[1])) = MaxId + pair[1] /\ pair[1] \in 1 .. MaxId
      /\ Rank(W(pair[2])) = MaxId + pair[2] /\ pair[2] \in 1 .. MaxId
  BY <1>2, LedgerRanks
<1>8. ASSUME NEW i \in 1 .. 5, NEW l \in p[i].locks, l.row \in Ledger
      PROVE  \/ \E j \in 1 .. 5 : j < i /\ [row |-> l.row, mode |-> "update"] \in p[j].locks
             \/ \A j \in 1 .. 5 : j <= i =>
                  \A k \in p[j].locks : k.row \in Ledger /\ k # l => Rank(k.row) < Rank(l.row)
  <2>1. i = 1 \/ i = 4 \/ i = 5
    BY <1>5, <1>8
  <2>2. CASE i = 1
    BY <1>4, <1>8, <2>2
  <2>3. CASE i = 4
    <3>1. ASSUME NEW j \in 1 .. 5, j <= i, NEW k \in p[j].locks, k.row \in Ledger, k # l
          PROVE  k.row = B(b)
      BY <1>4, <1>5, <1>8, <2>3, <3>1
    <3>2. l.row = W(pair[1])
      BY <1>4, <1>8, <2>3
    <3> QED BY <1>6, <1>7, <3>1, <3>2, IdsAssumption
  <2>4. CASE i = 5
    <3>1. l.row = W(pair[2])
      BY <1>4, <1>8, <2>4
    <3>2. CASE pair[1] = pair[2]
      BY <1>4, <2>4, <3>1, <3>2
    <3>3. CASE pair[1] # pair[2]
      <4>1. ASSUME NEW j \in 1 .. 5, j <= i, NEW k \in p[j].locks, k.row \in Ledger, k # l
            PROVE  k.row = B(b) \/ k.row = W(pair[1])
        BY <1>4, <1>5, <1>8, <2>4, <4>1
      <4>2. pair[1] < pair[2]
        BY <1>2, <1>7, <3>3, IdsAssumption
      <4> QED BY <1>6, <1>7, <3>1, <4>1, <4>2, IdsAssumption
    <3> QED BY <3>2, <3>3
  <2> QED BY <2>1, <2>2, <2>3, <2>4
<1>9. ASSUME NEW i \in 1 .. 7, 5 < i, NEW l \in p[i].locks, l.row \in Ledger
      PROVE  \E j \in 1 .. 5 : [row |-> l.row, mode |-> "update"] \in p[j].locks
  <2>1. i = 6 \/ i = 7
    BY <1>9
  <2>2. l.row \in {W(payer), W(payee), U(payer), U(payee), B(b)}
    BY <1>4, <1>9, <2>1
  <2>3. l.row \in {W(pair[1]), W(pair[2]), B(b)}
    <3>1. l.row \in {W(payer), W(payee), B(b)}
      BY <1>1, <1>5, <1>9, <2>2
    <3> QED BY <1>2, <3>1
  <2> QED BY <1>4, <2>3
<1>10. OrderlyTo(p, 5)
  BY <1>8 DEF OrderlyTo
<1>11. CoveredFrom(p, 5, 7)
  BY <1>9 DEF CoveredFrom
<1>12. 5 \in Nat /\ 7 \in Nat /\ 5 <= 7
  OBVIOUS
<1> QED BY <1>3, <1>10, <1>11, <1>12, TailIsOrderly, Zenon DEF p

\* The callback of a bill's payment locks the bill, then one wallet.
LEMMA SettleBillIsOrderly ==
  ASSUME NEW p \in DOMAIN Payments, NEW b \in DOMAIN Bills
  PROVE  Orderly(SettleBill(p, b))
<1> DEFINE payee == Bills[b].creditor
           others == {U(payee), U(Bills[b].debtor), U(Payments[p].payer), P(p)}
           q == SettleBill(p, b)
<1>1. {payee, Bills[b].debtor, Payments[p].payer} \subseteq Users
  BY RowsAssumption
<1>2. DOMAIN q = 1 .. 7
  BY DEF SettleBill
<1>3. /\ q[2].locks = {[row |-> B(b), mode |-> "update"]}
      /\ q[5].locks = {[row |-> W(payee), mode |-> "update"]}
      /\ \A l \in q[1].locks \cup q[3].locks \cup q[4].locks : l.row \in others
      /\ \A l \in q[6].locks \cup q[7].locks : l.row \in others \cup {W(payee), B(b)}
  <2>1. /\ q[1] = Reads(P(p)) /\ q[2] = Reads(B(b)) /\ q[3] = Reads(U(payee))
        /\ q[4] = Reads(U(Bills[b].debtor)) /\ q[5] = Reads(W(payee))
        /\ q[6] = Writes({W(payee), B(b), P(p)})
        /\ q[7] = Refers({W(payee), U(Payments[p].payer), U(payee), B(b)})
    BY DEF SettleBill
  <2> HIDE DEF q
  <2> QED BY <2>1, StatementLocks
<1>4. others \cap Ledger = {}
  <2>1. P(p) \notin Ledger
    BY DEF P, Ledger, W, B
  <2> QED BY <1>1, <2>1, UsersAreOutside
<1>5. Rank(B(b)) < Rank(W(payee))
  <2>1. Rank(B(b)) = b /\ b \in 1 .. MaxId
    BY LedgerRanks
  <2>2. Rank(W(payee)) = MaxId + payee /\ payee \in 1 .. MaxId
    BY <1>1, LedgerRanks
  <2> QED BY <2>1, <2>2, IdsAssumption
<1> HIDE DEF q, others
<1>6. ASSUME NEW i \in 1 .. 5, NEW l \in q[i].locks, l.row \in Ledger
      PROVE  \/ \E j \in 1 .. 5 : j < i /\ [row |-> l.row, mode |-> "update"] \in q[j].locks
             \/ \A j \in 1 .. 5 : j <= i =>
                  \A k \in q[j].locks : k.row \in Ledger /\ k # l => Rank(k.row) < Rank(l.row)
  <2>1. i = 2 \/ i = 5
    BY <1>3, <1>4, <1>6
  <2>2. CASE i = 2
    BY <1>3, <1>4, <1>6, <2>2
  <2>3. CASE i = 5
    <3>1. ASSUME NEW j \in 1 .. 5, NEW k \in q[j].locks, k.row \in Ledger, k # l
          PROVE  k.row = B(b)
      BY <1>3, <1>4, <1>6, <2>3, <3>1
    <3> QED BY <1>3, <1>5, <1>6, <2>3, <3>1
  <2> QED BY <2>1, <2>2, <2>3
<1>7. ASSUME NEW i \in 1 .. 7, 5 < i, NEW l \in q[i].locks, l.row \in Ledger
      PROVE  \E j \in 1 .. 5 : [row |-> l.row, mode |-> "update"] \in q[j].locks
  <2>1. i = 6 \/ i = 7
    BY <1>7
  <2> QED BY <1>3, <1>4, <1>7, <2>1
<1>10. OrderlyTo(q, 5)
  BY <1>6 DEF OrderlyTo
<1>11. CoveredFrom(q, 5, 7)
  BY <1>7 DEF CoveredFrom
<1>12. 5 \in Nat /\ 7 \in Nat /\ 5 <= 7
  OBVIOUS
<1> QED BY <1>2, <1>10, <1>11, <1>12, TailIsOrderly, Zenon DEF q

\* The others lock no row of the ledger, a deletion excepted.
LEMMA OthersAreOrderly ==
  /\ \A u, v \in Users : Orderly(CreateBill(u, v))
  /\ \A p \in DOMAIN Payments : Orderly(SavePayment(p)) /\ Orderly(FailPayment(p))
<1>1. ASSUME NEW u \in Users, NEW v \in Users
      PROVE  Orderly(CreateBill(u, v))
  <2>1. \A i \in DOMAIN CreateBill(u, v) : \A l \in CreateBill(u, v)[i].locks : l.row \notin Ledger
    BY DEF CreateBill, Refers, KeyShare, Ledger, B, W, U
  <2> QED BY <2>1 DEF Orderly
<1>2. ASSUME NEW p \in DOMAIN Payments
      PROVE  Orderly(SavePayment(p)) /\ Orderly(FailPayment(p))
  <2>1. \A i \in DOMAIN SavePayment(p) : \A l \in SavePayment(p)[i].locks : l.row \notin Ledger
    BY DEF SavePayment, Writes, Change, Ledger, B, W, P
  <2>2. \A i \in DOMAIN FailPayment(p) : \A l \in FailPayment(p)[i].locks : l.row \notin Ledger
    BY DEF FailPayment, Reads, Writes, ForUpdate, Change, Ledger, B, W, P
  <2> QED BY <2>1, <2>2 DEF Orderly
<1> QED BY <1>1, <1>2

\* A deletion locks the bills of a batch in the order of the scan.
LEMMA DeleteBillIsOrderly ==
  ASSUME NEW ref \in DOMAIN Batches
  PROVE  Orderly(DeleteBill(ref))
<1> DEFINE batch == Batches[ref]
           p == DeleteBill(ref)
<1>1. batch \in Seq(DOMAIN Bills) /\ \A i, j \in DOMAIN batch : i < j => batch[i] < batch[j]
  BY BatchesAssumption
<1>2. Len(batch) \in Nat /\ DOMAIN batch = 1 .. Len(batch) /\ DOMAIN p = 1 .. Len(batch) + 1
  BY <1>1 DEF DeleteBill
<1>3. \A i \in 1 .. Len(batch) : p[i] = Deletes(B(batch[i])) /\ batch[i] \in DOMAIN Bills
  BY <1>1, <1>2 DEF DeleteBill
<1>4. \A l \in p[Len(batch) + 1].locks : l.row \notin Ledger
  BY <1>2 DEF DeleteBill, Writes, Change, Ledger, B, W, P
<1>5. SUFFICES ASSUME NEW i \in DOMAIN p, NEW l \in p[i].locks, l.row \in Ledger,
                      NEW j \in DOMAIN p, j <= i, NEW k \in p[j].locks, k.row \in Ledger, k # l
               PROVE  Rank(k.row) < Rank(l.row)
  BY DEF Orderly
<1>6. i \in 1 .. Len(batch) /\ j \in 1 .. Len(batch)
  BY <1>2, <1>4, <1>5
<1>7. l.row = B(batch[i]) /\ k.row = B(batch[j]) /\ i # j
  BY <1>3, <1>5, <1>6, StatementLocks
<1>8. batch[j] < batch[i]
  BY <1>1, <1>2, <1>5, <1>6, <1>7
<1> QED BY <1>3, <1>6, <1>7, <1>8, LedgerRanks

\* Every transaction locks rows of the ledger in order.
LEMMA ProgramsAreOrderly == \A p \in Programs : Orderly(p)
BY TransferIsOrderly, WithdrawIsOrderly, ChargeIsOrderly, SettleChargeIsOrderly,
   PayBillIsOrderly, SettleBillIsOrderly, OthersAreOrderly, DeleteBillIsOrderly
   DEF Programs

\* A program has its statements numbered from 1.
LEMMA ProgramsAreNumbered ==
  \A p \in Programs \cup {<<>>} : DOMAIN p \subseteq Nat \ {0}
<1>1. \A ref \in DOMAIN Batches : DOMAIN DeleteBill(ref) \subseteq Nat \ {0}
  BY BatchesAssumption DEF DeleteBill
<1> QED
  BY <1>1 DEF Programs, Transfer, Withdraw, PayBill, Charge, SavePayment, FailPayment,
              SettleCharge, SettleBill, CreateBill

-----------------------------------------------------------------------------
(***************************************************************************)
(* What transactions hold.                                                 *)
(***************************************************************************)

\* The variables are functions on the transactions.
Shape ==
  /\ program \in [Txs -> Programs \cup {<<>>}]
  /\ at \in [Txs -> Nat \ {0}]
  /\ DOMAIN held = Txs /\ held = [t \in Txs |-> held[t]]
  /\ DOMAIN phase = Txs /\ phase = [t \in Txs |-> phase[t]]

\* A transaction holds the locks of the statements it has finished, and some of
\* the one it is executing; one that has not begun holds none.
HeldByProgram ==
  \A t \in Txs :
    /\ \A k \in held[t] : \E j \in DOMAIN program[t] : j <= at[t] /\ k \in program[t][j].locks
    /\ \A j \in DOMAIN program[t] : j < at[t] => program[t][j].locks \subseteq held[t]
    /\ phase[t] = "idle" => program[t] = <<>> /\ at[t] = 1 /\ held[t] = {}

\* No two transactions hold conflicting locks.
Exclusive ==
  \A s, t \in Txs : s # t => \A l \in held[s], k \in held[t] : ~Conflict(l, k)

LockInv == Shape /\ HeldByProgram /\ Exclusive

\* No transaction has begun at first.
LEMMA LockInit == Init => LockInv
BY DEF Init, LockInv, Shape, HeldByProgram, Exclusive

\* Each step of a transaction keeps what the others hold.
LEMMA LockStep == LockInv /\ [Next]_vars => LockInv'
<1> SUFFICES ASSUME LockInv, [Next]_vars
             PROVE  LockInv'
  OBVIOUS
<1> USE DEF LockInv
<1>0. \A t \in Txs : DOMAIN program[t] \subseteq Nat \ {0} /\ at[t] \in Nat \ {0}
  BY ProgramsAreNumbered DEF Shape
<1>1. ASSUME NEW t \in Txs, Open(t)
      PROVE  LockInv'
  <2>1. PICK p \in Programs : program' = [program EXCEPT ![t] = p]
    BY <1>1 DEF Open
  <2>2. at[t] = 1 /\ held[t] = {} /\ DOMAIN p \subseteq Nat \ {0}
    BY <1>1, ProgramsAreNumbered DEF Open, HeldByProgram
  <2>3. Shape'
    BY <1>1, <2>1 DEF Open, Shape
  <2>4. HeldByProgram'
    BY <1>1, <2>1, <2>2 DEF Open, Shape, HeldByProgram
  <2>5. Exclusive'
    BY <1>1 DEF Open, Exclusive, Conflict
  <2> QED BY <2>3, <2>4, <2>5
<1>2. ASSUME NEW t \in Txs, NEW l \in Wanted(t), Take(t, l)
      PROVE  LockInv'
  <2>1. at[t] \in DOMAIN program[t] /\ l \in program[t][at[t]].locks /\ phase[t] # "idle"
    <3>1. at[t] \in DOMAIN program[t] /\ l \in program[t][at[t]].locks
      BY DEF Wanted
    <3> QED BY <3>1 DEF HeldByProgram, Shape
  <2>2. /\ held'[t] = held[t] \cup {l}
        /\ \A s \in Txs \ {t} : held'[s] = held[s]
    BY <1>2 DEF Take, Shape
  <2>3. Shape'
    BY <1>2 DEF Take, Shape
  <2>4. HeldByProgram'
    BY <1>0, <1>2, <2>1, <2>2 DEF Take, HeldByProgram
  <2>5. \A s \in Txs \ {t} : \A k \in held[s] : ~Conflict(l, k) /\ ~Conflict(k, l)
    BY <1>2 DEF Take, Conflict
  <2>6. Exclusive'
    BY <2>2, <2>5 DEF Exclusive, Conflict
  <2> QED BY <2>3, <2>4, <2>6
<1>3. ASSUME NEW t \in Txs, FinishStatement(t)
      PROVE  LockInv'
  <2>1. /\ at'[t] = at[t] + 1
        /\ \A s \in Txs \ {t} : at'[s] = at[s]
        /\ held' = held /\ program' = program /\ phase' = phase
    BY <1>3 DEF FinishStatement, Shape
  <2>2. Shape'
    BY <1>3 DEF FinishStatement, Shape
  <2>3. program[t][at[t]].locks \subseteq held[t]
    BY <1>3 DEF FinishStatement, Wanted
  <2>4. phase[t] # "idle"
    BY <1>3 DEF FinishStatement, HeldByProgram
  <2>5. HeldByProgram'
    BY <1>0, <2>1, <2>3, <2>4 DEF HeldByProgram
  <2>6. Exclusive'
    BY <2>1 DEF Exclusive, Conflict
  <2> QED BY <2>2, <2>5, <2>6
<1>4. ASSUME NEW t \in Txs, Close(t)
      PROVE  LockInv'
  <2>1. /\ held'[t] = {} /\ program'[t] = <<>> /\ at'[t] = 1
        /\ \A s \in Txs \ {t} : /\ held'[s] = held[s] /\ program'[s] = program[s]
                                /\ at'[s] = at[s] /\ phase'[s] = phase[s]
    BY <1>4 DEF Close, Shape
  <2>2. Shape'
    <3>1. program' = [program EXCEPT ![t] = <<>>] /\ at' = [at EXCEPT ![t] = 1]
      BY <1>4 DEF Close
    <3>2. program' \in [Txs -> Programs \cup {<<>>}] /\ at' \in [Txs -> Nat \ {0}]
      BY <3>1 DEF Shape
    <3>3. /\ DOMAIN held' = Txs /\ held' = [s \in Txs |-> held'[s]]
          /\ DOMAIN phase' = Txs /\ phase' = [s \in Txs |-> phase'[s]]
      BY <1>4 DEF Close, Shape
    <3> QED BY <3>2, <3>3 DEF Shape
  <2>3. HeldByProgram'
    BY <2>1 DEF HeldByProgram
  <2>4. Exclusive'
    BY <2>1 DEF Exclusive, Conflict
  <2> QED BY <2>2, <2>3, <2>4
<1>5. CASE UNCHANGED vars
  BY <1>5 DEF vars, Shape, HeldByProgram, Exclusive, Conflict
<1> QED BY <1>1, <1>2, <1>3, <1>4, <1>5 DEF Next, Commit, RollBack

\* A set of numbers below a bound has a largest one.
LEMMA LargestNumber ==
  ASSUME NEW S \in SUBSET Nat, S # {}, NEW m \in Nat, \A x \in S : x <= m
  PROVE  \E x \in S : \A y \in S : y <= x
<1> DEFINE T == {m - x : x \in S}
<1>1. T \subseteq Nat /\ T # {}
  <2>1. \A x \in S : m - x \in Nat
    OBVIOUS
  <2> QED BY <2>1
<1>2. \E x \in T : \A y \in T : <<y, x>> \notin OpToRel(<, Nat)
  <2> HIDE DEF T
  <2> QED BY <1>1, NatLessThanWellFounded, WFMin
<1>3. PICK z \in T : \A y \in T : ~(y < z)
  BY <1>1, <1>2 DEF OpToRel
<1>4. PICK x \in S : z = m - x
  OBVIOUS
<1>5. ASSUME NEW y \in S
      PROVE  y <= x
  <2>1. m - y \in T /\ x \in Nat /\ y \in Nat
    OBVIOUS
  <2>2. ~(m - y < m - x)
    BY <1>3, <1>4, <2>1
  <2> QED BY <2>1, <2>2
<1> QED BY <1>4, <1>5

-----------------------------------------------------------------------------
(***************************************************************************)
(* Who waits for a row of the ledger holds only rows below it.             *)
(***************************************************************************)

\* The lock a blocked transaction wants is not covered by one it has.
LEMMA BlockedHoldsLower ==
  ASSUME LockInv, NEW s \in Txs, NEW t \in Txs, NEW row \in Ledger, Blocks(s, t, row),
         NEW k \in held[t], k.row \in Ledger
  PROVE  Rank(k.row) < Rank(row)
<1> USE DEF LockInv
<1>1. PICK l \in Wanted(t), h \in held[s] : l.row = row /\ Conflict(l, h)
  BY DEF Blocks
<1>2. at[t] \in DOMAIN program[t] /\ l \in program[t][at[t]].locks /\ l \notin held[t]
  BY <1>1 DEF Wanted
<1>3. Orderly(program[t])
  <2>1. program[t] \in Programs
    BY <1>2 DEF Shape
  <2> QED BY <2>1, ProgramsAreOrderly
<1>4. ~ \E j \in DOMAIN program[t] :
          j < at[t] /\ [row |-> row, mode |-> "update"] \in program[t][j].locks
  <2>1. SUFFICES ASSUME [row |-> row, mode |-> "update"] \in held[t]
                 PROVE  FALSE
    BY DEF HeldByProgram
  <2>2. ~Conflict([row |-> row, mode |-> "update"], h)
    BY <1>1, <2>1 DEF Exclusive, Blocks
  <2> QED BY <1>1, <2>2 DEF Conflict
<1>5. PICK j \in DOMAIN program[t] : j <= at[t] /\ k \in program[t][j].locks
  BY DEF HeldByProgram
<1> QED BY <1>1, <1>2, <1>3, <1>4, <1>5 DEF Orderly

\* In a circle, the row with the highest rank that is waited for would be held
\* by someone who waits for a higher one.
LEMMA NoCircle ==
  ASSUME LockInv, NEW ts \in SUBSET Txs, Circle(ts, Ledger)
  PROVE  FALSE
<1> DEFINE S == {Rank(row) : row \in {r \in Ledger : \E s, t \in ts : Blocks(s, t, r)}}
<1>1. \A t \in ts : \E s \in ts, row \in Ledger : Blocks(s, t, row)
  BY DEF Circle
<1>2. S \in SUBSET Nat /\ S # {} /\ \A x \in S : x <= 2 * MaxId
  BY <1>1, LedgerRanks, IdsAssumption DEF Circle
<1>3. PICK x \in S : \A y \in S : y <= x
  <2> HIDE DEF S
  <2>1. 2 * MaxId \in Nat
    BY IdsAssumption
  <2> DEFINE m == 2 * MaxId
  <2> HIDE DEF m
  <2>2. m \in Nat /\ \A y \in S : y <= m
    BY <1>2, <2>1 DEF m
  <2> QED BY <1>2, <2>2, LargestNumber
<1>4. PICK row \in Ledger, s \in ts, t \in ts : x = Rank(row) /\ Blocks(s, t, row)
  OBVIOUS
<1>5. PICK k \in held[s] : k.row = row
  BY <1>4 DEF Blocks, Conflict
<1>6. PICK r \in ts, higher \in Ledger : Blocks(r, s, higher)
  BY <1>1, <1>4
<1>7. Rank(row) < Rank(higher)
  BY <1>4, <1>5, <1>6, BlockedHoldsLower
<1>8. Rank(higher) \in S
  BY <1>6
<1> QED BY <1>3, <1>4, <1>7, <1>8, LedgerRanks

\* However many handlers run, none of them wait for each other in a circle of
\* wallets and bills.
THEOREM LedgerNeverDeadlocks == Spec => []NoLedgerDeadlock
<1>1. LockInv => NoLedgerDeadlock
  BY NoCircle DEF NoLedgerDeadlock
<1> QED BY LockInit, LockStep, <1>1, PTL DEF Spec

-----------------------------------------------------------------------------
(***************************************************************************)
(* Transactions are single steps of the ledger.                            *)
(***************************************************************************)

\* A statement locks what it reads and writes.
Guards(statement) ==
  /\ \A row \in statement.read : [row |-> row, mode |-> "update"] \in statement.locks
  /\ \A row \in statement.written :
       \E mode \in {"update", "change"} : [row |-> row, mode |-> mode] \in statement.locks

\* A program's statements do, and write rows of the ledger that have been read.
Guarded(p) ==
  /\ \A i \in DOMAIN p : Guards(p[i])
  /\ \A i \in DOMAIN p : \A row \in p[i].written \cap Ledger :
       \E j \in DOMAIN p : j <= i /\ row \in p[j].read

\* What the statements read and write, and that they guard it.
LEMMA StatementGuards ==
  /\ \A row : /\ Guards(Reads(row)) /\ row \in Reads(row).read /\ Reads(row).written = {}
              /\ Guards(Deletes(row)) /\ row \in Deletes(row).read /\ Deletes(row).written = {row}
  /\ \A rows : /\ Guards(Writes(rows)) /\ Writes(rows).written = rows
               /\ Guards(Refers(rows)) /\ Refers(rows).written = {}
BY DEF Guards, Reads, Deletes, Writes, Refers, ForUpdate, Change, KeyShare

\* Payments are no rows of the ledger.
LEMMA PaymentsAreOutside == \A p \in DOMAIN Payments : P(p) \notin Ledger
BY DEF P, Ledger, W, B

\* A transfer and a withdrawal write the wallets they have read.
LEMMA TransferIsGuarded ==
  ASSUME NEW u \in Users, NEW v \in Users
  PROVE  Guarded(Transfer(u, v)) /\ Guarded(Withdraw(u))
<1>1. Guarded(Transfer(u, v))
  <2> DEFINE pair == InOrder(u, v)
             p == Transfer(u, v)
  <2>1. /\ DOMAIN p = 1 .. 4
        /\ p[1] = Reads(W(pair[1])) /\ p[2] = Reads(W(pair[2]))
        /\ p[3] = Writes({W(u), W(v)}) /\ p[4] = Refers({W(u), W(v), U(u), U(v)})
    BY DEF Transfer
  <2>2. u \in {pair[1], pair[2]} /\ v \in {pair[1], pair[2]}
    BY DEF InOrder
  <2> HIDE DEF p, pair
  <2>3. \A i \in 1 .. 4 : i = 1 \/ i = 2 \/ i = 3 \/ i = 4
    OBVIOUS
  <2>4. \A i \in 1 .. 4 : Guards(p[i])
    BY <2>1, <2>3, StatementGuards
  <2>5. ASSUME NEW i \in 1 .. 4, NEW row \in p[i].written
        PROVE  \E j \in 1 .. 4 : j <= i /\ row \in p[j].read
    <3>1. i = 3 /\ row \in {W(u), W(v)}
      BY <2>1, <2>3, <2>5, StatementGuards
    <3>2. row = W(pair[1]) \/ row = W(pair[2])
      BY <2>2, <3>1
    <3> QED BY <2>1, <3>1, <3>2, StatementGuards
  <2> QED BY <2>1, <2>4, <2>5 DEF Guarded, p
<1>2. Guarded(Withdraw(u))
  <2> DEFINE p == Withdraw(u)
  <2>1. /\ DOMAIN p = 1 .. 4
        /\ p[1] = Reads(U(u)) /\ p[2] = Reads(W(u)) /\ p[3] = Writes({W(u)})
        /\ p[4] = Refers({W(u), U(u)})
    BY DEF Withdraw
  <2> HIDE DEF p
  <2>2. \A i \in 1 .. 4 : i = 1 \/ i = 2 \/ i = 3 \/ i = 4
    OBVIOUS
  <2>3. \A i \in 1 .. 4 : Guards(p[i])
    BY <2>1, <2>2, StatementGuards
  <2>4. ASSUME NEW i \in 1 .. 4, NEW row \in p[i].written
        PROVE  \E j \in 1 .. 4 : j <= i /\ row \in p[j].read
    <3>1. i = 3 /\ row = W(u)
      BY <2>1, <2>2, <2>4, StatementGuards
    <3> QED BY <2>1, <3>1, StatementGuards
  <2> QED BY <2>1, <2>3, <2>4 DEF Guarded, p
<1> QED BY <1>1, <1>2

\* A payment of a bill writes the bill and the wallets it has read, or nothing.
LEMMA PayBillIsGuarded ==
  ASSUME NEW b \in DOMAIN Bills, NEW saved \in {{}, PaidFromWallet(b)}
  PROVE  Guarded(PayBill(b, saved))
<1> DEFINE payer == Bills[b].debtor
           payee == Bills[b].creditor
           pair == InOrder(payer, payee)
           p == PayBill(b, saved)
<1>1. /\ DOMAIN p = 1 .. 7
      /\ p[1] = Reads(B(b)) /\ p[2] = Reads(U(payee)) /\ p[3] = Reads(U(payer))
      /\ p[4] = Reads(W(pair[1])) /\ p[5] = Reads(W(pair[2])) /\ p[6] = Writes(saved)
      /\ p[7] = Refers({W(payer), W(payee), U(payer), U(payee), B(b)})
  BY DEF PayBill
<1>2. saved \subseteq {W(pair[1]), W(pair[2]), B(b)}
  <2>1. payer \in {pair[1], pair[2]} /\ payee \in {pair[1], pair[2]}
    BY DEF InOrder
  <2> QED BY <2>1 DEF PaidFromWallet
<1> HIDE DEF p, pair
<1>3. \A i \in 1 .. 7 : i \in {1, 2, 3, 4, 5, 6, 7}
  OBVIOUS
<1>4. \A i \in 1 .. 7 : Guards(p[i])
  BY <1>1, <1>3, StatementGuards
<1>5. ASSUME NEW i \in 1 .. 7, NEW row \in p[i].written
      PROVE  \E j \in 1 .. 7 : j <= i /\ row \in p[j].read
  <2>1. i = 6 /\ row \in saved
    BY <1>1, <1>3, <1>5, StatementGuards
  <2>2. row = W(pair[1]) \/ row = W(pair[2]) \/ row = B(b)
    BY <1>2, <2>1
  <2> QED BY <1>1, <2>1, <2>2, StatementGuards
<1> QED BY <1>1, <1>4, <1>5 DEF Guarded, p

\* Callbacks write the payment, the bill and the wallet they have read.
LEMMA CallbacksAreGuarded ==
  ASSUME NEW p \in DOMAIN Payments
  PROVE  /\ Guarded(FailPayment(p)) /\ Guarded(SavePayment(p)) /\ Guarded(SettleCharge(p))
         /\ \A b \in DOMAIN Bills : Guarded(SettleBill(p, b))
<1>1. Guarded(FailPayment(p))
  <2> DEFINE q == FailPayment(p)
  <2>1. DOMAIN q = 1 .. 2 /\ q[1] = Reads(P(p)) /\ q[2] = Writes({P(p)})
    BY DEF FailPayment
  <2> HIDE DEF q
  <2>2. \A i \in 1 .. 2 : i = 1 \/ i = 2
    OBVIOUS
  <2>3. \A i \in 1 .. 2 : Guards(q[i]) /\ q[i].written \subseteq {P(p)}
    BY <2>1, <2>2, StatementGuards
  <2> QED BY <2>1, <2>3, PaymentsAreOutside DEF Guarded, q
<1>2. Guarded(SavePayment(p))
  <2> DEFINE q == SavePayment(p)
  <2>1. DOMAIN q = 1 .. 1 /\ q[1] = Writes({P(p)})
    BY DEF SavePayment
  <2> HIDE DEF q
  <2>2. \A i \in 1 .. 1 : Guards(q[i]) /\ q[i].written \subseteq {P(p)}
    BY <2>1, StatementGuards
  <2> QED BY <2>1, <2>2, PaymentsAreOutside DEF Guarded, q
<1>3. Guarded(SettleCharge(p))
  <2> DEFINE q == SettleCharge(p)
             wallet == W(Payments[p].payer)
  <2>1. /\ DOMAIN q = 1 .. 3
        /\ q[1] = Reads(P(p)) /\ q[2] = Reads(wallet) /\ q[3] = Writes({wallet, P(p)})
    BY DEF SettleCharge
  <2> HIDE DEF q, wallet
  <2>2. \A i \in 1 .. 3 : i = 1 \/ i = 2 \/ i = 3
    OBVIOUS
  <2>3. \A i \in 1 .. 3 : Guards(q[i])
    BY <2>1, <2>2, StatementGuards
  <2>4. ASSUME NEW i \in 1 .. 3, NEW row \in q[i].written
        PROVE  \E j \in 1 .. 3 : j <= i /\ row \in q[j].read
    <3>1. i = 3 /\ row \in {wallet, P(p)}
      BY <2>1, <2>2, <2>4, StatementGuards
    <3> QED BY <2>1, <3>1, StatementGuards
  <2> QED BY <2>1, <2>3, <2>4 DEF Guarded, q
<1>4. ASSUME NEW b \in DOMAIN Bills
      PROVE  Guarded(SettleBill(p, b))
  <2> DEFINE q == SettleBill(p, b)
             payee == Bills[b].creditor
             wallet == W(payee)
  <2>1. /\ DOMAIN q = 1 .. 7
        /\ q[1] = Reads(P(p)) /\ q[2] = Reads(B(b)) /\ q[3] = Reads(U(payee))
        /\ q[4] = Reads(U(Bills[b].debtor)) /\ q[5] = Reads(wallet)
        /\ q[6] = Writes({wallet, B(b), P(p)})
        /\ q[7] = Refers({wallet, U(Payments[p].payer), U(payee), B(b)})
    BY DEF SettleBill
  <2> HIDE DEF q, wallet
  <2>2. \A i \in 1 .. 7 : i \in {1, 2, 3, 4, 5, 6, 7}
    OBVIOUS
  <2>3. \A i \in 1 .. 7 : Guards(q[i])
    BY <2>1, <2>2, StatementGuards
  <2>4. ASSUME NEW i \in 1 .. 7, NEW row \in q[i].written
        PROVE  \E j \in 1 .. 7 : j <= i /\ row \in q[j].read
    <3>1. i = 6 /\ row \in {wallet, B(b), P(p)}
      BY <2>1, <2>2, <2>4, StatementGuards
    <3> QED BY <2>1, <3>1, StatementGuards
  <2> QED BY <2>1, <2>3, <2>4 DEF Guarded, q
<1> QED BY <1>1, <1>2, <1>3, <1>4

\* INSERTs write no row that was there, and a deletion what it locks.
LEMMA OthersAreGuarded ==
  /\ \A u, v \in Users : Guarded(CreateBill(u, v))
  /\ \A u \in Users : Guarded(Charge(u))
  /\ \A ref \in DOMAIN Batches : Guarded(DeleteBill(ref))
<1>1. ASSUME NEW u \in Users, NEW v \in Users
      PROVE  Guarded(CreateBill(u, v)) /\ Guarded(Charge(u))
  <2>1. /\ DOMAIN CreateBill(u, v) = 1 .. 1 /\ CreateBill(u, v)[1] = Refers({U(u), U(v)})
        /\ DOMAIN Charge(u) = 1 .. 1 /\ Charge(u)[1] = Refers({W(u), U(u)})
    BY DEF CreateBill, Charge
  <2>2. \A i \in 1 .. 1 : i = 1
    OBVIOUS
  <2> QED BY <2>1, <2>2, StatementGuards DEF Guarded
<1>2. ASSUME NEW ref \in DOMAIN Batches
      PROVE  Guarded(DeleteBill(ref))
  <2> DEFINE batch == Batches[ref]
             p == DeleteBill(ref)
  <2>1. PICK cleared : /\ cleared \cap Ledger = {}
                       /\ \A i \in DOMAIN p : \/ i \in DOMAIN batch /\ p[i] = Deletes(B(batch[i]))
                                              \/ p[i] = Writes(cleared)
    <3> DEFINE cleared == {q \in DOMAIN Payments : \E i \in DOMAIN batch : Payments[q].bill = batch[i]}
    <3>1. {P(q) : q \in cleared} \cap Ledger = {}
      BY PaymentsAreOutside
    <3>2. \A i \in DOMAIN p : \/ i \in DOMAIN batch /\ p[i] = Deletes(B(batch[i]))
                              \/ p[i] = Writes({P(q) : q \in cleared})
      BY DEF DeleteBill
    <3> HIDE DEF p, cleared
    <3> QED BY <3>1, <3>2
  <2>2. DOMAIN p \subseteq Nat
    BY BatchesAssumption DEF DeleteBill
  <2> HIDE DEF p
  <2>3. ASSUME NEW i \in DOMAIN p
        PROVE  /\ Guards(p[i])
               /\ \A row \in p[i].written \cap Ledger : row \in p[i].read
    BY <2>1, StatementGuards
  <2>4. \A i \in DOMAIN p : i <= i
    BY <2>2
  <2> QED BY <2>3, <2>4 DEF Guarded, p
<1> QED BY <1>1, <1>2

\* Every transaction locks what it reads and writes.
LEMMA ProgramsAreGuarded == \A p \in Programs \cup {<<>>} : Guarded(p)
<1>1. Guarded(<<>>)
  BY DEF Guarded
<1> QED
  BY <1>1, TransferIsGuarded, PayBillIsGuarded, CallbacksAreGuarded, OthersAreGuarded DEF Programs

\* It holds the locks of what it has read and written so far.
LEMMA HeldForRows ==
  ASSUME LockInv, NEW t \in Txs
  PROVE  /\ \A row \in Read(t) : [row |-> row, mode |-> "update"] \in held[t]
         /\ \A row \in Written(t) :
              \E mode \in {"update", "change"} : [row |-> row, mode |-> mode] \in held[t]
         /\ Written(t) \cap Ledger \subseteq Read(t)
<1>1. Guarded(program[t]) /\ DOMAIN program[t] \subseteq Nat /\ at[t] \in Nat
  BY ProgramsAreGuarded, ProgramsAreNumbered DEF LockInv, Shape
<1>2. \A i \in Finished(t) : i \in DOMAIN program[t] /\ program[t][i].locks \subseteq held[t]
  BY DEF LockInv, HeldByProgram, Finished
<1>3. ASSUME NEW row \in Read(t)
      PROVE  [row |-> row, mode |-> "update"] \in held[t]
  <2>1. PICK i \in Finished(t) : row \in program[t][i].read
    BY DEF Read
  <2> QED BY <1>1, <1>2, <2>1 DEF Guarded, Guards
<1>4. ASSUME NEW row \in Written(t)
      PROVE  \E mode \in {"update", "change"} : [row |-> row, mode |-> mode] \in held[t]
  <2>1. PICK i \in Finished(t) : row \in program[t][i].written
    BY DEF Written
  <2> QED BY <1>1, <1>2, <2>1 DEF Guarded, Guards
<1>5. ASSUME NEW row \in Written(t), row \in Ledger
      PROVE  row \in Read(t)
  <2>1. PICK i \in Finished(t) : row \in program[t][i].written
    BY DEF Written
  <2>2. PICK j \in DOMAIN program[t] : j <= i /\ row \in program[t][j].read
    BY <1>1, <1>2, <1>5, <2>1 DEF Guarded
  <2>3. j \in Finished(t)
    BY <1>1, <2>2 DEF Finished
  <2> QED BY <2>2, <2>3 DEF Read
<1> QED BY <1>3, <1>4, <1>5

\* However many transactions run: what one has read FOR UPDATE nobody else writes
\* until it ends, and every wallet and bill that it writes it has read so.
THEOREM LedgerIsSerialized == Spec => []TransactionsAreAtomic
<1>1. LockInv => TransactionsAreAtomic
  <2> SUFFICES ASSUME LockInv, NEW t \in Txs
               PROVE  /\ \A s \in Txs \ {t} : Read(t) \cap Written(s) = {}
                      /\ Written(t) \cap Ledger \subseteq Read(t)
    BY DEF TransactionsAreAtomic
  <2>1. ASSUME NEW s \in Txs \ {t}, NEW row \in Read(t) \cap Written(s)
        PROVE  FALSE
    <3>1. [row |-> row, mode |-> "update"] \in held[t]
      BY HeldForRows
    <3>2. PICK mode \in {"update", "change"} : [row |-> row, mode |-> mode] \in held[s]
      BY HeldForRows
    <3>3. Conflict([row |-> row, mode |-> "update"], [row |-> row, mode |-> mode])
      BY DEF Conflict
    <3> QED BY <3>1, <3>2, <3>3 DEF LockInv, Exclusive
  <2> QED BY <2>1, HeldForRows
<1> QED BY LockInit, LockStep, <1>1, PTL DEF Spec
=============================================================================
