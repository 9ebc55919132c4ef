\* Three transactions of any kind, among three users.
\* The system may stop: every transaction is used once.
SPECIFICATION Spec
CONSTANTS
  p1 = p1
  p2 = p2
  batch1 = batch1
  NoBill = NoBill
  MaxId = 3
  Users = {1, 2, 3}
  Bills <- MutualBills
  Batches <- OneBatch
  Payments <- TwoPayments
  Txs = {t1, t2, t3}
SYMMETRY TxSymmetry
INVARIANTS
  NoLedgerDeadlock
  TransactionsAreAtomic
CHECK_DEADLOCK FALSE
