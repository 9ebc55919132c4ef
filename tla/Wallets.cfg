\* Transfers, withdrawals, top-ups, and three payments of a bill that has room for
\* one and a half, others' or one's own; amounts of one and two digits.
\* The system may stop: every request is used once.
SPECIFICATION Spec
CONSTANTS
  u1 = u1
  u2 = u2
  b1 = b1
  batch1 = batch1
  NoUser = NoUser
  NoBill = NoBill
  Users = {u1, u2}
  Holders = {u1, u2}
  Opening <- BothHold
  Bills = {b1}
  Batches = {batch1}
  BillOffers <- OwnDebt
  Ids = {i1, i2, i3}
  Amounts = {2, 10}
  Decades = {10, 100}
  MaxBigint = 9999
  MaxDecimal = 999
  MaxCallbacks = 1
SYMMETRY IdSymmetry
INVARIANTS
  NoOverdraft
  CollectedWithinBill
PROPERTIES
  BalanceFollowsRows
CHECK_DEADLOCK FALSE
