\* The documented order of a withdrawal; the debit is rolled back after the payout was accepted.
SPECIFICATION Spec
CONSTANTS
  u1 = u1
  u2 = u2
  b1 = b1
  batch1 = batch1
  NoUser = NoUser
  NoBill = NoBill
  Users = {u1, u2}
  Holders = {u1, u2}
  Opening <- SomeHeld
  Bills = {b1}
  Batches = {batch1}
  BillOffers <- LargeDebt
  Ids = {i1, i2}
  Amounts = {1, 2}
  Decades = {10}
  MaxBigint = 99
  MaxDecimal = 999
  MaxCallbacks = 1
INVARIANTS
  AcceptedPayoutIsDebited
CHECK_DEADLOCK FALSE
