\* The documented effect of a transfer or top-up; the code appends instead of adding.
SPECIFICATION Spec
CONSTANTS
  u1 = u1
  u2 = u2
  b1 = b1
  batch1 = batch1
  NoUser = NoUser
  NoBill = NoBill
  Users = {u1, u2}
  Holders = {u1, u2}
  Opening <- SomeHeld
  Bills = {b1}
  Batches = {batch1}
  BillOffers <- LargeDebt
  Ids = {i1, i2}
  Amounts = {1, 2}
  Decades = {10}
  MaxBigint = 99
  MaxDecimal = 999
  MaxCallbacks = 1
PROPERTIES
  CreditIsExact
CHECK_DEADLOCK FALSE
