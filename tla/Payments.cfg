\* Two requests of any kind, one bill, and each callback in two copies at once.
\* u1 registers, and gets a wallet, in the course of the run.
\* No symmetry, for HandlerEnds is a liveness property.
\* The system may stop: every request is used once.
SPECIFICATION FairSpec
CONSTANTS
  u1 = u1
  u2 = u2
  b1 = b1
  batch1 = batch1
  NoUser = NoUser
  NoBill = NoBill
  Users = {u1, u2}
  Holders = {u2}
  Opening <- SomeHeld
  Bills = {b1}
  Batches = {batch1}
  BillOffers <- OwnDebt
  Ids = {i1, i2}
  Amounts = {1, 2}
  Decades = {10}
  MaxBigint = 99
  MaxDecimal = 999
  MaxCallbacks = 2
INVARIANTS
  TypeOK
  OneCreditPerReference
  PaidLinkHasRow
  RemoteEffectsAreKept
PROPERTIES
  PaymentsAreSettledOnce
  BillsAreAccounts
  HandlerEnds
CHECK_DEADLOCK FALSE
