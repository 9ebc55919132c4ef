\* Two users, one group, a batch of up to three bills, of a total that three cannot
\* share evenly, and two requests that assign or delete.
\* The system may stop: every request is used once.
SPECIFICATION Spec
CONSTANTS
  Users = {u1, u2}
  Groups = {g1}
  Batches = {b1}
  Requests = {r1, r2}
  Null = Null
  MaxDebtors = 3
  Totals = {4}
  Unit = 2
SYMMETRY Symmetry
INVARIANTS
  TypeOK
  AnswerTellsAll
  DeletedStaysDeleted
  PaymentsAreKept
  SharesAddUp
  OpenBillsArePayable
PROPERTIES
  BillsAreAccounts
CHECK_DEADLOCK FALSE
