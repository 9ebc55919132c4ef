\* Four requests of any kind for two phones.
\* The system may stop: every request is used once.
SPECIFICATION Spec
CONSTANTS
  Phones = {p1, p2}
  Requests = {r1, r2, r3, r4}
  MaxAttempts = 2
  Null = Null
SYMMETRY PhonesAndRequests
INVARIANTS
  TypeOK
  RegisteredWasVerified
  WalletUnlessDisplaced
  VerifiedMayRegister
CHECK_DEADLOCK FALSE
