\* Three transfers, one of which may never get an answer.
\* The system may stop: a caller is used once, and time is bounded.
SPECIFICATION FairSpec
CONSTANTS
  Callers = {c1, c2, c3}
  Answered = {c1, c2}
  Null = Null
  Lifetime = 2
  Margin = 1
  Horizon = 3
INVARIANTS
  TypeOK
  RefusedOnlyWhenSlow
  GivenUpOnlyInOutage
PROPERTIES
  AsksOnlyWhenDue
  TransferEnds
CHECK_DEADLOCK FALSE
