\* One user, who may or may not belong to the group, and four requests of any kind; two of them fill a window.
\* The system may stop: every request is used once.
SPECIFICATION Spec
CONSTANTS
  Users = {u1}
  Groups = {g1}
  Addresses = {a1}
  Requests = {r1, r2, r3, r4}
  Null = Null
  MaxCreatesPerWindow = 2
  CreateWindow = 2
  Lifetime = 2
  Horizon = 2
SYMMETRY Symmetry
INVARIANTS
  TypeOK
  NearlyTwiceAtMost
  RefusesOnlyTheBusy
  InviterBelonged
PROPERTIES
  LimiterForgets
CHECK_DEADLOCK FALSE
