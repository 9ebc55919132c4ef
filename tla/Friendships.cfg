\* Two people and four requests of any kind.
\* The system may stop: every request is used once.
SPECIFICATION Spec
CONSTANTS
  Users = {u1, u2}
  Requests = {r1, r2, r3, r4}
  Null = Null
SYMMETRY Symmetry
INVARIANTS
  TypeOK
  FriendshipIsMutual
  OwnerIsMember
  TwiceOnlyIfCrossed
CHECK_DEADLOCK FALSE
