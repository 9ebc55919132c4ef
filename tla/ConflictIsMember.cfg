\* What accept says of the one it refuses; it says so to everyone.
SPECIFICATION Spec
CONSTANTS
  Users = {u1, u2}
  Groups = {g1}
  Addresses = {a1}
  Requests = {r1, r2}
  Null = Null
  MaxCreatesPerWindow = 1
  CreateWindow = 1
  Lifetime = 1
  Horizon = 0
PROPERTIES
  ConflictIsMember
CHECK_DEADLOCK FALSE
