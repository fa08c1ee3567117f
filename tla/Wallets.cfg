SPECIFICATION SpecPart
CONSTANTS
  a1 = a1
  a2 = a2
  a3 = a3
  b1 = b1
  b2 = b2
  u1 = u1
  u2 = u2
  w1 = w1
  x1 = x1
  d1 = d1
  d2 = d2
  d3 = d3
  NoAddress = NoAddress
  NoRef = NoRef
  NoUser = NoUser
  NoId = NoId
  Actor = {a1, a2, a3}
  Id = {b1, b2}
  Node = {1, 2, 3, 4}
  TTLs = {1}
  MaxOpen = 2
  MaxNow = 2
  ProjectRequest = {b1, b2}
  ProjectKey = {a1, a2, a3}
  Write = {w1}
  MaxAttempts = 2
  ProjectMaxNow = 1
  UserRequest = {b1, b2}
  User = {u1, u2}
  UserKey = {d1, d2, d3}
  UserAddress = {d1, d2, d3}
  Registered = {d1}
  ClientRef = {x1}
  UserMaxNow = 0
SYMMETRY Symmetry
INVARIANTS
  TypesOK
  HolderHasNode
  ProjectCanSign
  OwnWalletServes
PROPERTIES
  WalletsStand
