SPECIFICATION FairSpecPart
CONSTANTS
  k1 = k1
  k2 = k2
  k3 = k3
  m1 = m1
  m2 = m2
  m3 = m3
  c1 = c1
  c2 = c2
  admin = admin
  write = write
  x1 = x1
  x2 = x2
  n1 = n1
  n2 = n2
  w1 = w1
  t1 = t1
  r1 = r1
  r2 = r2
  NoOne = NoOne
  NoKey = NoKey
  NoContract = NoContract
  Key = {k1, k2}
  Scope = {admin, write}
  Admin = admin
  WriteScope = write
  DefaultScopes = {write}
  Contract = {}
  Deployed = {}
  Manager = {m1, m2}
  Call = {c1}
  MaxNow = 0
CHECK_DEADLOCK FALSE
INVARIANTS
  RotatedIsRevoked
PROPERTIES
  AccessEnds
