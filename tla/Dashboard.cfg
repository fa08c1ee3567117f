SPECIFICATION Spec
CONSTANTS
  n1 = n1
  n2 = n2
  w1 = w1
  w2 = w2
  t1 = t1
  t2 = t2
  p1 = p1
  x1 = x1
  x2 = x2
  x3 = x3
  r1 = r1
  r2 = r2
  NoOne = NoOne
  Name = {n1, n2}
  Password = {w1, w2}
  Token = {t1, t2}
  Project = {p1}
  Contract = {x1, x2, x3}
  Request = {r1, r2}
  Fee <- Fees
  DefaultFee = 1
  MaxFee = 2
  SessionTTL = 1
  MaxNow = 1
  MaxStarts = 2
SYMMETRY Symmetry
INVARIANTS
  LateImportsBounded
PROPERTIES
  OnlyOwnerChanges
