SPECIFICATION SpecPart
CONSTANTS
  n1 = n1
  n2 = n2
  n3 = n3
  n4 = n4
  n5 = n5
  b1 = b1
  b2 = b2
  o1 = o1
  s1 = s1
  x1 = x1
  x2 = x2
  Zero = Zero
  NoBatch = NoBatch
  NoOp = NoOp
  NotSponsored = NotSponsored
  Note = {n1, n2, n3, n4, n5}
  Order = {n1, n2, n3}
  Batch = {b1, b2}
  TreeLevels = 2
  RootHistorySize = 3
  MaxNow = 2
  Op = {o1}
  SenderOf <- Senders
  NonceOf <- Nonces
  TargetOf <- Pays
  Target = {x1, x2}
  Request = {b1, b2}
  ValidSeconds = 1
  LogWindow = 1
  FirstDeposit = 1
  MaxTx = 2
  MaxBlock = 3
  MaxAdmin = 1
  MaxRestarts = 1
  MaxReplaced = 1
SYMMETRY Symmetry
CHECK_DEADLOCK FALSE
INVARIANTS
  TypesOK
  TreeIsSound
PROPERTIES
  BatchesAddUp
  SponsorIsHonest
