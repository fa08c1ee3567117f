SPECIFICATION SpecPart
CONSTANTS
  NoOne = NoOne
  t1 = t1
  t2 = t2
  c1 = c1
  w1 = w1
  e1 = e1
  e2 = e2
  e3 = e3
  Tx = {t1, t2}
  Wallet = {w1}
  WalletOf <- OneWallet
  Engine = {e1, e2}
  Client = {}
  ClientTTLs = {}
  MaxAttempts = 3
  LockTTL = 0
  CommandTimeout = 0
  StartDelay = 1
  MaxNow = 1
  MaxFaults = 1
  MaxDisplaced = 1
SYMMETRY QueueSymmetry
CHECK_DEADLOCK FALSE
INVARIANTS
  OneOwner
  RecordMatchesChain
  WebhooksAgree
  SentOnceUnlessFaulty
  StrandedBounded
PROPERTIES
  ClientsLockRespected
  KeepsPromise
