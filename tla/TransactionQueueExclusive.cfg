SPECIFICATION SpecPart
CONSTANTS
  NoOne = NoOne
  t1 = t1
  t2 = t2
  c1 = c1
  w1 = w1
  e1 = e1
  e2 = e2
  e3 = e3
  Tx = {t1, t2}
  Wallet = {w1}
  WalletOf <- OneWallet
  Engine = {e1, e2}
  Client = {}
  ClientTTLs = {}
  MaxAttempts = 2
  LockTTL = 1
  CommandTimeout = 1
  StartDelay = 0
  MaxNow = 0
  MaxFaults = 0
  MaxDisplaced = 1
CHECK_DEADLOCK FALSE
INVARIANTS
  WalletExclusive
