SPECIFICATION SpecPart
CONSTANTS
  c1 = c1
  c2 = c2
  c3 = c3
  r1 = r1
  r2 = r2
  r3 = r3
  w1 = w1
  w2 = w2
  p1 = p1
  p2 = p2
  p3 = p3
  p4 = p4
  a1 = a1
  f1 = f1
  f2 = f2
  NoRequest = NoRequest
  NoPayment = NoPayment
  NoWallet = NoWallet
  NoAddress = NoAddress
  Caller = {c1, c2, c3}
  Limit = 2
  DefaultLimit = 3
  MaxLimit = 4
  MaxMinute = 3
  MaxRestarts = 1
  TransferRequest = {c1, c2, c3}
  Payment = {p1, p2, p3, p4}
  KindOf <- Kinds
  AmountOf <- Amounts
  SignedNonce <- Nonces
  Funds = 3
  MaxOthers = 0
  ConsoleRequest = {r1, r2}
  ConsoleWallet = {w1, w2}
  Address = {a1}
  Amount <- TwoAmounts
  Decimals = 2
  SupportsBurn = TRUE
  MaxEntries = 3
  ConsoleFaults = 2
  ProofRequest = {r1, r2, r3}
  AppOf <- Apps
  ProofMaxNow = 1
  ProofFaults = 1
SYMMETRY Symmetry
CHECK_DEADLOCK FALSE
INVARIANTS
  TypesOK
  AdmittedBounded
  AnswersMeanMoves
  SignaturePaysOnce
  ListsAsAsked
  ProofAnswersTrue
