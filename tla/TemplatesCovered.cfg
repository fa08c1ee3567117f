SPECIFICATION SpecPart
CONSTANTS
  m1 = m1
  m2 = m2
  n1 = n1
  n2 = n2
  n3 = n3
  h1 = h1
  h2 = h2
  r1 = r1
  r2 = r2
  q1 = q1
  q2 = q2
  t1 = t1
  t2 = t2
  i1 = i1
  i2 = i2
  MarketId = {q1, q2}
  Trader = {t1, t2}
  Amounts = {10}
  Fees = {0, 1000, 2000}
  Times = {0, 1}
  MaxBuys = 3
  MaxNow = 1
  BetMarket = {m1, m2}
  Root = {r1, r2}
  Note = {n1, n2, n3}
  NotesOf <- Notes
  MarketOf <- MarketsOfNotes
  OutcomeOf <- Outcomes
  Nullifier = {h1, h2}
  NullifierOf <- Secrets
  MaxResolutions = 2
  PayoutNote = {q1, q2, n1}
  Account = {t1, t2}
  Denomination = 11
  RelayerFee = {0, 1, 2}
  Funding = {5, 11}
  MaxFunding = 22
  Holder = {h1, h2}
  Signer = {h1}
  TokenId = {i1, i2}
  MaxUint = 2
  InitialSupply = 2
  MaxApprovals = 2
  MaxBatch = 3
SYMMETRY Symmetry
CHECK_DEADLOCK FALSE
INVARIANTS
  PendingPayoutsCovered
