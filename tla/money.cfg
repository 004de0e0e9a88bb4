SPECIFICATION MoneySpec
CONSTANTS
  f1 = f1
  f2 = f2
  w1 = w1
  w2 = w2
  rs = rs
  e1 = e1
  e2 = e2
  s1 = s1
  s2 = s2
  hot = hot
  deposit = deposit
  c1 = c1
  c2 = c2
  p1 = p1
  p2 = p2
  None = None
  Request = {f1, f2, w1, w2, rs, e1, e2}
  Subject = {s1, s2}
  Watched = s1
  Kind <- MCKind
  SubjectOf <- MCSubject
  Forfeit = {e1}
  WalletOf <- MCWallet
  Coin = {c1, c2, p1, p2}
  CoinsOf <- MCCoins
  Worth <- MCWorth
  AtStart = {c1, c2, p1}
  Active <- MCActive
  MAX_PAYOUT_SUBMISSIONS = 2
  EVIDENCE_SCAN_BLOCKS_PER_PASS = 2
  EVIDENCE_SCAN_LOOKBACK = 1
  MaxBlocks = 2
  a1 = a1
  a2 = a2
  Agent = {a1, a2}
  Operator = op
  Price = {0, 1, 2}
  Quantity = {1, 2}
  TAKER_FEE_BPS = 5000
  MaxAmount = 3
  OpeningCompute = {0, 2}
  MaxOrders = 3
  Reservation = {d1}
  Amount = {2, 3}
  HUB_TRANSACTION_FEE = 1
  MIN_EXCHANGE_DEPOSIT = 2
  MIN_EXCHANGE_WITHDRAWAL = 2
  NoEntry = NoEntry
  MaxPayIns = 2
  MaxWithdrawals = 2
  MaxSurplus = 1
  MaxFanOuts = 2
  MaxRestarts = 1
SYMMETRY Alike
CHECK_DEADLOCK FALSE
INVARIANTS
  JournalSound
  BookSound
  
PROPERTIES
  KeepsPromise
  TradesFair
