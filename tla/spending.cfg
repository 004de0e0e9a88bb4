SPECIFICATION SpendersSpec
CONSTANTS
  t1 = t1
  t2 = t2
  l1 = l1
  l2 = l2
  h1 = h1
  sw = sw
  c1 = c1
  c2 = c2
  x1 = x1
  x2 = x2
  x3 = x3
  None = None
  Task = {t1, t2}
  Escrowed = {}
  Leg = {l1, l2}
  TaskOf <- TwoTasks
  Handler = {h1}
  Sweep = sw
  Cancellable = {}
  Coin = {c1, c2, x1, x2, x3}
  OperatorCoin = {c1, c2}
  Deposit <- NoDeposit
  ChangeOf <- MCChangeOf
  Selections <- Singles
  MAX_PAYOUT_SUBMISSIONS = 2
  MaxTx = 2
  MaxCrashes = 0
  FirstCoins <- MCCoins
  Payees = {p1, p2}
  Amounts = {2, 5}
  Holder = owner
  Request = {r1}
  HUB_FEE = 1
  FEE_BASE = 0
  FEE_PER_INPUT = 2
  FEE_PER_OUTPUT = 0
  NoSpend = NoSpend
  MaxWalletSends = 2
  MaxForgotten = 1
  PayCoin = {k1, k2}
  NoCoin = NoCoin
  MaxRuns = 3
  MaxHubPayouts = 2
  MaxNodeDeaths = 1
SYMMETRY TasksAndCoins
CHECK_DEADLOCK FALSE
INVARIANTS
  AttemptsDisjoint
  SpendsSound
  PaidByHandOnce
