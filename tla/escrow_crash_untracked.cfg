SPECIFICATION Spec
CONSTANTS
  t1 = t1
  t2 = t2
  l1 = l1
  l2 = l2
  h1 = h1
  sw = sw
  c1 = c1
  c2 = c2
  x1 = x1
  x2 = x2
  x3 = x3
  None = None
  Task = {t1}
  Escrowed = {t1}
  Leg = {l1, l2}
  TaskOf <- TwoLegs
  Handler = {}
  Sweep = sw
  Cancellable = {}
  Coin = {c1, c2, x1, x2, x3}
  OperatorCoin = {}
  Deposit <- OneDeposit
  ChangeOf <- MCChangeOf
  Selections <- Singles
  MAX_PAYOUT_SUBMISSIONS = 2
  MaxTx = 2
  MaxCrashes = 1
INVARIANTS InFlightIsTracked
