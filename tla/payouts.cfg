SPECIFICATION Spec
CONSTANTS
  t1 = t1
  t2 = t2
  l1 = l1
  l2 = l2
  l3 = l3
  l4 = l4
  h1 = h1
  sw = sw
  c1 = c1
  c2 = c2
  c3 = c3
  x1 = x1
  x2 = x2
  x3 = x3
  None = None
  Task = {t1, t2}
  Escrowed = {t2}
  Leg = {l1, l2, l3, l4}
  TaskOf <- BothTasks
  Handler = {h1}
  Sweep = sw
  Cancellable = {h1}
  Coin = {c1, c2, c3, x1, x2, x3}
  OperatorCoin = {c1, c2}
  Deposit <- EscrowDeposit
  ChangeOf <- MCChangeOf
  Selections <- Singles
  MAX_PAYOUT_SUBMISSIONS = 2
  MaxTx = 2
  MaxCrashes = 1
CONSTRAINT OneTaskAtATime
SYMMETRY LegsCoinsEscrow
INVARIANTS
  NoBountyPaidTwice
  RecordsTrue
