SPECIFICATION FullNodeSpec
CONSTANTS
  Block = {"g", "c", "a1", "a2", "a3", "a4", "b1", "b2", "b3", "x2", "y3"}
  Genesis = "g"
  WellFormed = {"g", "c", "a1", "a2", "a3", "a4", "b1", "b2", "b3", "x2", "y3"}
  Future = {"b2"}
  Tx = {"t1", "t2", "t3", "t4"}
  Signed = {"t1", "t2", "t3", "t4"}
  MaxTarget = 255
  MIN_TARGET = 63
  IDEAL_BLOCK_TIME = 4
  DIFFICULTY_UPDATE_INTERVAL = 2
  SIDE_BRANCH_PRUNE_DEPTH = 2
  MAX_ORPHAN_BLOCKS = 2
  BLOCK_CAP = 2
  Conn = {c1}
  Main = Main
  Mining = TRUE
  NoTemplate = NoTemplate
  BLOCKS_PER_FETCH_BATCH = 2
  MaxCrashes = 2
  MaxFailures = 1
  PeerTips <- NoPeer
  Parent <- TreeParent
  Time <- TreeTime
  HeaderTarget <- TreeTarget
  Txs <- TreeTxs
  Reward <- TreeReward
  TxIn <- TxInputs
  TxOut <- TxOutputs
  Fee <- TxFee
  Ip = {i1}
  Socket = {s1, s2}
  BAN_DURATION = 2
  MAX_STRIKES = 3
  STRIKE_WINDOW = 1
  NoBan = NoBan
  MaxNow = 5
  MaxOffences = 4
  MaxReboots = 1
  TimePeer = {p1, p2, p3, l1}
  Liars = {l1}
  Skews <- MCSkews
  Delays = {15}
  Claims <- MCClaims
  MAX_SAMPLES = 3
  MIN_SAMPLES_TO_ADJUST = 3
  MAX_TIME_ADJUSTMENT_MINUTES = 70
  NoSample = NoSample
INVARIANTS
  ChainSound
  
  InOrderStoreSound
  BansSound
  ClockSound
