SPECIFICATION EventuallySpec
CONSTANTS
  q1 = q1
  q2 = q2
  s1 = s1
  n1 = n1
  n2 = n2
  n3 = n3
  a1 = a1
  a2 = a2
  a3 = a3
  d1 = d1
  d2 = d2
  x = x
  y = y
  Block = {"g", "c", "a1", "a2", "a3"}
  Genesis = "g"
  WellFormed = {"g", "c", "a1", "a2", "a3"}
  Future = {}
  Tx = {}
  Signed = {}
  MaxTarget = 255
  MIN_TARGET = 63
  IDEAL_BLOCK_TIME = 4
  DIFFICULTY_UPDATE_INTERVAL = 2
  SIDE_BRANCH_PRUNE_DEPTH = 1
  MAX_ORPHAN_BLOCKS = 0
  BLOCK_CAP = 2
  Conn = {c1}
  Main = Main
  Mining = FALSE
  NoTemplate = NoTemplate
  BLOCKS_PER_FETCH_BATCH = 2
  MaxCrashes = 2
  MaxFailures = 0
  PeerTips <- PeerAhead
  Parent <- TreeParent
  Time <- TreeTime
  HeaderTarget <- TreeTarget
  Txs <- TreeTxs
  Reward <- TreeReward
  TxIn <- TxInputs
  TxOut <- TxOutputs
  Fee <- TxFee
  Op = {q1, q2, s1}
  Sends = {s1}
  addresses <- MCAddresses
  PoolSize = 2
  NoAddress = NoAddress
  NoConn = NoConn
  NoReply = NoReply
  MaxFaults = 1
  Links = 2
  Thread = {0}
  RECONNECT_BACKOFF_START = 1
  RECONNECT_BACKOFF_MAX = 2
  NoStream = NoStream
  NoBlock = NoBlock
  MaxTip = 2
  MaxPeerFaults = 1
  MaxFound = 1
  Nodes = {n1, n2, n3}
  CommandLines <- MCCommandLines
  Buffer = 1
  MaxStops = 1
  MaxSubmits = 4
  MIN_USEFUL_OUTPUT = 4
  HUB_FEE = 1
  Floor = 3
  FirstOutputs <- MCFirstOutputs
  PaySizes = {1, 3, 6}
  MaxPayments = 3
  MaxDropped = 1
  KeyFile <- MCKeyFiles
  EscrowFile = "escrow"
  Builds = {4, 5}
  NoStore = NoStore
  MaxBoots = 3
  MaxCommits = 2
  MaxLosses = 1
  MaxArchives = 1
  Agent = {a1, a2, a3}
  Poster = poster
  Operator = operator
  Answer = {x, y}
  Nobody = Nobody
  Bounty = 3
  Bond = 1
  NumAssignees = 3
  MAX_CONTEST_ANSWERS = 2
  Window = 1
  Deposit = {d1, d2}
  TaskId = {1, 2}
  Scene <- Bounded
  Veteran = {a1, a2}
  OperatorBalance = 3
  consensus_max_exposure = 6
  MaxClock = 4
  MaxOpening = 0
  MaxFailed = 1
  MaxSaves = 1
CHECK_DEADLOCK FALSE
INVARIANTS
  ConnectionsSound
  NoRing
  
  
  WalletSound
PROPERTIES
  
  HubRecovers
  EscrowReleased
