SPECIFICATION Spec
CONSTANTS
  Block = {"g", "c", "a1"}
  Genesis = "g"
  WellFormed = {"g", "c", "a1"}
  Future = {}
  Tx = {"t1", "t2"}
  Signed = {"t1", "t2"}
  MaxTarget = 255
  MIN_TARGET = 63
  IDEAL_BLOCK_TIME = 4
  DIFFICULTY_UPDATE_INTERVAL = 2
  SIDE_BRANCH_PRUNE_DEPTH = 1
  MAX_ORPHAN_BLOCKS = 0
  BLOCK_CAP = 2
  Conn = {c1}
  Main = Main
  Mining = FALSE
  NoTemplate = NoTemplate
  BLOCKS_PER_FETCH_BATCH = 2
  MaxCrashes = 0
  MaxFailures = 0
  PeerTips <- NoPeer
  Parent <- TreeParent
  Time <- TreeTime
  HeaderTarget <- TreeTarget
  Txs <- TreeTxs
  Reward <- TreeReward
  TxIn <- TxInputs
  TxOut <- TxOutputs
  Fee <- TxFee
INVARIANTS
  MarkedIsPending
