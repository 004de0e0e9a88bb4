SPECIFICATION SurfaceSpec
CONSTANTS
    alice = alice
    e1 = e1
    e2 = e2
    e3 = e3
    d1 = d1
    d2 = d2
    k1 = k1
    k2 = k2
    k3 = k3
    r1 = r1
    r2 = r2
    a1 = a1
    a2 = a2
    a3 = a3
    Nil = Nil
    NoOne = NoOne
    Unreadable = Unreadable
    Client <- MCClient
    Forged <- MCForged
    Proxy <- MCProxy
    trusted <- MCTrusted
    Route <- MCRoute
    TierLimit <- MCTierLimit
    KEY_LIMIT = 1
    WINDOW_SECONDS = 1
    TicksPerSecond = 2
    MaxClock = 7
    MaxRequests = 3
    MaxOver = 1
    Envelope = {e1, e2, e3}
    Stamp <- MCStamp
    Signer <- MCSigner
    Delivery = {d1, d2}
    MAX_REQUEST_DRIFT_SECONDS = 1
    Stall = 1
    MaxRestarts = 2
    Key = {k1, k2}
    InHub = {r1, r2}
    CHALLENGE_TTL = 1
    REDEEMED_RETENTION = 1
    BUDGET_WINDOW = 1
    faucet_daily_grants = 2
    faucet_network_share_percent = 50
    faucet_expected_hashes = 1
    faucet_free_grants_per_prefix = 0
    faucet_pow_doubling_grants = 1
    MAX_PREFIX_DOUBLINGS = 1
    Scene <- MCScene
    MaxChallenges = 2
    MaxCrashes = 1
    MaxTick = 2
    Agent = {a1, a2, a3}
    Candidate = {"SwiftOtter", "AmberFox"}
    Retired = {"OldHeron"}
    Earning = {a3}
    MaxReboots = 2
    TaskId = {1, 2, 3}
    poster = poster
    w1 = w1
    w2 = w2
    python = python
    reader1 = reader1
    reader2 = reader2
    o1 = o1
    o2 = o2
    Poster = {poster}
    Winners = {{w1}, {w1, w2}}
    NoTag = NoTag
    Tag = {python, NoTag}
    BountySizes = {5}
    PAGE = 1
    SUMMARY_WINDOWS <- MCWindows
    SUMMARY_DEFAULT_WINDOW = 3
    SUMMARY_BUCKETS = 3
    MIN_SERIES_WINDOW = 1
    MAX_SERIES_WINDOW = 5
    MAX_SERIES_BUCKETS = 4
    SeriesQueries <- MCQueries
    SECOND = 2
    TX_FEE = 1
    MaxWall = 4
    MaxBack = 1
    PubKey = {1, 2, 3}
    FirstAgents = {2, 3}
    Reader = {reader1, reader2}
    Asks <- MCAsks
    Balances = {0, 7}
    NoPrice = NoPrice
    NoReader = NoReader
    TTL = 1
    PER_PAGE = 1
    MaxTime = 1
    Payout = {o1, o2}
    INTERVAL = 2
    CHAIN_STALE = 2
    PAYOUT_STUCK = 2
    LastTick = 3
    MaxOutages = 1
    MaxMoves = 1
    Unsent = Unsent
SYMMETRY Alike
CHECK_DEADLOCK FALSE
INVARIANTS
  TakesEffectOnce
  
  GrantsSound
  NamesDistinct
  
  WalkRanksEachOnce
  
PROPERTIES
  OneSweepPerTTL
