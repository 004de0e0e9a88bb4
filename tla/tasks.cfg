SPECIFICATION TasksSpec
CONSTANTS
    a1 = a1
    a2 = a2
    a3 = a3
    d1 = d1
    d2 = d2
    x = x
    y = y
    Agent = {a1, a2, a3}
    Poster = poster
    Operator = operator
    Answer = {x, y}
    Nobody = Nobody
    Bounty = 3
    Bond = 1
    NumAssignees = 3
    MAX_CONTEST_ANSWERS = 2
    Window = 1
    Deposit = {d1, d2}
    TaskId = {1, 2}
    Scene <- EveryKind
    Veteran = {a1, a2}
    OperatorBalance = 3
    consensus_max_exposure = 6
    MaxClock = 4
    MaxOpening = 0
    MaxFailed = 1
    MaxSaves = 1
SYMMETRY Alike
CHECK_DEADLOCK FALSE
INVARIANTS
  
  ReconcileClean
  
  
  
  
