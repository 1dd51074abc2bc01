CONSTANTS
    a1 = a1
    a2 = a2
    ip1 = ip1
    Addrs = {a1}
    IPOf <- MCIPOf
    NoAddr = NoAddr
    MaxConnections = 3
    MaxAttempts = 3
    BlockTime = 3
    Capacity = 2
    FillNum = 1
    FillDen = 2
    CleanupInterval = 4
    AgeBound = 5
    Whitelist = {}
    Blacklist = {}
SPECIFICATION FairStreaksSpec
INVARIANTS
    OneSlipsThrough
    StreaksBlocked
PROPERTIES
    BlockEndsWithTimeOnly
    BlockingIsTemporary
    FailuresForgotten
    ImplementsBudget
    TokensComeBack
    StopEndsRoutines
