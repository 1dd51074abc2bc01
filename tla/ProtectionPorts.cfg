CONSTANTS
    a1 = a1
    a2 = a2
    ip1 = ip1
    Addrs <- MCAddrs
    IPOf <- MCIPOf
    NoAddr = NoAddr
    MaxConnections = 2
    MaxAttempts = 2
    BlockTime = 2
    Capacity = 1
    FillNum = 1
    FillDen = 2
    CleanupInterval = 2
    AgeBound = 3
    Whitelist = {}
    Blacklist = {}
SPECIFICATION FairStreaksSpec
PROPERTY IPBlockedAfterFailures
