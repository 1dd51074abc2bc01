CONSTANTS
    ip1 = ip1
    Conns = {c1, c2}
    NoConn = NoConn
    IPs <- MCIPs
    IPOf <- MCIPOf
    MaxPerIP = 1
    TTL = 1
    MaxConnections = 3
    InitialDifficulty = 4
SPECIFICATION FairSpec
CHECK_DEADLOCK FALSE
PROPERTIES
    EveryConnectionCloses
    ShutdownEnds
    DifficultySettles
    NoPermanentLockout
