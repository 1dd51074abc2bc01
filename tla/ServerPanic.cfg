CONSTANTS
    ip1 = ip1
    Conns = {c1, c2, c3}
    NoConn = NoConn
    IPs <- MCIPs
    IPOf <- MCIPOf
    MaxPerIP = 2
    TTL = 1
    MaxConnections = 2
    InitialDifficulty = 4
SPECIFICATION Spec
SYMMETRY Symmetry
INVARIANT NeverPanics
CHECK_DEADLOCK FALSE
