CONSTANTS
    IPs = {ip1, ip2}
    Burst = 2
    Window = 2
    TTL = 3
SPECIFICATION FairSpec
INVARIANTS
    RefusalsAddUp
    AtMostTwoBursts
    RefusedOnlyAfterBurst
PROPERTIES
    BlockedUntilStale
    BlockingIsTemporary
