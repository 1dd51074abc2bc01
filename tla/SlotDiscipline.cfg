CONSTANTS
    IPs = {ip1, ip2}
    MaxPerIP = 2
    TTL = 2
    MaxLive = 4
SPECIFICATION Spec
INVARIANTS
    CountsOnlyLive
    RefusalJustified
