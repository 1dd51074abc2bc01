CONSTANTS
    Nonces = {n1, n2}
    TTL = 2
    Conns = {c1}
    None = None
    Difficulties = {0, 1}
    Zeros = {0, 1}
    ReadTimeout = 2
    ClientTimeout = 2
SPECIFICATION FairSpec
PROPERTIES
    SessionsEnd
    ClientReturns
    ChallengesForgotten
    ImplementsService
