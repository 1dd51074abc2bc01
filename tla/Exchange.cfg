CONSTANTS
    Nonces = {n1, n2}
    TTL = 2
    Conns = {c1, c2}
    None = None
    Difficulties = {0, 1}
    Zeros = {0, 1}
    ReadTimeout = 1
    ClientTimeout = 1
SPECIFICATION Spec
SYMMETRY Symmetry
INVARIANTS
    NoMutualWait
PROPERTIES
    SolutionHonoured
