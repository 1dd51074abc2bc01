CONSTANTS
    Clients = {c1, c2}
    Writers = {w1, w2}
    MaxWrites = 2
    MaxRequests = 3
SPECIFICATION FairSpec
INVARIANTS
    FinalStatsComplete
    DifferencesAddUp
PROPERTIES
    ToolEnds
CHECK_DEADLOCK FALSE
