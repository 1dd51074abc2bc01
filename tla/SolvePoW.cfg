CONSTANTS
    NumWorkers = 3
    Solutions = {4, 5}
    MaxCandidate = 6
    None = None
SPECIFICATION FairSpec
INVARIANTS
    NoSendOnClosed
    CandidatesSharedOut
    SolvedUnlessCancelled
PROPERTIES
    SearchEnds
    CancelStopsAll
CHECK_DEADLOCK FALSE
