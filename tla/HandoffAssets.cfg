CONSTANTS
    MaxVersion = 2
    Branches = {main, topic}
    MaxCommit = 2
    NoCommit = NoCommit
    MaxFaults = 1
SPECIFICATION FairSpec
INVARIANTS HistoryExact InspectedCoherent WorkNeverRemoved RejectedForCause
PROPERTIES LaunchedExact AssetsResolve
CHECK_DEADLOCK FALSE
