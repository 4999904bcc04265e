CONSTANTS
    Ids = {s1}
    NoId = NoId
    Creators = {c1}
    Prompted = {s1}
    Msgs = {m1}
    NoMsg = NoMsg
SPECIFICATION FairSpec
INVARIANT QueuedNotLost
PROPERTIES WatchedDeathNoticed
CHECK_DEADLOCK FALSE
