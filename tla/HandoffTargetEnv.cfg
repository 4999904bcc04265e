CONSTANTS
    Sessions = {s1, s2}
    NoSession = NoSession
    Acks = {a1}
    NoAck = NoAck
    MaxPrompts = 1
    DeviceRename = TRUE
SPECIFICATION FairSpec
INVARIANTS OneContinuation AcceptedSurvivesRestart
PROPERTY LaunchResolves
CHECK_DEADLOCK FALSE
