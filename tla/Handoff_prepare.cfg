CONSTANTS
    Sessions = {}
    NoSession = NoSession
    Acks = {}
    NoAck = NoAck
    MaxPrompts = 1
    MaxTurns = 0
    DeviceRename = TRUE
SPECIFICATION FairSpec
PROPERTY PrepareResolves
CHECK_DEADLOCK FALSE
