CONSTANTS
    Sessions = {s1}
    NoSession = NoSession
    Acks = {a1}
    NoAck = NoAck
    MaxTurns = 2
SPECIFICATION FairSpec
PROPERTIES ImmediateRetires AfterTurnRetires
CHECK_DEADLOCK FALSE
