CONSTANTS
    Sessions = {s1}
    NoSession = NoSession
    Acks = {a1}
    NoAck = NoAck
    MaxPrompts = 1
    MaxTurns = 1
    DeviceRename = FALSE
SPECIFICATION Spec
INVARIANTS RecordsValid NoLaunchWithoutGrant AcceptedAgree ReleaseAfterLoad FailedNeverAccepted
PROPERTY ImplementsSpec
CHECK_DEADLOCK FALSE
