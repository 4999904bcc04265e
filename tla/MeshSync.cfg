CONSTANT Topics = {sessions, artifacts}
SPECIFICATION FairSpec
INVARIANT EventAnswered
PROPERTY Converges
CHECK_DEADLOCK FALSE
