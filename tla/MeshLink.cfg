CONSTANT Conns = {c1, c2}
CONSTANT NoConn = NoConn
SPECIFICATION FairSpec
INVARIANTS NoOrphan StatusTruthful
CHECK_DEADLOCK FALSE
PROPERTY Reconnects
