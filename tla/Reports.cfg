SPECIFICATION FairSpec
CONSTANTS
    BellWindow = 3
    ActivityInterval = 2
    Horizon = 5
    MaxTime = 11
    Never = Never
    NoConn = NoConn
INVARIANT BellSpacing
INVARIANT BellAccounted
INVARIANT ActivityFresh
PROPERTY HeldBellReported
CHECK_DEADLOCK FALSE
