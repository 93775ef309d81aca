SPECIFICATION FairSpec
CONSTANTS
    Sockets = {s1, s2}
    None = None
    MaxKeys = 5
    MaxOutput = 1
    MaxResizes = 1
INVARIANT LiveInStep
INVARIANT SpliceExact
PROPERTY AttachEnds
CHECK_DEADLOCK FALSE
