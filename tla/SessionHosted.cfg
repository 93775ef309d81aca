SPECIFICATION FairSpec
CONSTANTS
    MaxClients = 3
    s1 = s1
    s2 = s2
    Sizes <- MCSizes
    SimSize = s1
    MaxRank = 1
    Ranks <- MCRanks
    Headless = FALSE
    IoFaults = TRUE
    Conveys = {TRUE, FALSE}
    None = None
    Stale = Stale
    Drifted = Drifted
INVARIANT TypeOK
INVARIANT StreamsInSync
INVARIANT ChildHasModelSize
INVARIANT TitleKnown
INVARIANT RealViewIffViewing
INVARIANT SizePrecedence
PROPERTY SweepEnds
CHECK_DEADLOCK FALSE
