SPECIFICATION Spec
CONSTANTS
    MaxClients = 3
    s1 = s1
    s2 = s2
    Sizes <- MCSizes
    SimSize = s1
    MaxRank = 1
    Ranks <- MCRanks
    Headless = TRUE
    IoFaults = FALSE
    Conveys = {TRUE}
    None = None
    Stale = Stale
    Drifted = Drifted
INVARIANT OneHost
INVARIANT SizePrecedence
PROPERTY FlipReachesEveryone
CHECK_DEADLOCK FALSE
