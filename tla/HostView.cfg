SPECIFICATION Spec
CONSTANTS
    Heights = {1, 2, 3}
    MaxLines = 4
    MaxTurns = 3
    HistoryLimit = 2
    MaxScroll = 1
    None = None
INVARIANT HostShowsModel
INVARIANT HostScrollback
CHECK_DEADLOCK FALSE
