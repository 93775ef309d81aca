SPECIFICATION FairHistorySpec
CONSTANTS
    MaxRetained = 3
    ReplyBudget = 4
    FetchLimit = 2
    MaxPushes = 6
    LineSizes = {0, 2, 5}
    Limits = {0, 1, 3}
    Unset = Unset
INVARIANT PagesJoin
INVARIANT NothingRetainedIsMissed
PROPERTY PagingEnds
CHECK_DEADLOCK FALSE
