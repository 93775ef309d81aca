SPECIFICATION Spec
CONSTANTS
    Stage = 4
    Slice = 3
    MaxLines = 8
    Heights = {1, 2, 3}
    None = None
INVARIANT NothingForgotten
PROPERTY ArchiveAppends
CHECK_DEADLOCK FALSE
