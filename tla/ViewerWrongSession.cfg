SPECIFICATION Spec
CONSTANTS
    Sockets = {s1, s2}
    None = None
    MaxKeys = 5
    MaxOutput = 1
    MaxResizes = 0
INVARIANT ShowsSelected
CHECK_DEADLOCK FALSE
