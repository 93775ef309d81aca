SPECIFICATION Spec
CONSTANTS
    Clients = {a, b}
    Forcing = {b}
    None = None
    Broken = Broken
    MaxOutput = 1
    MaxSnapshots = 1
    MaxKeys = 1
INVARIANT Gapless
INVARIANT EndingTrue
PROPERTY AttachSettles
CHECK_DEADLOCK FALSE
