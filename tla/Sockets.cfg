SPECIFICATION Spec
CONSTANTS
    Pids = {p, q}
    Cwds = {x, y}
    MaxWrappers = 2
    None = None
INVARIANT LiveSocketKept
INVARIANT LaunchTrue
PROPERTY StaleGone
