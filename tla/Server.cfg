SPECIFICATION FairSpec
CONSTANTS
    d1 = d1
    shown = shown
    home = home
    busy = busy
    Sockets = {s1}
    Devices = {d1, x1}
    Strangers = {x1}
    Titles = {shown, busy, hidden}
    StartTitles = {Unknown}
    Cwd <- MCCwd
    Filter <- MCFilter
    Absent = Absent
    Unknown = Unknown
    None = None
    MaxUnauth = 1
    EventCap = 2
    MaxChanges = 2
    MaxNotes = 1
    MaxDrops = 1
INVARIANT RegistryCurrent
INVARIANT RevocationPending
INVARIANT ToldCurrent
INVARIANT BudgetExact
PROPERTY RegistrySettles
CHECK_DEADLOCK FALSE
