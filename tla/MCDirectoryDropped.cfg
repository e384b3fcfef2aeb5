\* A caller drops the future of load_or_watch while it holds the lock.
SPECIFICATION Spec
CONSTANTS
    Absent = Absent
    None = None
    Ids = {i1}
    Vals = {v1}
    Calls = {c1}
    Registers = {}
    DiskCache = FALSE
    BornClosed = FALSE
    MayDrop = TRUE
    MayBlank = FALSE
    MaxChanges = 1
    MaxLosses = 0
INVARIANT WatchedIsRunning
CHECK_DEADLOCK FALSE
