\* No caller drops its future: what the watch tasks and the calls come to in the end.
SPECIFICATION LiveSpec
CONSTANTS
    Absent = Absent
    None = None
    Ids = {i1}
    Vals = {v1}
    Calls = {c1, c2}
    Registers = {}
    DiskCache = FALSE
    BornClosed = FALSE
    MayDrop = FALSE
    MayBlank = TRUE
    MaxChanges = 1
    MaxLosses = 1
INVARIANT WatchedIsRunning
PROPERTY Converges CancelledTaskEnds CallReturns
CHECK_DEADLOCK FALSE
