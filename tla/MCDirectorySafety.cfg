\* Two calls, one registration, every failure: safety of the snapshot and of the watch tasks.
SPECIFICATION Spec
CONSTANTS
    Absent = Absent
    None = None
    Ids = {i1}
    Vals = {v1}
    Calls = {c1, c2}
    Registers = {r1}
    DiskCache = TRUE
    BornClosed = FALSE
    MayDrop = TRUE
    MayBlank = FALSE
    MaxChanges = 2
    MaxLosses = 1
SYMMETRY CallSymmetry
INVARIANT TypeOK SoleWatcher CaughtUp
PROPERTY OkMeansWatched
CHECK_DEADLOCK FALSE
