\* shutdown while the watch task is inside its reconcile.
SPECIFICATION LiveSpec
CONSTANTS
    Absent = Absent
    None = None
    Ids = {i1}
    Vals = {v1}
    Calls = {c1}
    Registers = {}
    DiskCache = FALSE
    BornClosed = FALSE
    MayDrop = FALSE
    MayBlank = FALSE
    MaxChanges = 1
    MaxLosses = 0
PROPERTY ShutdownStaysEmpty
CHECK_DEADLOCK FALSE
