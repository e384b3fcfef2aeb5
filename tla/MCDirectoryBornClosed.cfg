\* A provider whose watch returns a stream that has ended.
SPECIFICATION LiveSpec
CONSTANTS
    Absent = Absent
    None = None
    Ids = {i1}
    Vals = {v1}
    Calls = {c1}
    Registers = {}
    DiskCache = FALSE
    BornClosed = TRUE
    MayDrop = FALSE
    MayBlank = FALSE
    MaxChanges = 1
    MaxLosses = 0
PROPERTY Converges
CHECK_DEADLOCK FALSE
