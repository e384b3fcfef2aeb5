\* More initial instances than the channel has places.
SPECIFICATION LiveSpec
CONSTANTS
    Absent = Absent
    None = None
    NoGrpc = NoGrpc
    BadUrl = BadUrl
    Ids = {i1, i2}
    Vals = {u1, u2}
    Appliers = {a1}
    Cap = 1
    MaxWrites = 2

PROPERTY BridgeReturns
CHECK_DEADLOCK FALSE
