\* A directory of one id, one call and one register; any lists of two ids and every kind of endpoint.
SPECIFICATION MCSpec
CONSTANTS
    Absent = Absent
    None = None
    NoGrpc = NoGrpc
    BadUrl = BadUrl
    Ids = {i1}
    Vals = {u1}
    Calls = {c1}
    Registers = {r1}
    Opener = c1
    DiskCache = FALSE
    BornClosed = FALSE
    MayDrop = FALSE
    MayBlank = FALSE
    MaxChanges = 1
    MaxLosses = 0
    Cap = 2
    AnyIds = {i1, i2}
    AnyVals = {u1, u2, BadUrl}
    MaxWrites = 2
INVARIANT BothTypeOK MembersFollow EndpointsFollow
PROPERTY BridgeReturns AppliersGoOn ViewSettles
CHECK_DEADLOCK FALSE
