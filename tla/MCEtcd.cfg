\* Two registrations one after the other and any number of deregisters, failing requests.
SPECIFICATION LiveSpec
CONSTANTS
    None = None
    MaxRegisters = 2
    Leases = {l1, l2}
    Racing = FALSE
    MaxDeregs = 1
    MaxStalls = 0
INVARIANT TypeOK SoleKeeper
PROPERTY GoneInTheEnd KeptRegistered
CHECK_DEADLOCK FALSE
