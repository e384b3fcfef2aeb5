\* A lease that runs out under a heartbeat that works.
SPECIFICATION LiveSpec
CONSTANTS
    None = None
    MaxRegisters = 1
    Leases = {l1, l2}
    Racing = FALSE
    MaxDeregs = 1
    MaxStalls = 1
PROPERTY KeptRegistered
CHECK_DEADLOCK FALSE
