\* Two callers of each kind of selector, lists of three instances of every age.
SPECIFICATION Spec
CONSTANTS
    None = None
    Ids <- MCIds
    Weights <- MCWeights
    Lists <- MCLists
    Callers = {c1, c2}
    Arcs = {o1, o2, o3}
    MaxSeed = 5
    Keys <- MCKeys
    VirtualNodes <- MCVirtualNodes
    Modulus <- MCModulus
    KeyHash <- MCKeyHash
    NodeHash <- MCNodeHash
    Bytes <- MCBytes
    Tagged <- MCTagged
    MaxDraws = 6
SYMMETRY Alike
INVARIANT TypeOK InFlightIsGuards BusiestLoses Proportional OwnerServes OnlyNewcomerGains Rotation
CHECK_DEADLOCK FALSE
