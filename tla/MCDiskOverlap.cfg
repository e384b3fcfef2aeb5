\* Persist tasks that overlap.
SPECIFICATION Spec
CONSTANTS
    Nothing = Nothing
    MaxPersists = 2
    Size <- MCSize
    MaxCrashes = 1
INVARIANT Readable
CHECK_DEADLOCK FALSE
