\* The disk: three persist tasks that may overlap, failures and a crash.  The registries: two registers and a
\* deregister, and for the local one a receiver of a channel of two and a call of another kind.
\* The watch: three changes and a channel of one, and ids one of which is another behind a '/'.
SPECIFICATION MCSpec
CONSTANTS
    None = None
    Nothing = Nothing
    Absent = Absent
    MaxPersists = 3
    Size <- MCSize
    MaxCrashes = 1
    Ids <- MCIds
    KeyOf <- MCKeyOf
    Segment <- MCSegment
    Vals = {u1}
    Registers = {r1, r2}
    Deregs = {d1}
    Watchers = {w1}
    RingCap = 2
    MaxEdits = 2
    Junk = Junk
    ChanCap = 1
    MaxPuts = 3
INVARIANT SourcesTypeOK ReadableUnlessMixed StreamTells WatchTells HeldIsNoted
PROPERTY ReplacedAtOnce PumpEnds
CHECK_DEADLOCK FALSE
