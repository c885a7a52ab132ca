SPECIFICATION Spec
CONSTANTS
    Fd = {1, 2}
    Obj = {o1, o2}
    Alarm = {a1, a2}
    None = None
    Wanted <- ReadersAndWriters
    Raises = TRUE
    MaxTime = 2
    o1 = o1
    o2 = o2
    a1 = a1
    a2 = a2
SYMMETRY Symmetric
INVARIANTS
    TypeOK
    AlarmsAreKept
PROPERTIES
    ClosedIsNotCalled
    SkippedForLater
