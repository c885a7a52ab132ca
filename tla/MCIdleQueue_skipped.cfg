SPECIFICATION Spec
CONSTANTS
    Fd = {1}
    Obj = {o1}
    Alarm = {a1, a2}
    None = None
    Wanted <- ReadersAndWriters
    Raises = FALSE
    MaxTime = 2
    o1 = o1
    a1 = a1
    a2 = a2
PROPERTIES
    DueAreRun
