SPECIFICATION Spec
CONSTANTS
    Res = {"r1", "r2"}
    Group = {"Friends"}
    None = None
    Closed = Closed
    MaxMessages = 2
    MaxActs = 5
    MaxPushes = 2
    Edits = TRUE
    Removes = {FALSE}
    Requests = FALSE
    Reconnects = FALSE
    Starts = {""}
INVARIANTS
    TypeOK
    AttachedIsOpen
    RemovalIsFinished
    ShownAsTold
CHECK_DEADLOCK FALSE
