SPECIFICATION Spec
CONSTANTS
    Res = {"r1", "r2"}
    Group = {"Friends"}
    None = None
    Closed = Closed
    MaxMessages = 2
    MaxActs = 4
    MaxPushes = 2
    Edits = TRUE
    Removes = {TRUE, FALSE}
    Requests = TRUE
    Reconnects = TRUE
    Starts = {""}
INVARIANTS
    ShownSomewhere
PROPERTIES
    UnreadStaysQueued
CHECK_DEADLOCK FALSE
