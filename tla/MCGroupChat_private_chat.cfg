SPECIFICATION Spec
CONSTANTS
    Nick = {"a", "b", "c"}
    Role <- MCRole
    None = None
    Mine = {"a"}
    Chats = {1, 2}
    Changes = FALSE
    Renames = TRUE
    Leaves = FALSE
    Loses = FALSE
    MaxActs = 5
    MaxStanzas = 3
PROPERTIES
    OpensOwn
CHECK_DEADLOCK FALSE
