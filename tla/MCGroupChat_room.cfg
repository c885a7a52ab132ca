SPECIFICATION FairSpec
CONSTANTS
    Nick = {"a", "b", "c"}
    Role <- MCRole
    None = None
    Mine = {"a", "b"}
    Chats = {1}
    Changes = TRUE
    Renames = TRUE
    Leaves = TRUE
    Loses = TRUE
    MaxActs = 5
    MaxStanzas = 3
INVARIANTS
    TypeOK
    KnowsItself
    RoomIsShown
PROPERTIES
    NobodyLingers
    JoinIsAnswered
CHECK_DEADLOCK FALSE
