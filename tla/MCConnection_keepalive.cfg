SPECIFICATION Spec
CONSTANTS
    Con = {1, 2}
    None = None
    Shows = {"online"}
    AutoReconnect = TRUE
    AskPlain = FALSE
    AskPassphrase = FALSE
    OddErrors = FALSE
    MaxAttempts = 1
    MaxResolving = 1
    MaxAlarms = 1
PROPERTIES
    KeepaliveFindsFailure
