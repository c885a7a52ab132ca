SPECIFICATION Spec
CONSTANTS
    Con = {1, 2}
    None = None
    Shows = {"online", "invisible"}
    AutoReconnect = TRUE
    AskPlain = TRUE
    AskPassphrase = TRUE
    OddErrors = TRUE
    MaxAttempts = 1
    MaxResolving = 2
    MaxAlarms = 1
INVARIANTS
    ConnectionInUse
