SPECIFICATION FairSpec
CONSTANTS
    Con = {1, 2}
    None = None
    Shows = {"online"}
    AutoReconnect = TRUE
    AskPlain = FALSE
    AskPassphrase = FALSE
    OddErrors = FALSE
    MaxAttempts = 2
    MaxResolving = 2
    MaxAlarms = 2
INVARIANTS
    TypeOK
    OneClient
    StatusIsTrue
    ConnectingIsUnderWay
    LoginContinues
PROPERTIES
    KeepsTrying
    ClosingEnds
