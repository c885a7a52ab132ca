SPECIFICATION FairSpec
CONSTANTS
    Types = {"plain", "tls", "ssl"}
    None = None
    MaxChallenges = 2
    q1 = q1
    q2 = q2
    q3 = q3
    Asks = {q1, q2, q3}
    MaxWire = 2
INVARIANTS
    TypeOK
    LoginIsGranted
    LastAnswerDelivered
PROPERTIES
    LoginEnds
    ImplementsLogin
CHECK_DEADLOCK FALSE
