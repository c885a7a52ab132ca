SPECIFICATION Spec
CONSTANTS
    a = a
    b = b
    Party = {a, b}
    None = None
    Empty = Empty
    Closed = Closed
    Prefers <- Differently
    Short <- OfB
    AtBare = {b}
    MaxThreads = 1
    MaxActs = 4
    MaxSessions = 3
INVARIANTS
    TypeOK
    InStep
    LoggingAgreed
    NotAlone
    NobodyWaitsInVain
PROPERTIES
    KeyAgreed
CHECK_DEADLOCK FALSE
