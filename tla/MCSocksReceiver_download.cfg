SPECIFICATION Spec
CONSTANTS
    Hosts <- ThreeHosts
    None = None
    Size = 2
    AtOnce <- Refused
    CancelEarly = FALSE
INVARIANTS
    TypeOK
    OneStreamhost
    EndedIsClosed
    SomethingIsAwaited
    ToldRight
PROPERTIES
    ImplementsDownload
