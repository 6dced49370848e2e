CONSTANTS
    Client = "client"
    Server = "server"
    Openers = {"client"}
    Targets = {"method"}
    QueueSize = 2
    MaxStreams = 2
    MethodReadsFirst = FALSE
    MaxSid = 1
    MaxWrites <- ThreeOne
    NetCap = 3
    AppMayClose = TRUE
    LinkMayFail = FALSE
    StartMayFail = FALSE
SPECIFICATION Spec
CHECK_DEADLOCK FALSE
INVARIANTS
    InOrder
    PeersKeepProtocol
PROPERTIES
    ImplementsFlow
    ClosedStaysClosed
