CONSTANTS
    Client = "client"
    Server = "server"
    Openers = {"client"}
    Targets = {"method"}
    QueueSize = 2
    MaxStreams = 2
    MethodReadsFirst = TRUE
    MaxSid = 1
    MaxWrites <- OneEach
    NetCap = 3
    AppMayClose = FALSE
    LinkMayFail = FALSE
    StartMayFail = FALSE
SPECIFICATION Spec
CHECK_DEADLOCK FALSE
INVARIANT DataHandled
