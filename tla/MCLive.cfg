CONSTANTS
    Client = "client"
    Server = "server"
    Openers = {"client"}
    Targets = {"method", "no_method", "no_service"}
    QueueSize = 1
    MaxStreams = 1
    MethodReadsFirst = TRUE
    MaxSid = 2
    MaxWrites <- NoWrites
    NetCap = 2
    AppMayClose = TRUE
    LinkMayFail = TRUE
    StartMayFail = TRUE
SPECIFICATION FairSpec
CHECK_DEADLOCK FALSE
INVARIANT DestroyedIsUnused
PROPERTIES
    OpenReturns
    CloseReleasesAll
