CONSTANTS
    Client = "client"
    Server = "server"
    Openers = {"client", "server"}
    Targets = {"method"}
    QueueSize = 1
    MaxStreams = 2
    MethodReadsFirst = TRUE
    MaxSid = 2
    MaxWrites <- OneOnly
    NetCap = 2
    AppMayClose = FALSE
    LinkMayFail = FALSE
    StartMayFail = FALSE
SPECIFICATION Spec
CHECK_DEADLOCK FALSE
INVARIANTS
    StreamSurvivesOpen
    WriteLockExclusion
    NoLostWakeup
