SPECIFICATION FairSpec
CONSTANTS
    PThread = {p1}
    NCpu = 2
    MaxJobs = 2
    Kinds = {"thread", "io"}
    QueueCap = 1
    CcMax = 2
    MayFail = TRUE
INVARIANTS NoDeadCoroutine NoLostStart OwnAnswer
CHECK_DEADLOCK FALSE
PROPERTY RequestsServed
