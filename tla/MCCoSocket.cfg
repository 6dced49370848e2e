SPECIFICATION FairSpec
CONSTANTS
    Caller = {"c1", "c2"}
    Sock = {"s"}
    Plain = {"f"}
    Workloads <- AllWorkloads
    Size = 2
    Cap = 1
INVARIANT NoLostReadiness
PROPERTIES ShortOnlyByTimeout CallsReturn
CHECK_DEADLOCK FALSE
