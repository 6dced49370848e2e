SPECIFICATION Spec
CONSTANTS
    Caller = {"c1", "c2"}
    Sock = {"s"}
    Plain = {"f"}
    Workloads <- Receiver
    Size = 2
    Cap = 1
INVARIANT NoStaleIorq
CHECK_DEADLOCK FALSE
