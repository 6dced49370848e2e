SPECIFICATION FairSpec
CONSTANTS
    c1 = c1
    c2 = c2
    c3 = c3
    k1 = k1
    k2 = k2
    None = None
    CoThread = {c1}
    PThread = {p1}
    Core = {k1}
    home <- Homes
    Timeouts = {"none", "running"}
INVARIANTS MutualExclusion NoLostUnlock NoLostSignal
PROPERTIES ImplementsMonitor SignalledReturns
