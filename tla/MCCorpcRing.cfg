CONSTANTS
    QueueSize = 3
    MaxSent = 5
    Capacity = 3
    Item = {1, 2, 3, 4, 5}
    None = None
SPECIFICATION RingSpec
CHECK_DEADLOCK FALSE
INVARIANTS
    CreditsConserved
    RoomForArrivals
    InOrder
    RingHoldsQueue
PROPERTY ImplementsQueue
