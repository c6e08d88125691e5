SPECIFICATION FairSpec
CONSTANTS
    c1 = c1
    c2 = c2
    None = None
    Conns <- TwoConns
    Stalled <- SecondStalls
    QueueSize = 1
CHECK_DEADLOCK FALSE
INVARIANTS
    OneOwner
    ClosedWasTold
    TakenIsTrue
PROPERTIES
    EvictedStops
    OwnerIsTold
