SPECIFICATION Spec
CONSTANTS
    c1 = c1
    c2 = c2
    p1 = p1
    Hub = Hub
    None = None
    Clients <- TwoClients
    Silent <- SecondSilent
    Breaking <- FirstBreaks
    Publishers <- OnePublisher
    QueueSize = 2
    MaxEvents = 2
INVARIANTS
    InOrder
    NothingLost
