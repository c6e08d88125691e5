SPECIFICATION FairSpec
CONSTANTS
    c1 = c1
    c2 = c2
    p1 = p1
    Hub = Hub
    None = None
    Clients <- TwoClients
    Silent <- SecondSilent
    Breaking <- FirstBreaks
    Publishers <- OnePublisher
    QueueSize = 1
    MaxEvents = 1
PROPERTIES
    PublishReturns
    DeadClientsLeave
