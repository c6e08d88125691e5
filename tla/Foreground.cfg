SPECIFICATION FairSpec
CONSTANTS
    h1 = h1
    h2 = h2
    tv = tv
    server = server
    nonsense = nonsense
    None = None
    Handlers <- TwoHandlers
    Modes <- TwoModes
    Targets <- Asked
    DefaultMode = tv
    MaxSessions = 2
INVARIANTS
    RunningIsKnown
    ModeEventsTrue
PROPERTIES
    FillsSlot
    RequestsEnd
