SPECIFICATION PersistentSpec
CONSTANTS
    c1 = c1
    c2 = c2
    s1 = s1
    s2 = s2
    Callers <- MCCallers
    Seqs <- MCSeqs
    Counts <- MCCounts
    Environment <- Crashes
INVARIANTS
    OneStopSequence
    HonestStopped
    StopDiscipline
PROPERTIES
    FollowsCycle
    StoppingResolves
    StalePlayersCleared
