SPECIFICATION Spec
CONSTANTS
    p1 = p1
    p2 = p2
    Procs <- MCProcs
    MaxUpdates = 3
    Faults <- Crashes
INVARIANTS
    AckedSurvives
    MemoryIsDisk
PROPERTY
    KeepsPromise
