SPECIFICATION Spec
CONSTANTS
    p1 = p1
    p2 = p2
    Procs <- MCProcs
    MaxUpdates = 3
    Faults <- AnyFault
SYMMETRY Symmetry
INVARIANTS
    FailedStaysGone
    BackupLagsByOne
