SPECIFICATION ShellSpec
CONSTANTS
    r1 = r1
    r2 = r2
    Requests <- MCRequests
    MaxTokens = 3
    MaxDevices = 3
SYMMETRY Symmetry
INVARIANTS
    OneDevicePerToken
    OneFirstPrimary
    OnlyRevocationOrphans
    RevokedStaysRevoked
    StoredKeyWorks
PROPERTIES
    TokenDiscipline
    StaysPaired
    AnnouncedWasStored
