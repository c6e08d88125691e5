SPECIFICATION Spec
CONSTANTS
    h1 = h1
    h2 = h2
    u1 = u1
    u2 = u2
    t1 = t1
    t2 = t2
    f1 = f1
    f2 = f2
    None = None
    Handlers <- TwoHandlers
    Users <- TwoUsers
    Tokens <- TwoTokens
    Files <- TwoFiles
SYMMETRY Symmetry
INVARIANTS
    RecordsHaveBytes
    AnswersHold
PROPERTY
    DownloadsWhole
