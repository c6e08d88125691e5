SPECIFICATION Spec
CONSTANTS
    h1 = h1
    h2 = h2
    s1 = s1
    s2 = s2
    i1 = i1
    n1 = n1
    n2 = n2
    Default = Default
    None = None
    Handlers <- TwoHandlers
    Shortcuts <- TwoShortcuts
    Icons <- OneIcon
    Names <- TwoNames
INVARIANTS
    IconsExist
    UpdatesHold
PROPERTY
    RequestsEnd
