SPECIFICATION FairSpec
CONSTANTS
    Pages = {p1, p2}
    Slots = {s1, s2}
    NoPage = NoPage
    NoHandle = NoHandle
    Watched = {p1}
    PAGE_TOKENS = 2
    CapPages = 2
    GENERATIONS = 8
    MaxGeneration = 3
    MaxRefs = 1
INVARIANTS
    TypeOK
    PageAccounting
    TableRefsExact
    PrivateIsUnshared
    HandleIsExact
PROPERTIES
    SealedStaysSealed
    ReclaimCompletes
