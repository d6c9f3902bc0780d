CONSTANTS
    r1 = r1
    r2 = r2
    r3 = r3
    r4 = r4
    a = a
    b = b
    Requests = {r1, r2, r3, r4}
    Conversations = {a, b}
    Conv <- MCConv
    Turn <- MCTurn
    Kind <- MCKind
    Grant <- MCGrant
    Slots <- MCSlots
    Long = {r3}
    Weights = 1
    Budget = 5
    MAX_WAITERS = 2
    MAX_SESSIONS = 2
    QueueTimeout = TRUE
    SessionTTL = TRUE
    Faults = {"full", "over", "pages", "grammar", "begin", "dn_reset", "capture", "unpark", "restore", "lru_disk", "poison"}
    Leavers = {r2}
    MaxSteps = 1
SPECIFICATION Spec
INVARIANTS
    EngineTypeOK
    SlotsExact
    GrantsExact
    SnapshotsOwned
    WaitersExact
    OneAnswer
PROPERTIES
    AgeKept
    ConversationsApart
