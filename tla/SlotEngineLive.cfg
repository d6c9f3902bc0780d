CONSTANTS
    r1 = r1
    r2 = r2
    r3 = r3
    r4 = r4
    a = a
    b = b
    Requests = {r1, r2, r3, r4}
    Conversations = {a, b}
    Conv <- MCConv
    Turn <- MCTurn
    Kind <- MCKind
    Grant <- HugeLast
    Slots <- OneSlot
    Long = {}
    Weights = 1
    Budget = 4
    MAX_WAITERS = 2
    MAX_SESSIONS = 3
    QueueTimeout = TRUE
    SessionTTL = FALSE
    Faults = {}
    Leavers = {}
    MaxSteps = 0
SPECIFICATION FairSpec
PROPERTIES
    AllAnswered
