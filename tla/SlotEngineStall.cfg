CONSTANTS
    r1 = r1
    r2 = r2
    r3 = r3
    r4 = r4
    a = a
    b = b
    Requests = {r1, r2, r3}
    Conversations = {a, b}
    Conv <- MCConv
    Turn <- FreshTurn
    Kind <- FreshKind
    Grant <- HugeSecond
    Slots <- OneSlot
    Long = {}
    Weights = 1
    Budget = 4
    MAX_WAITERS = 2
    MAX_SESSIONS = 2
    QueueTimeout = FALSE
    SessionTTL = FALSE
    Faults = {}
    Leavers = {}
    MaxSteps = 1
SPECIFICATION FairSpec
PROPERTIES
    NextWaiterPopped
