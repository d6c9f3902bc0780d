SPECIFICATION ServeSpec
CONSTANTS
    a = a
    b = b
    None = None
    Ids = {a, b}
    AttemptIds = {1}
    Lanes = {0}
    Samplings = {s1}
    MaxGeneration = 3
    Eligible <- Both
    ThinkOpen <- First
    GpuFaults <- AnyFault
    Resets = 1
    MaxTokens = 1
INVARIANTS
    AbortIsRecorded
    IdleOwnsNothing
PROPERTIES
    KeepsContract
