SPECIFICATION ServeSpec
CONSTANTS
    a = a
    b = b
    None = None
    Ids = {a, b}
    AttemptIds = {1}
    Lanes = {0}
    Samplings = {s1}
    MaxGeneration = 3
    Eligible <- Both
    ThinkOpen <- First
    GpuFaults <- NoFault
    Resets = 0
    MaxTokens = 1
INVARIANTS
    NoSilentEnd
