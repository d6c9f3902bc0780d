SPECIFICATION FairServeSpec
CONSTANTS
    a = a
    b = b
    None = None
    Ids = {a, b}
    AttemptIds = {1}
    Lanes = {0}
    Samplings = {s1}
    MaxGeneration = 3
    Eligible <- First
    ThinkOpen <- Nobody
    GpuFaults <- Attested
    Resets = 0
    MaxTokens = 1
PROPERTIES
    ImplementsContract
