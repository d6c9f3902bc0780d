SPECIFICATION ServeSpec
CONSTANTS
    a = a
    b = b
    None = None
    Ids = {a, b}
    AttemptIds = {1}
    Lanes = {0, 1}
    Samplings = {s1}
    MaxGeneration = 3
    Eligible <- Both
    ThinkOpen <- Nobody
    GpuFaults <- NoFault
    Resets = 0
    MaxTokens = 1
SYMMETRY Symmetric
INVARIANTS
    ServeTypeOK
    DoneIsCommitted
    NoSilentEnd
PROPERTIES
    CommitIsRecorded
