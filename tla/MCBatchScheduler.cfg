SPECIFICATION BatchSpec
CONSTANTS
    None = None
    Ids = {a, b}
    AttemptIds = {1}
    Lanes = {0, 1}
    Samplings = {s1, s2}
    MaxGeneration = 2
SYMMETRY IdSymmetry
INVARIANTS
    SchedulerTypeOK
    LaneOwnsItsEntry
    HeldOnce
    PendingIsCurrent
    OneCohort
PROPERTY
    CommittedLaneIsAuthorised
CHECK_DEADLOCK FALSE
