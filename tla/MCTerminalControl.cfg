SPECIFICATION TerminalSpec
CONSTANTS
    None = None
    Ids = {a}
    AttemptIds = {t1, t2}
    Lanes = {l1}
    MaxGeneration = 2
SYMMETRY AttemptSymmetry
INVARIANTS
    TerminalTypeOK
    SoleOwner
    OneTerminalPerOwner
    CommitNeedsReady
    AdoptionIsExact
PROPERTIES
    AbortSurvivesTransfer
    DecisionIsFinal
CHECK_DEADLOCK FALSE
