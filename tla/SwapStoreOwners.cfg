SPECIFICATION Spec
CONSTANTS
    Stores = {s1, s2, s3}
    Inodes = {i1, i2, i3, i4}
    Keys = {k1}
    Sizes = {1, 2}
    HEADER = 1
    HostBudget = 1
    DiskBudget = 4
    Faults = {}
    None = None
INVARIANTS
    OneOwner
CHECK_DEADLOCK FALSE
