SPECIFICATION Spec
CONSTANTS
    Stores = {s1, s2}
    Inodes = {i1, i2, i3}
    Keys = {k1, k2, k3}
    Sizes = {1, 2}
    HEADER = 1
    HostBudget = 1
    DiskBudget = 4
    Faults = {"unlink", "write", "rename", "chmod", "lock"}
    None = None
SYMMETRY Symmetric
INVARIANTS
    StoreTypeOK
    ChargesCover
PROPERTY SpillsKept
CHECK_DEADLOCK FALSE
