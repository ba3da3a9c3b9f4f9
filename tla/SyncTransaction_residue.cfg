SPECIFICATION Spec
CONSTANTS
    MaxSource = 2
    MaxOwn = 1
    MaxEdits = 0
    MaxSyncs = 2
    MaxCrashes = 1
    Corruptible = FALSE
INVARIANTS ResidueIsOwn
CHECK_DEADLOCK FALSE
