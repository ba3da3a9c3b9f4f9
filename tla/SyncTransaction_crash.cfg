SPECIFICATION Spec
CONSTANTS
    MaxSource = 1
    MaxOwn = 1
    MaxEdits = 1
    MaxSyncs = 2
    MaxCrashes = 2
    Corruptible = TRUE
CONSTRAINTS FewFaults SecondIsPlain
INVARIANTS TypeOK AuthorityPinned ParkedWorkKept SyncLogChains
PROPERTIES TerminalReturnsWork OwnCommitsKept AllOrNothing
CHECK_DEADLOCK FALSE
