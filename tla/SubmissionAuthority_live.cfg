SPECIFICATION FairSpec
CONSTANTS
    Requests = {r1, r2}
    Cockpit = {r1}
    MaxOps = 2
    MaxSetters = 0
    TimelineLimit = 2
    LedgerLimit = 2
    Reconciles = TRUE
    PreflightSends = FALSE
    PreflightBreaks = FALSE
    None = None
PROPERTIES QueueMoves WithdrawnIsFinal
CHECK_DEADLOCK FALSE
