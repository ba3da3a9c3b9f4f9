SPECIFICATION Spec
CONSTANTS
    Requests = {r1, r2}
    Cockpit = {r1, r2}
    MaxOps = 4
    MaxSetters = 1
    TimelineLimit = 2
    LedgerLimit = 2
    Reconciles = TRUE
    PreflightSends = TRUE
    PreflightBreaks = TRUE
    None = None
    MaxAsides = 1
INVARIANTS TypeOK WireInOrder RecalledNeverSent UnfinishedIsPinned CallKeepsDispatch
SYMMETRY RequestSymmetry
CONSTRAINT FewAsides
CHECK_DEADLOCK FALSE
