SPECIFICATION Spec
CONSTANTS
    s1 = s1
    s2 = s2
    d1 = d1
    w1 = w1
    manager = manager
    k1 = k1
    NoRole = NoRole
    NoKey = NoKey
    MutatingKinds = {"closeout-approval"}
    EnforcedKinds = {"closeout-approval"}
    Roles = {manager}
    OpenEvidence = {FALSE}
    SeamKinds = {"master-handover-approval"}
    Keys = {k1}
    Kinds = {"closeout-approval", "master-handover-approval"}
    Mcp = {s1}
    Dashboard = {d1}
    Worker = {w1}
    MaxGates = 2
    MaxClock = 4
    MaxInFlight = 2
    CanCrash = TRUE
    Policy <- SeamNeedsEvidence
    Verdicts <- MixedVerdicts
CONSTRAINT WithinRetention
INVARIANTS TypeOK SpentOnce ActsAreAuthorised RecoveryOwnsSpend
PROPERTY SpentVerdictSurvivesReclaim
CHECK_DEADLOCK FALSE
