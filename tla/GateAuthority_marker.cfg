SPECIFICATION Spec
CONSTANTS
    s1 = s1
    s2 = s2
    d1 = d1
    w1 = w1
    manager = manager
    k1 = k1
    NoRole = NoRole
    NoKey = NoKey
    MutatingKinds = {"closeout-approval"}
    EnforcedKinds = {"closeout-approval"}
    Roles = {manager}
    OpenEvidence = {FALSE}
    SeamKinds = {}
    Keys = {}
    Kinds = {"closeout-approval", "master-handover-approval"}
    Mcp = {s1, s2}
    Dashboard = {}
    Worker = {}
    MaxGates = 2
    MaxClock = 6
    MaxInFlight = 2
    CanCrash = FALSE
    Policy <- ManagerDecidesLeafGates
    Verdicts <- PeerVerdicts
SYMMETRY SessionSymmetry
PROPERTY SpentMarkerGoverns
CHECK_DEADLOCK FALSE
