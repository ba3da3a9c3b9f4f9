SPECIFICATION Spec
CONSTANTS
    s1 = s1
    s2 = s2
    poster1 = poster1
    stalled = stalled
    idle = idle
    NoSession = NoSession
    NoCause = NoCause
    Sessions = {s1, s2}
    SeatSessions = {s1, s2}
    Causes = {idle}
    Posters = {poster1}
    MaxRows = 1
    Cap = 2
    AttemptLimit = 1
    MaxCrashes = 0
    MaxAsides = 1
    CauseKind <- KindOfCauses
    Subject <- SubjectOfCauses
    Posts <- BriefPosts
INVARIANT LandedWasSent
PROPERTY TerminalIsFinal
CONSTRAINT FewAsides
SYMMETRY SessionSymmetry
CHECK_DEADLOCK FALSE
