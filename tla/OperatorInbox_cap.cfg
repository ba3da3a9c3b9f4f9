SPECIFICATION Spec
CONSTANTS
    s1 = s1
    s2 = s2
    poster1 = poster1
    stalled = stalled
    idle = idle
    NoSession = NoSession
    NoCause = NoCause
    Sessions = {}
    SeatSessions = {}
    Causes = {}
    Posters = {poster1}
    MaxRows = 3
    Cap = 1
    AttemptLimit = 1
    MaxCrashes = 1
    MaxAsides = 1
    CauseKind <- KindOfCauses
    Subject <- SubjectOfCauses
    Posts <- CapPosts
PROPERTIES ReportsAwaitProof PendingOutlivesMarkers
CONSTRAINT FewAsides
CHECK_DEADLOCK FALSE
