SPECIFICATION FairSpec
CONSTANTS
    s1 = s1
    s2 = s2
    poster1 = poster1
    stalled = stalled
    idle = idle
    NoSession = NoSession
    NoCause = NoCause
    Sessions = {s1}
    SeatSessions = {s1}
    Causes = {}
    Posters = {poster1}
    MaxRows = 1
    Cap = 2
    AttemptLimit = 1
    MaxCrashes = 0
    MaxAsides = 0
    CauseKind <- KindOfCauses
    Subject <- SubjectOfCauses
    Posts <- OwnerPosts
INVARIANT TypeOK
PROPERTY EveryRowResolves
CHECK_DEADLOCK FALSE
