SPECIFICATION Spec
CONSTANTS
    s1 = s1
    s2 = s2
    poster1 = poster1
    stalled = stalled
    idle = idle
    NoSession = NoSession
    NoCause = NoCause
    Sessions = {s1}
    SeatSessions = {s1}
    Causes = {stalled}
    Posters = {}
    MaxRows = 2
    Cap = 3
    AttemptLimit = 1
    MaxCrashes = 0
    MaxAsides = 1
    CauseKind <- KindOfCauses
    Subject <- SubjectOfCauses
    Posts <- NoPosts
INVARIANT OneRowPerCause
CONSTRAINT FewInterventions
CHECK_DEADLOCK FALSE
