SPECIFICATION Spec
CONSTANTS
    Deciders = {dashboard, mcp}
    Compactors = {mcp}
    AttemptLimit = 2
    MaxQuestions = 1
    MaxDecisions = 2
    MaxGates = 2
    MaxCrashes = 1
INVARIANTS
    TypeOK
    AnsweredOnce
    AppliedWasTaken
    NotSentIsTrue
    OffersBounded
PROPERTIES
    DecisionServed
CHECK_DEADLOCK FALSE
