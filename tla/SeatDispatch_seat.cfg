SPECIFICATION Spec
CONSTANTS
    c1 = c1
    c2 = c2
    Operator = Operator
    Sweeper = Sweeper
    Nobody = Nobody
    Callers = {c1, c2}
    FailureThreshold = 1
    MaxGenerations = 2
    MaxFaults = 1
SYMMETRY CallerSymmetry
INVARIANTS TypeOK OneOccupant RollbackSparesBriefed
PROPERTIES BatchLosesNothing
