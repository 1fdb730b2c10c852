CONSTANTS
    Kinds <- AllKinds
    CaseValues = {1, 2}
    Supported = TRUE
    MaxStatements = 6
    MixedStatements = 4
    MaxDepth = 6
    MaxFunctions = 2
    TraceLength = 6
SPECIFICATION Spec
CONSTRAINT Bounded
INVARIANTS TypeOK JumpsResolved BlocksNest JumpsNeverEnterBlock OnlyBreaksLeaveLocals
    ExecutesAsWritten
