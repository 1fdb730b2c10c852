CONSTANTS
    Kinds = {"switch", "statement"}
    CaseValues = {1}
    Supported = FALSE
    MaxStatements = 4
    MaxDepth = 3
    MaxFunctions = 1
    MixedStatements = 4
    TraceLength = 4
SPECIFICATION Spec
INVARIANTS ExecutesAsWritten
