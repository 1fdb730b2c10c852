CONSTANTS
    OperatorTokens = {"t_log_and", "t_log_or", "t_eq", "t_lt", "t_plus", "t_lshift", "t_ampersand", "t_star"}
    Constructs <- AllConstructs
    Variables <- MCPointers
    StartRegs = {0, 1}
    MAX_PARAMS = 2
    MaxReg = 6
    MaxTokens = 9
    NestedTokens = 5
    MaxDepth = 6
    MaxArgs = 2
SPECIFICATION Spec
CONSTRAINT Bounded
INVARIANTS TypeOK StackBalanced RegistersPreserved FirstOperandSurvives ArgumentsInPlace
    OpStackOrdered NoUnexpectedEnd GroupsByPriority
