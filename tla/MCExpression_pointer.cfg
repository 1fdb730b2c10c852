CONSTANTS
    OperatorTokens = {"t_plus", "t_star"}
    Constructs = {"variable", "pointer +"}
    Variables <- MCBytes
    StartRegs = {0}
    MAX_PARAMS = 4
    MaxReg = 5
    MaxTokens = 7
    NestedTokens = 7
    MaxDepth = 4
    MaxArgs = 0
SPECIFICATION Spec
INVARIANT ProductsBeforeSums
