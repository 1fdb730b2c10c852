SPECIFICATION AnySpec
CONSTANTS
    Names <- MCWords
    Declarators <- MCPlain
    Fields = {}
    Parameters <- MCPlainParameters
    Enumerators = {}
    FunctionNames = {"main"}
    TypeNames = {}
    MAX_PARAMS = 8
    MaxItems = 6
INVARIANT UsesAgree
CHECK_DEADLOCK FALSE
