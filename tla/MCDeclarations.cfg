SPECIFICATION SupportedSpec
CONSTANTS
    Names <- MCWords
    Declarators <- MCDeclarators
    Fields <- MCFields
    Parameters <- MCParameters
    Enumerators <- MCEnumerators
    FunctionNames = {"f", "main"}
    TypeNames = {"t", "u"}
    MAX_PARAMS = 8
    MaxItems = 6
INVARIANTS TypeOK SizesAsWritten UsesAgree CallsEnterFunction
PROPERTY FollowsScope
CHECK_DEADLOCK FALSE
