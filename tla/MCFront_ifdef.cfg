CONSTANTS
    FileSystems <- MCDefining
    MainPath <- MCMain
    MaxOpen = 3
    SourceDefine <- MCDefine
SPECIFICATION MCSpec
INVARIANT IfdefFindsDefine
