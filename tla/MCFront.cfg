CONSTANTS
    FileSystems <- MCFileSystems
    MainPath <- MCMain
    MaxOpen = 3
    SourceDefine <- MCDefine
SPECIFICATION MCSpec
INVARIANTS TypeOK LoadsExpansion LibraryReadsBack
PROPERTIES Terminates Preprocesses EveryStepReads
