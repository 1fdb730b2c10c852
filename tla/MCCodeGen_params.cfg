CONSTANTS
    Programs <- AllPrograms
    Kinds = {"variables"}
    CodeStart = 65620
    ELF_START = 65536
    HeaderLen = 84
    MaxFrame = 2047
    BranchReach = 16
    Values <- SampleValues
    Truths = {0, 1}
SPECIFICATION ElfSpec
INVARIANTS ParamsKept
