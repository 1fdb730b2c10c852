CONSTANTS
    Addresses <- MCAddresses
    Stored <- MCStored
    Files <- MCFiles
    Calls <- MCCalls
    NewLine = 10
    NoByte = 255
SPECIFICATION Spec
INVARIANT TypeOK
PROPERTIES MeetsContract CallsEnd
CHECK_DEADLOCK FALSE
