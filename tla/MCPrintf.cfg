CONSTANTS
    Calls <- MCCalls
    BufferSize = 20
SPECIFICATION Spec
INVARIANTS TypeOK DigitsWorthValue PrintsAsC
PROPERTY CallEnds
CHECK_DEADLOCK FALSE
