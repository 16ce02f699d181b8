SPECIFICATION Spec
CONSTANTS
    N = 4
    NChains = 2
    UINT64_MAX = 99
INVARIANTS TypeOK EveryElementOnce
PROPERTY Ends
CHECK_DEADLOCK FALSE
