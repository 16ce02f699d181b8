SPECIFICATION Spec
CONSTANTS
    Cpus <- MCCpus
    Capacity = 1
    MIN_LOCAL_LAT = 3
    MIN_REMOTE_LAT = 4
    EWMA_EXP = 2
    Mixes <- MCMixes
    Kinds = {"local", "remote", "hit", "nopage", "throttle"}
    Word = 0
    None = None
    MaxCharges = 2
INVARIANTS TypeOK CountedOnce
PROPERTIES SteadyLatencyIsPublished IdleLowersTheFlag
