SPECIFICATION ESpec
CONSTANTS
    p1 = p1
    p2 = p2
    t1 = t1
    t2 = t2
    c1 = c1
    c2 = c2
    c3 = c3
    stalls = stalls
    misses = misses
    Processes <- MCProcesses
    Threads <- MCThreads
    Cpus <- MCCpus
    ProcessOf <- MCProcessOf
    CpuOf <- MCCpuOf
    HwEvents = {stalls, misses}
    Stalls = stalls
    Wanted <- MCWanted
    NumCounters = {1, 2}
    CounterLimit = 2
    Off = Off
    None = None
    MaxHappened = 2
    MaxStarts = 2
    Microarchs <- MCMicroarchs
    Latency <- MCLatency
    Targets = {0, 3}
    Hits = {0}
    Misses = {1}
    Costs = {1}
    MaxEpochs = 2
INVARIANTS TypeOK NoForeignEvents AtMostOneCpuMissed UndisturbedDiff OverheadIsAmortised
SYMMETRY MCSymmetry
CHECK_DEADLOCK FALSE
