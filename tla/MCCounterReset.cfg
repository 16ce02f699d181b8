SPECIFICATION ESpec
CONSTANTS
    p1 = p1
    p2 = p2
    t1 = t1
    t2 = t2
    c1 = c1
    c2 = c2
    c3 = c3
    stalls = stalls
    misses = misses
    Processes <- MCProcesses
    Threads = {t1}
    Cpus <- MCCpus
    ProcessOf <- MCProcessOf1
    CpuOf <- MCCpuOf1
    HwEvents = {stalls, misses}
    Stalls = stalls
    Wanted <- MCWanted
    NumCounters = {2}
    CounterLimit = 16
    Off = Off
    None = None
    MaxHappened = 4
    MaxStarts = 2
    Microarchs <- MCMicroarchs
    Latency <- MCLatency
    Targets = {3}
    Hits = {0}
    Misses = {1}
    Costs = {1}
    MaxEpochs = 2
INVARIANT NoMoreThanHappened
CHECK_DEADLOCK FALSE
