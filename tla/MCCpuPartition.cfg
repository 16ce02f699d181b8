SPECIFICATION Spec
CONSTANTS
    Machines <- MCMachines
    ProcessLimits <- MCProcessLimits
    MaxThreads = 4
INVARIANTS TypeOK SharesDisjoint RoundRobinBalances FirstThreadsApart
CHECK_DEADLOCK FALSE
