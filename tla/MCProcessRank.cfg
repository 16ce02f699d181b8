SPECIFICATION Spec
CONSTANTS
    p1 = p1
    p2 = p2
    p3 = p3
    Processes <- MCProcesses
    MaxProcesses = 3
    MaxRetries = 2
    NoFile = NoFile
    Empty = Empty
INVARIANTS TypeOK MutualExclusion CountsEveryProcess
PROPERTIES CompactWhileInOrder StartEnds ImplementsRankService
