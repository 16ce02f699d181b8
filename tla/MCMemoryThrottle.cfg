SPECIFICATION Spec
CONSTANTS
    p1 = p1
    p2 = p2
    n1 = n1
    n2 = n2
    b1 = b1
    b2 = b2
    Processes = {p1, p2}
    Nodes = {n1, n2}
    Buses = {b1, b2}
    NodeList <- MCNodeList
    BusList <- MCBusList
    BusOf <- MCBusOf
    Channels = 2
    TargetBw = 5
    InitialValue = 1
    Increment = 2
    Full = 7
    MinPoints = 3
    MaxPoints = 5
    Bandwidth <- MCBandwidth
    Jitter = {0}
    None = None
    MaxStarts = 3
    MaxTraining = 1
INVARIANTS TypeOK ThrottledToClosestAfterFirst LastOneUnthrottles
PROPERTY FilesAreTrue
SYMMETRY MCSymmetry
CHECK_DEADLOCK FALSE
