SPECIFICATION Spec
CONSTANTS
    t1 = t1
    Threads <- MCThreads
    Slots <- MCSlots
    MinEpoch = 2
    MaxEpoch = 3
    StatsEnabled = TRUE
    NoRecord = NoRecord
INVARIANTS TypeOK RaisedFlagIsAnswered
PROPERTIES EpochsMinApart EpochsKeepComing
