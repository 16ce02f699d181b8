SPECIFICATION TotalSpec
CONSTANTS
    Bandwidths <- MCBandwidths
    Cutoff = 1000
    MaxListSize = 2
INVARIANTS
    TypeOK
    WeightsTrackRatio
PROPERTIES
    ReversalsDamped
    ParksAtTheBetterRatio
    ConstantBandwidthParks
