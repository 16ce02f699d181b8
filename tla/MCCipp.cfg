SPECIFICATION Spec
CONSTANTS
    Bandwidths <- MCBandwidths
    Cutoff = 1000
    MaxListSize = 2
INVARIANTS
    TypeOK
    WeightsTrackRatio
PROPERTIES
    LocalOnlyWhenBandwidthFalls
    UnsaturatedGoesLocal
    ConstantBandwidthSettles
