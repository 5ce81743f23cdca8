CONSTANTS
    Jobs = {j1}
    Workers = {w1, w2}
    BatchSize = 1
    MaxMX = 1
    Lease = 5
    MaxFaults = 1
    MaxReclaims = 1
    MaxAdmin = 1
    DeliveryWindow = 20
    JitterPercent = {100}
SPECIFICATION Spec
SYMMETRY Symmetry
CHECK_DEADLOCK FALSE
INVARIANTS
    ClaimIsExclusive
    BouncedMeansTold
PROPERTIES
    ImplementsJobLife
