CONSTANTS
    Jobs = {j1, j2}
    Workers = {w1}
    BatchSize = 2
    MaxMX = 1
    Lease = 5
    MaxFaults = 0
    MaxReclaims = 0
    MaxAdmin = 0
    DeliveryWindow = 20
    JitterPercent = {100}
SPECIFICATION Spec
CHECK_DEADLOCK FALSE
INVARIANTS
    LocalFailureIsRetried
