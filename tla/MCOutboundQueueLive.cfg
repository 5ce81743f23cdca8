CONSTANTS
    Jobs = {j1}
    Workers = {w1}
    BatchSize = 1
    MaxMX = 2
    Lease = 5
    MaxFaults = 1
    MaxReclaims = 1
    MaxAdmin = 1
    DeliveryWindow = 200
    JitterPercent = {80}
SPECIFICATION FairSpec
CHECK_DEADLOCK FALSE
INVARIANTS
    DelayNoticeOnce
PROPERTIES
    EveryJobSettles
