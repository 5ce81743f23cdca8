CONSTANTS
    Jobs = {j1}
    Workers = {w1}
    BatchSize = 1
    MaxMX = 2
    Lease = 5
    MaxFaults = 1
    MaxReclaims = 1
    MaxAdmin = 0
    DeliveryWindow = 20
    JitterPercent = {100}
    Sites <- MCSites
    DaneEnabled = TRUE
    MtaStsEnabled = TRUE
    AbsentFor = 10
    DefaultAge = 5
    AgeCap = 12
    MaxMisses = 1
    MaxChanges = 1
SPECIFICATION SecureSpec
CHECK_DEADLOCK FALSE
PROPERTIES
    PolicyIsNoticed
    PolicyIsNotPinned
