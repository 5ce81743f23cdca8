SPECIFICATION FairSpec
CONSTANTS
    Keys = {k1, k2, k3, k4, k5}
    None = None
    Modes = {TRUE, FALSE}
    Lifetime = 6
    PrepareBefore = 4
    PropagationWait = 2
    CacheTime = 2
    MaxFaults = 3
INVARIANTS
    PublishedCoversServed
    CachedCoversServed
    NeverExpires
PROPERTIES
    RolloverCompletes
