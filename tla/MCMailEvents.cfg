SPECIFICATION FairEventsSpec
CONSTANTS
    Instances = {"i1", "i2"}
    Buffer = 1
    BatchSize = 1
    MaxMessages = 2
    MaxFetches = 3
    MaxFaults = 1
CHECK_DEADLOCK FALSE
INVARIANTS
    QuietPageHasShownAll
PROPERTY
    AllEventsPublished
