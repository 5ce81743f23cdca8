SPECIFICATION Spec
CONSTANTS
    a = a
    b = b
    Sessions = {s1, s2}
    Mails = {m1, m2, m3}
    Owner <- MCOwner
    Accounts = {a, b}
    Recipients = {r1, r2}
    Limit = 2
    None = None
    MaxFaults = 2
    MaxTries = 2
    MaxAdmin = 1
SYMMETRY Symmetry
CHECK_DEADLOCK FALSE
INVARIANTS
    SentCopyMeansQueued
    JobsAreExplained
    LimitOverrunIsBounded
    SuspendedIsShutOut
