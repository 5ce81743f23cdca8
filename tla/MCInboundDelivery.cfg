SPECIFICATION Spec
CONSTANTS
    x = x
    Sessions = {s1, s2}
    Mails = {m1, m2, job}
    Local = {job}
    JobTo <- MCJobTo
    Mailboxes = {x}
    Addresses = {"x", "alias"}
    Resolve <- MCResolve
    Direct = {"x"}
    ReportAddresses = {"alias"}
    Folders <- MCFolders
    Decisions = {"discard", "vacation"}
    Quota = 1
    None = None
    MaxFaults = 1
    MaxTries = 3
SYMMETRY Symmetry
CHECK_DEADLOCK FALSE
INVARIANTS
    AcceptedIsStored
    CopiesAreExplained
    RefusedIsNotStored
    QuotaOverrunIsBounded
    ToldOnce
