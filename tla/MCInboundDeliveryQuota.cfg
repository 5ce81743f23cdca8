SPECIFICATION Spec
CONSTANTS
    x = x
    Sessions = {s1}
    Mails = {j1, j2}
    Local = {j1, j2}
    JobTo <- MCJobTo
    Mailboxes = {x}
    Addresses = {"x"}
    Resolve <- MCResolve
    Direct = {"x"}
    ReportAddresses = {}
    Folders <- MCFolders
    Decisions = {"discard", "vacation"}
    Quota = 1
    None = None
    MaxFaults = 0
    MaxTries = 3
CHECK_DEADLOCK FALSE
INVARIANT
    UsedWithinQuota
