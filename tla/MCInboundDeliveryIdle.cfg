SPECIFICATION Spec
CONSTANTS
    x = x
    Sessions = {s1}
    Mails = {m1, m2}
    Local = {}
    JobTo <- MCJobTo
    Mailboxes = {x}
    Addresses = {"x", "nobody"}
    Resolve <- MCResolve
    Direct = {"x"}
    ReportAddresses = {}
    Folders <- MCFolders
    Decisions = {"keep", "file"}
    Quota = 2
    None = None
    MaxFaults = 0
    MaxTries = 2
SYMMETRY Symmetry
CHECK_DEADLOCK FALSE
INVARIANT
    IdleClientsAreCurrent
