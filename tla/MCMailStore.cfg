CONSTANTS
    Messages = {m1, m2}
    Folders = {inbox, reports, own}
    Standard = {inbox, reports}
    Inbox = inbox
    Drafts = inbox
    Reports = reports
    Blobs = {b1}
    Flags = {"Seen", "Draft"}
    Copiers = {c1}
    Filers = {r1}
    Clients = {k1}
    None = None
    MaxOps = 4
SPECIFICATION Spec
SYMMETRY Symmetry
CHECK_DEADLOCK FALSE
INVARIANTS
    CountersAreTrue
    QuotaIsTrue
    ReferencesAreCounted
    UidsAreUnique
    CachedFlagsAreCurrent
PROPERTIES
    UidsAreNotReused
    ModseqFollowsChanges
