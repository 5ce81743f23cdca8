CONSTANTS
    s1 = s1
    s2 = s2
    m1 = m1
    m2 = m2
    Sessions = {s1, s2}
    Messages = {m1, m2, m3}
    Arrived <- MCArrived
    Inbox = inbox
    Trash = trash
    Own = own
    None = none
    Selectable = {inbox, own}
    Targets = {inbox, own}
    Criteria <- MCCriteria
    MaxOps = 2
    MaxFaults = 0
SPECIFICATION Spec
SYMMETRY Symmetry
CHECK_DEADLOCK FALSE
INVARIANTS
    LostWasAsked
    MovedNotDoubled
