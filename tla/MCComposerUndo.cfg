SPECIFICATION Spec
CONSTANTS
    Countdown = 2
    MaxEdits = 2
    MaxPresses = 2
    MaxSaves = 2
    MaxFaults = 0
CHECK_DEADLOCK FALSE
INVARIANT
    UndoneIsNotSent
