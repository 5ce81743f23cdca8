SPECIFICATION FairSpec
CONSTANTS
    Timer = "timer"
    Buttons = {"button"}
    Names <- MCNames
    Txt = {"bimi"}
    Shared = {"bimi"}
    Bimi = "bimi"
    Wanted <- MCWanted
    LogoOnly = "logo"
    Other = "other"
    None = "none"
    MaxIds = 4
    MaxChanges = 1
    MaxUpsets = 1
INVARIANTS
    HandMadeIsKept
    VerifiedMeansRight
PROPERTIES
    ComesRight
