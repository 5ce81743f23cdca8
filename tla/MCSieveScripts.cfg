CONSTANTS
    MaxRules = 16
    Automatic = "auto"
    Conns = {c1, c2}
    Savers = {w1, w2}
    Names = {rules, vacation, other}
    Saved = {rules, vacation}
    Scripts <- MCScripts
    Accepted <- MCAccepted
    NoName = none
    MaxCommands = 5
    MaxDeaths = 1
    Trials <- MCTrials
    Facts = {"a", "b", "auto"}
    Values <- MCValues
    Patterns <- MCPatterns
SPECIFICATION Spec
SYMMETRY Symmetry
CHECK_DEADLOCK FALSE
INVARIANTS
    RunsWhatWasActivated
    RulesMeanWhatTheySay
    WildcardsMatch
