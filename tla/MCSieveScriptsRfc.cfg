CONSTANTS
    MaxRules = 16
    Automatic = "auto"
    Conns = {c1}
    Savers = {}
    Names = {rules}
    Saved = {}
    Scripts = {}
    Accepted = {}
    NoName = none
    MaxCommands = 1
    MaxDeaths = 0
    Trials <- MCTwoRules
    Facts = {"a", "b"}
    Values = {}
    Patterns = {}
SPECIFICATION Spec
CHECK_DEADLOCK FALSE
INVARIANTS
    RulesAreSieve
