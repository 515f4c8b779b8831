SPECIFICATION UpdaterSpec
CONSTANTS
    Tip = 2
    Good = {1}
    Needs <- MCNeeds
    MaxCuts = 1
INVARIANTS NeverLeftDown
