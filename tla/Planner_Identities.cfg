SPECIFICATION PlannerSpec
CONSTANTS
    OpTypes <- MCOpTypes
    Graphs <- ChainOfIdentities
    OptionSets <- MCOptions
    MaxCreates = 1
    MaxRuns = 1
INVARIANT OutputsRight
