SPECIFICATION PlannerSpec
CONSTANTS
    OpTypes <- MCOpTypes
    Graphs <- MCGraphs
    OptionSets <- MCOptions
    MaxCreates = 2
    MaxRuns = 2
INVARIANT OpsInOrder
INVARIANT NoLiveSharing
INVARIANT OutputsRight
PROPERTY CreateEnds
