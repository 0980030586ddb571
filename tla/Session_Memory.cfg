SPECIFICATION Spec
CONSTANTS
    SizeClasses <- MCClasses
    ChunkBytes = 4
    Align = 2
    GiB = 8
    DialSteps = 64
    Models <- MCModels
    Args <- MCArgs
    Avail = {0, 6, 12, 20}
    Reuse = {TRUE, FALSE}
    Strategies = {"pool", "arena"}
    Orphans <- MCOrphans
    MaxChunks = 8
INVARIANT BudgetIsTrue
INVARIANT BuffersApart
INVARIANT PlanKeepsBudget
INVARIANT TrunkIsLargest
INVARIANT PhoneFitsFreeMemory
