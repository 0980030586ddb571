SPECIFICATION Spec
CONSTANTS
    SizeClasses <- MCClasses
    ChunkBytes = 4
    Align = 2
    GiB = 8
    DialSteps = 64
    Models <- MCModels
    Args <- LaptopArgs
    Avail = {0}
    Reuse = {TRUE}
    Strategies = {"pool"}
    Orphans <- MCOrphans
    MaxChunks = 8
INVARIANT TrunkFits
