SPECIFICATION RunSpec
CONSTANTS
    w1 = w1  w2 = w2  w3 = w3  e1 = e1  e2 = e2  e3 = e3  e4 = e4  e5 = e5
    NoWeight = NoWeight
    Torn = Torn
    Weights <- ManyWeights
    Experts <- ManyExperts
    Bytes <- ManyBytes
    TotalBytes <- ManyTotalBytes
    StagingBytes = 2
    StagingSlots = 2
    ExpertCacheBytes = 2
    MinExpertBudget = 2
    MaxHot = 2
    Failures <- NoTear
    Plans <- TwoMixtures
    TopK = 2
    MaxCopies = 1
    Modes <- Host
INVARIANT KernelReadsItsWeights
