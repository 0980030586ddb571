SPECIFICATION Spec
CONSTANTS
    w1 = w1  w2 = w2  e1 = e1  e2 = e2  e3 = e3
    NoWeight = NoWeight
    Torn = Torn
    Weights <- MCWeights
    Experts <- MCExperts
    Bytes <- MCBytes
    TotalBytes <- MCTotalBytes
    StagingBytes = 2
    StagingSlots = 2
    ExpertCacheBytes = 2
    MinExpertBudget = 3
    MaxHot = 1
    Failures <- MayTear
INVARIANT StagedIntact
