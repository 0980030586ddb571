SPECIFICATION Spec
CONSTANTS
    Families = {"hf"}
    Faults = {"late"}
    Quants = {}
    Residence = {"reuse"}
    Files <- MCFiles
INVARIANT OwnWeights
