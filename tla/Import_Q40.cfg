SPECIFICATION Spec
CONSTANTS
    Families = {"gguf"}
    Faults = {}
    Quants = {"Q4_0"}
    Residence = {"reuse"}
    Files <- MCFiles
INVARIANT DecodedAlike
