SPECIFICATION Spec
CONSTANTS
    Families = {"moe"}
    Faults = {}
    Quants = {"Q4_K"}
    Residence = {"naive", "stream"}
    Files <- MCFiles
INVARIANT PackedIsDecoded
