SPECIFICATION Spec
CONSTANTS
    Families = {"hf"}
    Faults = {"renamed"}
    Quants = {}
    Residence = {"reuse", "stream"}
    Files <- MCFiles
INVARIANT InspectHonest
