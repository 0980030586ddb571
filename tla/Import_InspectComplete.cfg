SPECIFICATION Spec
CONSTANTS
    Families = {"hf"}
    Faults = {"missing"}
    Quants = {}
    Residence = {"reuse", "stream"}
    Files <- MCFiles
INVARIANT InspectComplete
