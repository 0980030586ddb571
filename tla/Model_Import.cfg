SPECIFICATION Spec
CONSTANTS
    Families = {"gguf", "hf"}
    Faults = {"missing", "unsupported", "unlisted", "renamed", "broken"}
    Quants = {"Q4_1", "Q5_0", "Q5_1", "Q8_0", "IQ4_NL", "Q2_K", "Q3_K", "Q4_K", "Q5_K", "Q6_K"}
    Residence = {"reuse", "naive", "stream"}
    Files <- MCFiles
INVARIANT KernelsAccept
INVARIANT RotatedAlike
INVARIANT CacheFits
INVARIANT WholeFilesLoad
INVARIANT DecodedAlike
INVARIANT FalseReportsExplained
