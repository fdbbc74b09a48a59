SPECIFICATION Spec
CONSTANTS
    Words = {"prog", "ext", "prot_int"}
    Flags = {"-l"}
    DefaultMode = "int"
    MaxArgs = 5
INVARIANTS
    DocumentedFormStarts
    StartsOnlyWhatWasGiven
    TargetByName
CHECK_DEADLOCK FALSE
