SPECIFICATION Spec
CONSTANTS
    Kinds = {"bounded"}
    ReadsFail = FALSE
INVARIANT TotalHasBothSamples
