SPECIFICATION Spec
CONSTANTS
    i1 = i1
    i2 = i2
    i3 = i3
    a1 = a1
    a2 = a2
    Ids = {i1, i2, i3}
    Apps = {a1, a2}
    AppOf <- OneOther
    Limit = 1
    MaxCloses = 2
    MaxFailures = 1
    MaxOverwrites = 1
    Failing = {"load", "put", "remove", "destroy"}
CHECK_DEADLOCK FALSE
SYMMETRY IdSymmetry
INVARIANTS
    ChecksHold
    CountsSettle
    CountsCoverStore
    LimitEnforced
