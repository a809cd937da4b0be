SPECIFICATION LifecycleSpec
CONSTANTS
    s1 = s1
    s2 = s2
    s3 = s3
    Sessions <- MCSessions
SYMMETRY MCSymmetry
INVARIANTS
    LifecycleTypeOK
    IdsUnique
    TableIsExact
