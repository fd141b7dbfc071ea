CONSTANTS
    Size = 3
    A = 2
    FirstMissLevel = "MULTI"
    MaxDepth = 1
    InnerJoins = FALSE
SPECIFICATION Spec
INVARIANTS
    AgesInv
    AlwaysHitSound
    WholePersSound
    FirstMissSound
