CONSTANTS
    Size = 3
    A = 3
    MaxAge = 4
SPECIFICATION Spec
INVARIANTS
    AlwaysMissSound
