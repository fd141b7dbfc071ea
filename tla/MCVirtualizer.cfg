SPECIFICATION Spec
CONSTANTS
    Size <- MCSize
    MaxCalls = 3
    Programs <- MCPrograms
INVARIANTS
    PathsCovered
    EdgesReal
    BlocksWhole
    InliningBounded
    NoAssertFails
CHECK_DEADLOCK FALSE
