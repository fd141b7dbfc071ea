SPECIFICATION FSpec
CONSTANTS
    Size <- MCSize
    MaxCalls = 3
    Programs <- MCPrograms
INVARIANTS
    ContextExact
    BoundsJustified
    BoundsFound
    AllProcessed
PROPERTY TraversalEnds
CHECK_DEADLOCK FALSE
