SPECIFICATION Spec
CONSTANTS
    W = 4
    Many = 3
    Programs <- MCEqualPrograms
    Ram <- MCRam
    Rom <- MCRom
    SymbolOf <- MCSymbolOf
CHECK_DEADLOCK FALSE
INVARIANT StatesCover
