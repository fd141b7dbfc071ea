SPECIFICATION Spec
CONSTANTS
    W = 4
    Many = 3
    Programs <- MCPrograms
    Ram <- MCRam
    Rom <- MCRom
    SymbolOf <- MCSymbolOf
CHECK_DEADLOCK FALSE
INVARIANT StatesCover
PROPERTY AnalysisEnds
