SPECIFICATION Spec
CONSTANTS
    MainSize = 5
    Degree = 2
    K = 3
    N <- MCN
    Entries <- MCEntries
    Graphs <- MCGraphs
    CfgOf <- MCCfgOf
    Exits <- MCExits
    Programs <- MCPrograms
    Effect <- MCEffect
    FixPoints = {"default", "unrolling", "widening"}
INVARIANTS
    NoNullMark
    ResultsExact
    CfgMatches
    MarksRemoved
    DominanceCorrect
    EnclosingCorrect
    ExitEdgesCorrect
PROPERTY Solves
