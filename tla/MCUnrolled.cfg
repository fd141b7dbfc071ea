SPECIFICATION Spec
CONSTANTS
    CoreSize = 3
    MaxIter = 2
    Slack = 1
    N <- MCN
    Entries <- MCEntries
    Exits <- MCExits
    Graphs <- MCGraphs
    CfgOf <- MCCfgOf
    Programs <- MCPrograms
INVARIANT UnrolledAdmits
