CONSTANTS
    Features <- MCFeatures
    Processors <- MCProcessors
    Usages <- MCUsages
    Makers <- MCMakers
    NoProcessor = "NoProcessor"
    Faulty <- MCFaulty
    Cleaned <- MCCleaned
    Loaded <- MCLoaded
    MaxNodes = 9
    Tools = {"LoopReductor", "SubCFGBuilder"}
    Wanted = {"DOMINANCE"}
    Dropped = {}
    MaxGraphs = 3
SPECIFICATION PSpec
INVARIANTS
    NoDataFault
