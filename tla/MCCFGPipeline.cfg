CONSTANTS
    Features <- MCFeatures
    Processors <- MCProcessors
    Usages <- MCUsages
    Makers <- MCMakers
    NoProcessor = "NoProcessor"
    Faulty <- MCFaulty
    Cleaned <- MCCleaned
    Loaded <- MCLoaded
    MaxNodes = 10
    Tools = {"Virtualizer", "DelayedBuilder", "LoopUnroller", "LoopInfoBuilder"}
    Wanted = {"COLLECTED_CFG", "VIRTUALIZED_CFG", "DELAYED_CFG", "DOMINANCE", "LOOP_INFO", "UNROLLED_LOOPS"}
    Dropped = {"COLLECTED_CFG"}
    MaxGraphs = 4
SPECIFICATION PSpec
INVARIANTS
    PipelineTypeOK
    CollectionReady
    ResultsCurrent
    NoDataFault
    ResultsRemoved
