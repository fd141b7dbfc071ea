CONSTANTS
    Features <- MCFeatures
    Processors <- MCProcessors
    Usages <- MCUsages
    Makers <- MCMakers
    NoProcessor = "NoProcessor"
    Faulty <- MCFaulty
    Cleaned <- MCCleaned
    Loaded <- MCLoaded
    MaxNodes = 7
SPECIFICATION Spec
INVARIANTS
    GraphInv
    NoDangling
    NoAssertFails
    InvalidationEffective
PROPERTIES
    CallReturns
    ImplementsFeatureGraph
