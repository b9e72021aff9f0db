SPECIFICATION FairSpec
CONSTANTS
    Calls = {1, 2}
    Setups <- AllSetups
    MaxFaults = 2
INVARIANTS
    AnsweredMeansQueued
    DuplicatesOnlyByCrash
    InboundEndsExplained
    MetaAcceptsWhatIsSent
PROPERTIES
    PipelineSettles
CHECK_DEADLOCK FALSE
