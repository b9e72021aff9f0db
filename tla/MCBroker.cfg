SPECIFICATION FairConnectionSpec
CONSTANTS
    None = None
    Services = {"state", "genesys", "portal", "webhook"}
    Conns = {k1, k2, k3}
    MaxAttempts = 4
    MaxFailures = 3
INVARIANTS
    TwinsExplained
    DeafExplained
PROPERTIES
    PublisherRecovers
CHECK_DEADLOCK FALSE
