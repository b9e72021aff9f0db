SPECIFICATION FairSpec

CONSTANTS
    w1 = w1
    w2 = w2
    d1 = d1
    d2 = d2
    d3 = d3
    Wamids = {w1, w2}
    Deliveries = {d1, d2, d3}
    WamidOf <- SecondCopy
    Malformed = {d3}
    MaxFaults = 2
    MaxRevocations = 1
    RedisMayFail = TRUE

INVARIANTS
    AckedMeansDelivered
    UncorrelatedOnlyIfInterrupted
    DuplicatesAreExplained

PROPERTIES
    DeliveriesSettle

CHECK_DEADLOCK FALSE
