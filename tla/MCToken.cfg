SPECIFICATION FairSpec

CONSTANTS
    t1 = t1
    t2 = t2
    t3 = t3
    p1 = p1
    Requests = {t1, t2, t3}
    Forced = {t3}
    Replicas = {p1}
    ReplicaOf <- OneReplica
    Free = Free
    Orphan = Orphan
    MaxWaits = 1
    DegradedLimit = 1
    MaxFaults = 1
    LockOverrun = FALSE

INVARIANTS
    ExchangesAreExclusive

PROPERTIES
    ImplementsIssuer
    RequestsSettle

CHECK_DEADLOCK FALSE
