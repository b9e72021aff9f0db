SPECIFICATION FairSpec
CONSTANTS
    r1 = r1
    r2 = r2
    r3 = r3
    t1 = t1
    t2 = t2
    i1 = i1
    None = None
    Requests = {r1, r2, r3}
    Tenants = {t1, t2}
    Integrations = {i1}
    Plans <- AllPlans
    MaxFaults = 2
INVARIANTS
    OnlyRacesLeaveTraces
    StaleIsExcused
PROPERTIES
    CachesConverge
CHECK_DEADLOCK FALSE
