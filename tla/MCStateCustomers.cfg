SPECIFICATION Spec

CONSTANTS
    a1 = a1
    a2 = a2
    w1 = w1
    w2 = w2
    d1 = d1
    d2 = d2
    d3 = d3
    c1 = c1
    c2 = c2
    r1 = r1
    i1 = i1
    i2 = i2
    i3 = i3
    i4 = i4
    WaIds = {a1, a2}
    Wamids = {w1, w2}
    Deliveries = {d1, d3}
    Malformed = {}
    Conversations = {c1, c2}
    Replies = {r1}
    Readers = {}
    MappingIds = {i1, i2}
    WaOf <- TwoCustomers
    WamidOf <- SecondCopy
    ConvWa <- TwoOwners
    ConvOf <- RepliesInFirst
    None = None
    MaxRetries = 1
    MaxFaults = 1
    LockOverrun = FALSE
    DayPasses = TRUE
    RedisMayFail = FALSE
    WamidNullable = TRUE

SYMMETRY IdSymmetry

INVARIANTS
    ReplyReachesOwner

CHECK_DEADLOCK FALSE
