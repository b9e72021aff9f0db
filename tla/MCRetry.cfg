SPECIFICATION FairSpec

CONSTANTS
    m1 = m1
    m2 = m2
    Messages = {m1, m2}
    Services = {"inbound", "outbound", "whatsapp"}
    Mixes <- OneOfAnyKind
    Tags = {1, 2}
    MaxRetries = 2
    MaxFaults = 2

INVARIANTS
    LossIsExplained

PROPERTIES
    MessagesSettle

CHECK_DEADLOCK FALSE
