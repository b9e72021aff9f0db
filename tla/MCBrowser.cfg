SPECIFICATION FairSpec
CONSTANTS
    a = a
    b = b
    t1 = t1
    t2 = t2
    None = None
    Users = {a, b}
    Tasks = {t1, t2}
    Uses <- TwoUses
    MaxTries = 2
    MaxFaults = 1
INVARIANTS
    SignedOutStaysOut
    ScreenShowsOwner
PROPERTIES
    QueueEmpties
    SignOutShows
CHECK_DEADLOCK FALSE
