SPECIFICATION StatusSpec
CONSTANTS
    Messages = {m1}
    Consumers = {c1, c2}
    LegacyCallers = {r1}
    Times = {1, 2, 3, 4}
    InvalidDate = InvalidDate
    Untracked = Untracked
    Unlisted = Unlisted
    NoJob = NoJob
INVARIANTS NoABA
PROPERTIES ImplementsLifecycle IllegalOnlyByRacingRoute
CHECK_DEADLOCK FALSE
