\* One transaction at a time on one subscription: no overlap, but events in any
\* order and more than once, and failures between the provider and the mirror.
SPECIFICATION Spec
CONSTANTS
    Txns = {t1}
    MonthLength = 2
    MaxTime = 4
    MaxEvents = 4
    MaxCalls = 3
    Requests = {"checkout", "change", "cancel", "resume"}
    Dated = TRUE
    Faults = {"commit", "answer"}
INVARIANTS TypeOK NoEventLost MirrorAgrees
PROPERTY PaidPeriodKept
CHECK_DEADLOCK FALSE
