\* A cancelled subscription ends, also when the events never come and carry no dates.
SPECIFICATION FairSpec
CONSTANTS
    Txns = {t1}
    MonthLength = 2
    MaxTime = 4
    MaxEvents = 3
    MaxCalls = 1
    Requests = {"checkout", "change", "cancel"}
    Dated = FALSE
    Faults = {"commit", "mark", "lost"}
PROPERTY CancelledEnds
CHECK_DEADLOCK FALSE
