\* Two deliveries at once: the older event may be written last.
SPECIFICATION Spec
SYMMETRY Symmetry
CONSTANTS
    Txns = {t1, t2}
    MonthLength = 2
    MaxTime = 4
    MaxEvents = 3
    MaxCalls = 1
    Requests = {"checkout", "cancel"}
    Dated = TRUE
    Faults = {}
PROPERTY EventOrder
CHECK_DEADLOCK FALSE
