\* The first event of a subscription is never delivered.
SPECIFICATION FairSpec
CONSTANTS
    Txns = {t1}
    MonthLength = 2
    MaxTime = 2
    MaxEvents = 2
    MaxCalls = 0
    Requests = {"checkout"}
    Dated = TRUE
    Faults = {"lost"}
PROPERTY PaymentOpensAccess
CHECK_DEADLOCK FALSE
