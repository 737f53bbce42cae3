\* Two documents of one tender that is deleted and restored; no LLM provider.
SPECIFICATION TenderSpec
CONSTANTS
    Jobs = {j1, j2}
    Runs = {r1, r2}
    NoJob = NoJob
    MaxRetries = 0
    Calls = {"delete"}
    MaxCalls = 2
    MaxCrashes = 0
    LlmEnabled = FALSE
    Faults = {"raise"}
    Exhausted = {"caught"}
    Docs = {j1, j2}
    Concurrency = 2
    Sizes = {1}
    StorageLimit = 1
    DocumentLimit = 1
    PendingTtl = 0
    Retention = 0
    MaxTime = 1
SYMMETRY TenderSymmetry
INVARIANTS TenderHasReadyJob StorageTypeOK NoOrphanObject QuotasKept FileKept DeletedStaysHidden AcceptedStays
\* Once the users' calls are used up, every message is consumed or time is up, it stops.
CHECK_DEADLOCK FALSE
