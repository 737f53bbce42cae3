\* A tender deleted and restored while its only document is processed.
SPECIFICATION Spec
CONSTANTS
    Jobs = {j1}
    Runs = {r1}
    NoJob = NoJob
    MaxRetries = 1
    Calls = {"delete"}
    MaxCalls = 2
    MaxCrashes = 0
    LlmEnabled = TRUE
    Faults = {}
    Exhausted = {"caught"}
INVARIANT TenderShowsResult
CHECK_DEADLOCK FALSE
