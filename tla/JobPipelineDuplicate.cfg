\* A client repeats complete while the job is queued; nothing ever fails.
SPECIFICATION Spec
CONSTANTS
    Jobs = {j1}
    Runs = {r1, r2}
    NoJob = NoJob
    MaxRetries = 1
    Calls = {"repeat"}
    MaxCalls = 1
    MaxCrashes = 0
    LlmEnabled = TRUE
    Faults = {}
    Exhausted = {"caught"}
INVARIANT DuplicateDeliveryIsSafe
CHECK_DEADLOCK FALSE
