\* A phase that keeps raising, until no retry is left.
SPECIFICATION Spec
CONSTANTS
    Jobs = {j1}
    Runs = {r1}
    NoJob = NoJob
    MaxRetries = 1
    Calls = {}
    MaxCalls = 0
    MaxCrashes = 0
    LlmEnabled = TRUE
    Faults = {"raise"}
    Exhausted = {"escapes"}
INVARIANT ExhaustedJobFails
CHECK_DEADLOCK FALSE
