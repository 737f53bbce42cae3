\* One document, one worker slot that keeps working: every fault, a crash, a retry.
SPECIFICATION FairSpec
CONSTANTS
    Jobs = {j1}
    Runs = {r1}
    NoJob = NoJob
    MaxRetries = 1
    Calls = {"repeat", "retry", "delete"}
    MaxCalls = 2
    MaxCrashes = 1
    LlmEnabled = TRUE
    Faults = {"raise", "quota", "kill", "record", "publish"}
    Exhausted = {"caught", "escapes"}
PROPERTIES JobSettles
\* Once the users' calls are used up and every message is consumed, it stops.
CHECK_DEADLOCK FALSE
