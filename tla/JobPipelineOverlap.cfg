\* One document, two worker slots: deliveries overlap, processes are lost, phases raise.
SPECIFICATION Spec
CONSTANTS
    Jobs = {j1}
    Runs = {r1, r2}
    NoJob = NoJob
    MaxRetries = 1
    Calls = {"repeat", "retry"}
    MaxCalls = 1
    MaxCrashes = 1
    LlmEnabled = TRUE
    Faults = {"raise"}
    Exhausted = {"caught", "escapes"}
SYMMETRY Symmetry
INVARIANTS TypeOK NoPhaseSkipped ReadyIsGrounded NoOrphan RowConsistent
PROPERTIES LegalTransitions ReadyIsFinal
\* Once the users' calls are used up and every message is consumed, it stops.
CHECK_DEADLOCK FALSE
