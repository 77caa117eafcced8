\* Nothing fails but the handler.
SPECIFICATION Spec
CONSTANTS
    StreamTasks = {s1}
    CompileTasks = {k1}
    FinanceTasks = {s1}
    MaxRetries = 1
    None = None
    Faults = {}
INVARIANTS FailureIsRecorded
CHECK_DEADLOCK FALSE
