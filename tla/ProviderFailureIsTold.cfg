\* Nothing fails but the AI providers.
SPECIFICATION Spec
CONSTANTS
    StreamTasks = {s1}
    CompileTasks = {k1}
    FinanceTasks = {s1}
    MaxRetries = 1
    None = None
    Faults = {}
INVARIANTS ProviderFailureIsTold
CHECK_DEADLOCK FALSE
