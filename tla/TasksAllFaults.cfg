\* Everything that can fail does, around one finance and two compile messages.
SPECIFICATION Spec
CONSTANTS
    StreamTasks = {s1}
    CompileTasks = {k1, k2}
    FinanceTasks = {s1, k1}
    MaxRetries = 2
    None = None
    Faults = {"database", "disk", "limits", "messenger"}
INVARIANTS TypeOK OneProjectPerTask ToldOnceAfterCommit FailedTaskHasNoCompletedProject CompileLeavesNoFile
PROPERTIES EveryTaskEnds
CHECK_DEADLOCK FALSE
