\* Three days by half days: the period, the queue and the delivery of a report.
CONSTANTS
    i = i  o = o  r = r  Bare = Bare
    Items = {i, o}
    OtherItems = {o}
    Reports = {r}
    Commands <- MCCommands
    TickHours = 12
    Horizon = 60
    Faults = {"database", "disk", "limits", "messenger", "provider"}
SPECIFICATION Spec
INVARIANTS TypeOK CoversThePeriod SentBeforeIsReported ArrivesOnce NoReportLeft
CHECK_DEADLOCK FALSE
