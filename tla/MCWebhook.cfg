\* Updates for either kind of bot, each delivered up to twice; everything fails.
SPECIFICATION Spec
CONSTANTS
    NewUpdates = {n}
    CompileUpdates = {c}
    CommandUpdates = {}
    MessageUpdates = {m}
    StreamUpdates = {s}
    ReportUpdates = {r}
    HelpUpdates = {h}
    PressUpdates = {p}
    ButtonUpdates = {c}
    Attempts = 2
    MaxRepeats = 1
    SessionTTL = 1
    Expiry = Expiry
    Faults = {"storage", "broker", "messenger", "process", "patience"}
INVARIANTS TypeOK TwiceOnlyAfterTrouble AcceptedIsAccountedFor
CHECK_DEADLOCK FALSE
