\* Two tabs per user, both verification flows.
SPECIFICATION Spec
CONSTANTS
    Users = {u1, u2}
    Codes = {a, b}
    Tabs = {t1, t2}
    None = None
    OTPTTL = 3
    RateTTL = 2
    MaxTries = 2
    CabinetVerify = TRUE
SYMMETRY Symmetry
INVARIANTS TypeOK CodeIsTheUsers
PROPERTIES RateLimitGate
