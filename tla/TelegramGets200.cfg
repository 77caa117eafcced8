\* Nothing fails and nobody is edited: two updates, two accounts, two companies.
SPECIFICATION Spec
CONSTANTS
    u = u
    v = v
    k = k
    l = l
    Accounts = {a, b}
    Companies <- MCCompanies
    Users <- MCUsers
    CompanyOf <- MCCompanyOf
    Members = {}
    Shadows = {s1, s2}
    Codes = {c}
    HookRequests = {r1, r2}
    ApiRequests = {}
    None = None
    MaxIssues = 2
    MaxDeliveries = 1
    Edited = {}
    Faults = {}
INVARIANTS TelegramGets200
CHECK_DEADLOCK FALSE
