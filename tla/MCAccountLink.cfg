\* An update, delivered up to twice, and a call of the endpoint, for two accounts; one value
\* serves two codes.  One user is there from the start; the other one registers, is edited
\* and deleted at any time.
SPECIFICATION Spec
CONSTANTS
    u = u
    v = v
    k = k
    l = l
    Accounts = {a, b}
    Companies <- MCCompanies
    Users <- MCUsers
    CompanyOf <- MCCompanyOf
    Members = {v}
    Shadows = {s1, s2}
    Codes = {c}
    HookRequests = {r1}
    ApiRequests = {p1}
    None = None
    MaxIssues = 2
    MaxDeliveries = 2
    Edited = {u}
    Faults = {"database", "messenger", "crash"}
INVARIANTS TypeOK OneLinkPerCode AccountResolvesToOne
PROPERTIES OnlyOwnCodeMovesAccount EveryRequestEnds
CHECK_DEADLOCK FALSE
