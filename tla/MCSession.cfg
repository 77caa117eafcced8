\* Two sessions can be opened and two taken while two messages are on their way;
\* a tick is half the time to live.  No symmetry: one of the properties is liveness.
SPECIFICATION Spec
CONSTANTS
    NewRequests = {n1, n2}
    CompileRequests = {c1, c2}
    CommandRequests = {x1}
    MessageRequests = {m1, m2}
    SessionTTL = 2
    Expiry = Expiry
INVARIANTS TypeOK HandedOverOnce KeysExpireTogether
PROPERTIES NoItemVanishes ImplementsBatching StaleKeysAreCleaned
CHECK_DEADLOCK FALSE
