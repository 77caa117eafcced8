\* One bot, which a migration may have inserted; every fault.
SPECIFICATION Spec
CONSTANTS
    Bots = {b1}
    Seeded = {b1}
    Types = {"TG", "MX"}
    Secrets = {s1, s2, s3}
    SecretTypes = {"MX"}
    Forms = {f1, f2}
    Creators = {c1}
    Editors = {e1, e2}
    Togglers = {t1, t2}
    Updates = {u1}
    None = None
    NoRow = NoRow
    NoSub = NoSub
    Faults = {"max", "crash"}
SYMMETRY Symmetry
INVARIANTS TypeOK RegisteredBeforeVisible NobodyIsTurnedAway
PROPERTIES LoneRequestsCount
CHECK_DEADLOCK FALSE
