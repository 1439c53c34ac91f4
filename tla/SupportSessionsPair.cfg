\* Two tablets and two technicians, two calls at a time.
CONSTANTS
    d1 = d1
    d2 = d2
    t1 = t1
    t2 = t2
    r1 = r1
    r2 = r2
    s1 = s1
    s2 = s2
    c1 = c1
    c2 = c2
    None = None
    Devices = {d1, d2}
    Technicians = {t1, t2}
    Requests = {r1, r2}
    Sessions = {s1, s2}
    Calls = {c1, c2}
    EmitMayFail = FALSE
    QueriesMayFail = FALSE
    MayDisconnect = FALSE
SYMMETRY Symmetry
SPECIFICATION LivingSpec
INVARIANTS
    Inductive
    Consistent
    Exclusive
    SafetyNetsUnused
    NoDeadlock
    NoticesAreTrue
    NoticesAreNew
PROPERTIES
    HistoryIsKept
    ImplementsLifecycle
    RowsAreAsExpected
