\* Progress of calls and notices.
CONSTANTS
    d1 = d1
    t1 = t1
    r1 = r1
    s1 = s1
    c1 = c1
    c2 = c2
    None = None
    Devices = {d1}
    Technicians = {t1}
    Requests = {r1}
    Sessions = {s1}
    Calls = {c1, c2}
    EmitMayFail = FALSE
    QueriesMayFail = TRUE
    MayDisconnect = TRUE
SPECIFICATION FairSpec
INVARIANTS
    NothingIsForgotten
PROPERTIES
    EveryCallIsAnswered
    EveryChangeIsAnnounced
