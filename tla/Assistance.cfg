\* One tablet, two technicians and one socket of either end, two calls and one
\* message at a time; the process may die and restart.
CONSTANTS
    d1 = d1
    t1 = t1
    t2 = t2
    r1 = r1
    s1 = s1
    c1 = c1
    c2 = c2
    k1 = k1
    m1 = m1
    g1 = g1
    None = None
    Devices = {d1}
    Technicians = {t1, t2}
    Requests = {r1}
    Sessions = {s1}
    Calls = {c1, c2}
    DeviceSockets = {k1}
    TechnicianSockets = {m1}
    Messages = {g1}
    EmitMayFail = TRUE
    QueriesMayFail = TRUE
    MayDisconnect = TRUE
SYMMETRY Symmetry
VIEW Unannounced
SPECIFICATION AssistanceSpec
INVARIANTS
    OnlyByConsent
