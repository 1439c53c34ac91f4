\* The end that comes back finds its old socket still in the room.
CONSTANTS
    d1 = d1
    t1 = t1
    s1 = s1
    k1 = k1
    m1 = m1
    m2 = m2
    c1 = c1
    None = None
    Devices = {d1}
    Technicians = {t1}
    Sessions = {s1}
    DeviceSockets = {k1}
    TechnicianSockets = {m1, m2}
    Calls = {c1}
SPECIFICATION Spec
INVARIANTS
    ReconnectionsAreAnnounced
