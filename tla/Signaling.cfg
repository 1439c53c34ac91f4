\* Two sessions of one technician with two tablets, two tabs of hers.
CONSTANTS
    d1 = d1
    d2 = d2
    t1 = t1
    s1 = s1
    s2 = s2
    k1 = k1
    m1 = m1
    m2 = m2
    c1 = c1
    c2 = c2
    None = None
    Devices = {d1, d2}
    Technicians = {t1}
    Sessions = {s1, s2}
    DeviceSockets = {k1}
    TechnicianSockets = {m1, m2}
    Calls = {c1, c2}
SYMMETRY Symmetry
SPECIFICATION Spec
INVARIANTS
    Inductive
    RoomsAreTheirs
    PeersAreAnnounced
    OneEndKnows
    OneSessionEach
    NothingAfterClose
