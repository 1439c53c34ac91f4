\* Two technicians ask for a code at the same time.
CONSTANTS
    d1 = d1
    e1 = e1
    e2 = e2
    k1 = k1
    c1 = c1
    c2 = c2
    None = None
    Devices = {d1}
    Codes = {e1, e2}
    Credentials = {k1}
    Calls = {c1, c2}
    MaxFailedAttempts = 2
SYMMETRY Symmetry
SPECIFICATION Spec
INVARIANTS
    LatestCodeOnly
