\* A handshake and a deactivation at the same time.
CONSTANTS
    d1 = d1
    r1 = r1
    k1 = k1
    c1 = c1
    None = None
    Devices = {d1}
    Credentials = {r1}
    Sockets = {k1}
    Calls = {c1}
    QueriesMayFail = FALSE
SPECIFICATION Spec
INVARIANTS
    DeactivatedIsOffline
