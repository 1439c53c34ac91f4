\* A rename and a deactivation at the same time.
CONSTANTS
    d1 = d1
    r1 = r1
    k1 = k1
    c1 = c1
    c2 = c2
    None = None
    Devices = {d1}
    Credentials = {r1}
    Sockets = {k1}
    Calls = {c1, c2}
    QueriesMayFail = FALSE
SPECIFICATION Spec
PROPERTIES
    OnlyGivenFieldsChange
