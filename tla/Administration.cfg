\* Two users, two calls at a time, two devices, two attempts.
CONSTANTS
    u1 = u1
    u2 = u2
    v1 = v1
    v2 = v2
    p1 = p1
    p2 = p2
    c1 = c1
    c2 = c2
    m1 = m1
    m2 = m2
    None = None
    Users = {u1, u2}
    Devices = {v1, v2}
    PublicIds = {p1, p2}
    Calls = {c1, c2}
    MaxAttempts = 2
    Spellings <- MCSpellings
    RoleSets <- MCRoleSets
SYMMETRY Symmetry
SPECIFICATION Spec
INVARIANTS
    TypeOK
    EmailsAreUnique
    OutcastsAreRefused
    LateScriptsDoNothing
    OneDevicePerCreate
