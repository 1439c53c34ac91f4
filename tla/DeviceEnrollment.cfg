\* One tablet, two codes, two calls at a time, two attempts.
CONSTANTS
    d1 = d1
    e1 = e1
    e2 = e2
    k1 = k1
    k2 = k2
    c1 = c1
    c2 = c2
    None = None
    Devices = {d1}
    Codes = {e1, e2}
    Credentials = {k1, k2}
    Calls = {c1, c2}
    MaxFailedAttempts = 2
SPECIFICATION FairSpec
INVARIANTS
    TypeOK
    OneCredential
    CodesEndOnce
    AttemptsAreCounted
PROPERTIES
    ImplementsLifecycle
    ImplementsCredentials
    EveryCallEnds
