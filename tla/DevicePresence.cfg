\* One tablet with two sockets and two credentials, two calls at a time.
CONSTANTS
    d1 = d1
    r1 = r1
    r2 = r2
    k1 = k1
    k2 = k2
    c1 = c1
    c2 = c2
    None = None
    Devices = {d1}
    Credentials = {r1, r2}
    Sockets = {k1, k2}
    Calls = {c1, c2}
    QueriesMayFail = TRUE
SPECIFICATION FairSpec
INVARIANTS
    TypeOK
    PresenceIsReal
    WithdrawalsAreUnderWay
    OutcastsStayOut
PROPERTIES
    WithdrawalsEnd
