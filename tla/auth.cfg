SPECIFICATION Spec
CONSTANTS
    p1 = p1  p2 = p2  r1 = r1  r2 = r2  i1 = i1  i2 = i2
    Accounts <- MCAccounts
    Passwords = {p1, p2}
    Emails = {0, 1, 2}
    Sids = {i1, i2}
    Requests = {r1, r2}
    Ttl = 2
    MaxTime = 4
    Nobody = Nobody
    NoRow = NoRow
    NoCookie = NoCookie
SYMMETRY Symmetric
INVARIANTS TypeOK
PROPERTIES AdmittedIsLive RefusedForGood
CHECK_DEADLOCK FALSE
