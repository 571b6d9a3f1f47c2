SPECIFICATION Spec
CONSTANTS
    Tokens = {t1, t2, t3}
    NoToken = NoToken
    Pending = Pending
    Closed = Closed
    Users = {u1}
    Reqs = {r1, r2}
    RefreshTTL = 1
    LongTTL = 2
    MaxTime = 2
SYMMETRY MCSymmetry
INVARIANT OneUse
