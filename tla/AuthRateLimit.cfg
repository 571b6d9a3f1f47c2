SPECIFICATION TierSpec
CONSTANTS
    Keys <- MCKeys
    Ips = {ip1, ip2}
    AnyIp = anyIp
    Paths = {login}
    Reqs = {r1, r2}
    Idle = idle
    Limit = 2
    Window = 2
    MaxTime = 4
SYMMETRY MCSymmetry
INVARIANTS
    TypeOK
    WindowRespected
    RefusalsEarned
    ServedWithinLimit
    SecondTierNeedsDelay
