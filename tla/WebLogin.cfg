SPECIFICATION FairSpec
CONSTANTS
    States = {s1, s2}
    Reqs = {r1, r2}
    TTL = 1
    MaxTime = 4
INVARIANTS
    TypeOK
    SweptAtSet
PROPERTIES
    VerifiersAreTickets
    Answered
