SPECIFICATION Spec
CONSTANTS
    GithubIds = {g1}
    Names = {boss, dev}
    DirectNames = {dev}
    Admins = {boss}
    Reqs = {r1, r2}
SYMMETRY MCSymmetry
INVARIANTS
    TypeOK
    OnlyTheEntitledAct
    RolesAsGranted
    AnsweredAsAsked
