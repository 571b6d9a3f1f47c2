SPECIFICATION Spec
CONSTANTS
    Reqs = {r1, r2}
    ada = ada
    Ada = Ada
    Names <- MCNames
    Fold <- MCFold
    Seed <- MCSeed
    Keys = {k1}
    MaxCommits = 2
SYMMETRY MCSymmetry
INVARIANT ReadsSeeAckedWrites
