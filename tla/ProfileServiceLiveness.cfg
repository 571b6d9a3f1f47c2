SPECIFICATION FairSpec
CONSTANTS
    Reqs = {r1, r2}
    ada = ada
    Ada = Ada
    Names <- MCNames
    Fold <- MCFold
    Seed <- MCSeed
    Keys = {k1}
    MaxCommits = 1
PROPERTIES
    Answered
    StalenessEnds
