SPECIFICATION Spec
CONSTANTS
    Row <- MCRow
    Raws <- MCRaws
    MaxInt = 7
    DefaultLimit = 2
    MaxLimit = 3
    Certain = 100
    Kept = 10
INVARIANTS
    TypeOK
    HitsAreOwn
    NextVisitsEachRowOnce
    PagesInPlace
    TimeOrderedUnlessPrefix
