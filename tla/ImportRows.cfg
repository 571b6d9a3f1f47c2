SPECIFICATION RowsSpec
CONSTANTS
    Uploads = {u1, u2}
    a = a
    b = b
    Names <- MCNames
    NoName = noName
    Rows <- MCRows
    ChunkSize = 2
    MaxRows = 3
    MaxBody = 4
SYMMETRY MCSymmetry
INVARIANTS
    RowsCounted
    CountsAddUp
    WritesUnderCeiling
    TableHoldsWhatWasAccepted
CHECK_DEADLOCK FALSE
