SPECIFICATION FairHistorySpec
CONSTANTS
    Uploads = {u1, u2}
    a = a
    b = b
    Names <- MCNames
    NoName = noName
    Rows <- MCGoodRows
    ChunkSize = 2
    MaxRows = 3
    MaxBody = 4
PROPERTIES
    UploadsAreImports
    AnsweredUnlessBroken
CHECK_DEADLOCK FALSE
