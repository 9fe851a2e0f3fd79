\* A confirmed rename, and nobody else.
CONSTANTS
    FirstFile <- Created
    Target <- Renamed
    Schemas <- OnlyHalfway
    Moves = {}
    MaxVersion = 3
    Interleaved = FALSE
SPECIFICATION Spec
PROPERTIES RefusesOnlyMovedBaselines
CHECK_DEADLOCK FALSE
