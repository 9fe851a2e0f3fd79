\* A walk by a cursor, or numbered pages and totals, of a table of up to four rows that changes; or loads for up to three rows in hand, duplicates and rows of no key among them, of three far rows.
CONSTANTS
    Rows <- Grid
    U64Max = 9
    I64Max = 4
    CursorBases <- PlainBases
    CursorKeys <- BothOrders
    PagedBases <- OrderedBases
    PageSizes = {1, 2}
    MaxChanges = 2
    Key = {k1, k2}
    Null = Null
    Far = {r1, r2, r3}
    MaxNear = 3
    MaxWrites = 1
SYMMETRY FarSymmetry
SPECIFICATION ReadsSpec
INVARIANTS WalkMissesNothing PagesSplitTheQuery TotalsMatchPages EveryParentGetsItsChildren EverySourceGetsItsTarget
CHECK_DEADLOCK FALSE
