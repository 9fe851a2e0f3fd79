\* Every schema of four families to every other; the dashboard while everyone else does everything between two keys; and any chain of changes over two tables of two columns.
CONSTANTS
    Families <- AllFamilies
    Recreating = FALSE
    FirstFile <- Created
    Target <- Wanted
    Schemas <- OnlyHalfway
    Moves = {"merge", "generate", "edit", "withdraw", "apply", "revert"}
    MaxVersion = 3
    Interleaved = FALSE
    TableNames = {"t", "u"}
    ColumnNames = {"a", "b"}
    ForeignKeyNames = {"f"}
    EnumNames = {"e"}
    ColumnDefs <- Defs
    TableDefs <- TableChoices
    ForeignKeys <- References
    Keys <- KeyLists
    Variants = {"v"}
SPECIFICATION SchemasSpec
INVARIANTS PlansReachTheirTarget DriftIsSeen TypesExist ShownPlanReachesTarget ReferencesNeverDangle TableRenamesAreReversible
PROPERTIES WrittenPlanReachesTarget AppliesOnlyShownVersions
CHECK_DEADLOCK FALSE
