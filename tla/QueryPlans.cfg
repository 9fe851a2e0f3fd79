\* Programs of builder calls alone, after one of an equal shape, and three shared by two callers over a cache of one entry.
CONSTANTS
    Null = Null
    I64Max = 4
    U32Max = 4
    Callers = {c1, c2}
    Catalog <- Tables
    Programs <- AllPrograms
    Prepared <- PreparedOnce
    Queries <- AllQueries
    Scripts <- AllScripts
    Databases <- SomeDatabases
    Validity <- ValidityOf
    ShapeKey <- ShapeKeyOf
    Rendering <- RenderingOf
    Outcomes <- OutcomesOf
    Capacity = 1
SPECIFICATION Spec
INVARIANTS RefusesOnlyMistakes ServesOwnStatement
PROPERTIES AnswersWhatIsMeant RunsDirectly
CHECK_DEADLOCK FALSE
