\* A relation sorted by nothing.
CONSTANTS
    Null = Null
    I64Max = 4
    U32Max = 4
    Catalog <- Tables
    Other <- Joinable
    Databases <- SomeDatabases
    Bases <- OneBase
    MaxSteps = 1
    MaxWork = 2
SPECIFICATION KeylessSpec
INVARIANTS NeverContradicted
CHECK_DEADLOCK FALSE
