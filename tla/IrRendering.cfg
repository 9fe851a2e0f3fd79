\* Relations of up to three operations over a table, its columns turned round, literal rows and nothing.
CONSTANTS
    Null = Null
    I64Max = 4
    U32Max = 4
    Catalog <- Tables
    Other <- Joinable
    Databases <- SomeDatabases
    Bases <- AllBases
    MaxSteps = 3
    MaxWork = 4
SPECIFICATION Spec
INVARIANTS RendersWhatItMeans RefusesOnlyLostOrders
CHECK_DEADLOCK FALSE
