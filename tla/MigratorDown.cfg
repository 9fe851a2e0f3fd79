\* One runner applies in stages while another applies and reverts, with clocks that may disagree.
CONSTANTS
    r1 = r1
    r2 = r2
    f1 = f1
    f2 = f2
    Runners = {r1, r2}
    Versions <- Four
    Fks = {f1}
    SetOf <- SameSets
    KindsOf <- DownKinds
    FkOf <- FkOfTwo
    Reversible = {2, 3, 4}
    Unrenderable <- SomeDoNot
    StageUnsafe = {}
    Destructive = {}
    Counts = {2}
    MaxCalls = 2
    Stamps = {8, 9}
SPECIFICATION FairSpec
INVARIANTS HistoryMatchesSchema
PROPERTIES RevertsOnlyApplied EveryCallReturns
CHECK_DEADLOCK FALSE
