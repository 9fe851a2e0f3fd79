\* Two runners, one of an older deployment, apply three files through every up method, twice each.
CONSTANTS
    r1 = r1
    r2 = r2
    f1 = f1
    f2 = f2
    Runners = {r1, r2}
    Versions <- Three
    Fks = {f1, f2}
    SetOf <- OlderSet
    KindsOf <- UpKinds
    FkOf <- FksOfTwo
    Reversible = {}
    Unrenderable <- Renders
    StageUnsafe = {1}
    Destructive = {1}
    Counts = {1, 3}
    MaxCalls = 2
    Stamps = {9}
SYMMETRY EitherFk
SPECIFICATION Spec
INVARIANTS HistoryMatchesSchema NoGaps ReportedIsApplied UnvalidatedIsNamed
PROPERTIES AppliesLeading
CHECK_DEADLOCK FALSE
