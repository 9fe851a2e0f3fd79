\* Two passes edit, ask for analyses and invalidate, once and to a fixed point.
CONSTANTS
    a = a
    b = b
    c = c
    NoEntry = NoEntry
    Analyses = {a, b, c}
    Deps <- Knot
    Fallible = {b}
    Tolerant = {c}
    Passes = 2
    MaxEdits = 2
    MaxRequests = 1
    Modes <- Paired
    Verdicts = {TRUE, FALSE}
SPECIFICATION FairSpec
INVARIANTS AnswerIsFresh OkMeansVerified TerminationIsHonest
PROPERTIES RunReturns
CHECK_DEADLOCK FALSE
