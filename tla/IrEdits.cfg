\* Four budgets: use lists, ownership, attachments, and rewrites of a verified module.
CONSTANTS
    Nothing = Nothing
    int = int
    text = text
    MaxGeneration = 0
    Budgets <- AllBudgets
SPECIFICATION Spec
INVARIANTS EditsKeepAgreement NothingLeaks RefusedEditsChangeNothing RevisionTellsOfChange ErasesWhatNobodyUses VerifiedUsesAreInScope RewritesKeepVerified
CHECK_DEADLOCK FALSE
