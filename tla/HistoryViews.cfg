SPECIFICATION Spec
CONSTANTS
    None = None
    Entries = {1, 2, 3}
    Old = {1, 2}
    Quick = {1, 3}
    RollupCells = {d1, d2}
    WordCells = {w1, w2}
    Counted <- TwoDays
    d1 = d1
    d2 = d2
    w1 = w1
    w2 = w2
    StartupLimit = 1
    BackgroundLimit = 1
    QueryLimit = 1
    PageSize = 1
    MaxFaults = 1
    MaxInbox = 2
INVARIANTS
    TypeOK
    LedgerExact
    ViewsAgree
PROPERTY
    BulkDeletesTheChosen
CHECK_DEADLOCK FALSE
