SPECIFICATION Spec
CONSTANTS
    f1 = f1
    f2 = f2
    f3 = f3
    a = a
    b = b
    Sources = {f1, f2}
    Slugs = {a, b}
    MaxVersion = 2
    Extracts <- Narrow
    NoEntry = NoEntry
    NoPage = NoPage
    NoCand = NoCand
    PolicyOn = TRUE
    ReviewRuns = TRUE
    Failures = FALSE
    Settled = TRUE
INVARIANTS UpToDate ChangedConceptsWhole
CHECK_DEADLOCK FALSE
