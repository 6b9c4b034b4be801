SPECIFICATION Spec
CONSTANTS
    f1 = f1
    f2 = f2
    f3 = f3
    a = a
    b = b
    Sources = {f1, f2, f3}
    Slugs = {a, b}
    MaxVersion = 2
    Extracts <- ChainOrEmpty
    NoEntry = NoEntry
    NoPage = NoPage
    NoCand = NoCand
    PolicyOn = FALSE
    ReviewRuns = FALSE
    Failures = TRUE
    Settled = TRUE
CHECK_DEADLOCK FALSE
INVARIANTS CompileSound
