SPECIFICATION FairSpec
CONSTANTS
    f1 = f1
    f2 = f2
    f3 = f3
    a = a
    b = b
    Sources = {f1, f2}
    Slugs = {a}
    MaxVersion = 2
    Extracts <- SharedOrEmpty
    NoEntry = NoEntry
    NoPage = NoPage
    NoCand = NoCand
    PolicyOn = FALSE
    ReviewRuns = FALSE
    Failures = FALSE
    Settled = FALSE
PROPERTY Settles
CHECK_DEADLOCK FALSE
