SPECIFICATION WatchFairSpec
CONSTANTS
    f1 = f1
    f2 = f2
    Files = {f1, f2}
    OtherCompiles = TRUE
    CompileFails = TRUE
INVARIANTS WatchTypeOK 
 
