CONSTANTS
    ConceptPages <- ConceptIds
    EntityPages <- Typed
    Ghosts <- Missing
    MaxNeighbors = 2
    MaxWindows = 2
    MaxResults = 2
    ItemChars <- Chars
    MaxBudget = 1000
CONSTANTS
    Titles = {1, 2}
    Origins = {1, 2}
    Versions = {1, 2}
    Topics = {1, 2}
    Ingesters = {p1, p2}
    MaxMoves = 7
    Absent = Absent
    p1 = p1
    Served <- ServedValues
    Extract <- ExtractValues
CONSTANTS
    DiffPacks <- AllDiffs
    Dirs <- AllDirs
    SafeDirs <- Safe
    Stems <- AllStems
    SlugStems = {"a", "b"}
    Notes <- SomeNotes
    StarterDir <- Starters
    Links <- SomeLinks
    ProblemCap = 2
    MaxEdits = 2
    None = None
CONSTANTS
    Callers = {k1}
    alice = alice
    bob = bob
    Identities = {alice, bob}
    RecordIds = {u1}
    WorkflowIds = {"write", "post"}
    Packs = {"q1", "q2"}
    StageNames = {"draft", "check", "only"}
    GateNames = {"ok", "safe"}
    Stages <- StageValues
    Declared <- ActionValues
    LocalConfigs <- ConfigValues
    Unset = Unset
    MaxOwnerEdits = 1
SYMMETRY ActionsSym
CONSTANTS
    LinkSlugs <- LinkPages
    Listing <- Alphabetical
    Phrases = {"Graph Theory", "Node"}
    Matches <- Titled
    Unwritten = Unwritten
    Unlinked = Unlinked
    MaxRuns = 2
SPECIFICATION SurfacesSpec
CHECK_DEADLOCK FALSE
INVARIANTS PackHonest ProjectSound ProfileSound ActionsSound
PROPERTIES UpkeepSteps CallsAuthorized LinkSteps
