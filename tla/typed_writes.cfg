CONSTANTS
    None = None
    NoEvent = NoEvent
    Garbled = Garbled
    Payloads <- AllPayloads
    MaxEvents = 3
    MaxIds = 3
    Endpoints = {"e1"}
    Attributes = {"a1"}
    RelationIds = {"r1", "r2"}
    States = {"draft", "review", "done"}
    Initial = "draft"
    Transitions <- Drafting
    GatedState = "done"
    OtherStates = {"done"}
    MinCount = 1
    Digests = {"d1", "d2"}
    MaxLines = 3
    MaxMishaps = 2
CONSTANTS
    RunIds = {r1}
    Owners = {alice, bob}
    StageIds <- MCStageIds
    d1 = d1
    d2 = d2
    d3 = d3
    Defs <- MCDefs
    NoDef = NoDef
    Nil = Nil
    InputSizes = {0, 2}
    MaxRunEvents = 7
    MaxBytes = 10
    MaxActive = 2
    MaxTotal = 2
    MaxTroubles = 2
CONSTANTS
  Nobody = Nobody
  Sessions = {a1, a2}
  Slugs = {s}
  Sources = {f1, f2}
  Answers = {1, 2}
  PerSession = 2
  MinInterval = 2
  MaxCandidates = 3
  MaxOps = 3
  MaxFaults = 1
SYMMETRY Sym
CONSTANTS
    SourceCap = 1
    GeneratedCap = 3
    MaxChars = 4
    MaxHandEdits = 3
    Gone = Gone
SPECIFICATION WritesSpec
CHECK_DEADLOCK FALSE
INVARIANTS  RunSound OutputsAccounted QueueSound PageSound
PROPERTIES AuditSteps RunSteps PublishedAsApproved QueueSteps CreateNeverOverwrites WriteHolds
