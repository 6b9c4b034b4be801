SPECIFICATION MCSpec
CONSTANTS
  k1 = k1
  k2 = k2
  k3 = k3
  t1 = t1
  t2 = t2
  d1 = d1
  d2 = d2
  r1 = r1
  r2 = r2
  NoKey = NoKey
  NoRotation = NoRotation
  Packages <- MCPackages
  PubKeys <- MCPubKeys
  TapKeys <- MCTapKeys
  FirstPub = k1
  FirstTap = t1
  NoTree = NoTree
  MaxSeq = 3
  MaxPublishes = 4
  MaxDeaths = 2
  Refreshers <- MCRefreshers
  NoTap = NoTap
  NoIndex = NoIndex
  NoProfile = NoProfile
  NoLock = NoLock
  Builtin = Builtin
  Edited = Edited
  MaxTapStateItems = 2
  MaxClientOps = 5
  MaxMishaps = 1
SYMMETRY Sym
CHECK_DEADLOCK FALSE
INVARIANTS PublisherSound ReaderSound
PROPERTIES TrustSteps
