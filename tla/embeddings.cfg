SPECIFICATION Spec
CONSTANTS
  p1 = p1
  p2 = p2
  s = s
  Gone = Gone
  Pages <- MCPages
  SlugOf <- MCSlugOf
  Contents <- MCContents
  Models = {m1, m2}
  NoModel = NoModel
  m1 = m1
  m2 = m2
  FirstContent <- MCFirst
  Dim <- MCDim
  MaxPending = 2
  MaxAttempts = 2
  TopK = 1
  MaxOps = 3
  MaxMishaps = 2
SYMMETRY Sym
CHECK_DEADLOCK FALSE
INVARIANTS StoreSound HitsHonest
PROPERTIES PersistReconciles
