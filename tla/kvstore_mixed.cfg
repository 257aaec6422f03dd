SPECIFICATION Spec
CONSTANTS
  k1 = k1  k2 = k2  v1 = v1  v2 = v2  s1 = s1  s2 = s2  t1 = t1  t2 = t2
  Keys = {k1, k2}
  Values = {v1}
  Sessions = {s1, s2}
  Threads = {t1, t2}
  NoValue = NoValue
  NoThread = NoThread
  NoTx = NoTx
  Selectors <- AllSelectors
  K = 1
  TotalReads = 2
  MaxTx = 4
SYMMETRY Symmetry
CHECK_DEADLOCK FALSE
INVARIANTS
  TypeOK
  StoreInv
  NoConsistencyException
  MonotonicSession
  CheckerExact
  LinearReadsLatest
  KCausalBound
  VersionNumberStable
  HistoryAgrees
PROPERTY
  ImplementsSessionStore
