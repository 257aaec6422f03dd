SPECIFICATION Spec
CONSTANTS
  k1 = k1  v1 = v1  s1 = s1  s2 = s2  h1 = h1  h2 = h2
  Keys = {k1}
  Values = {v1}
  Sessions = {s1, s2}
  Levels <- ServerLevel
  Handlers = {h1, h2}
  DefaultSession = s1
  NoHeader = NoHeader
  BadHeader = BadHeader
  NoEtag = NoEtag
  BadEtag = BadEtag
  NoRequest = NoRequest
  Nobody = Nobody
  MaxEtag = 2
  MaxRequests = 4
CHECK_DEADLOCK FALSE
INVARIANT
  EtagMatchesLatest
