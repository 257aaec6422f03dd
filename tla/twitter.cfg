SPECIFICATION Spec
CONSTANTS
  Keys <- TwitterKeys
  Values <- TwitterValues
  Sessions = {1, 2, 3}
  Levels <- BothLevels
  Users = {1, 2, 3}
  Threads = {1, 2, 3}
  NumOps = 2
  Runs <- AllRuns
CHECK_DEADLOCK FALSE
INVARIANTS
  TypeOK
  OwnListsGrow
  SeenStaysVisible
PROPERTY
  NewsfeedShowsSeen
