SPECIFICATION FairSpec
CONSTANTS
  Threads = {1, 2, 3}
  Sessions = {1, 2, 3}
  Keys <- NodeKeys
  Values <- NodeValues
  Levels <- BothLevels
  Program <- ShortProgram
  NoThread = NoThread
  NoVal = NoVal
CHECK_DEADLOCK FALSE
INVARIANTS
  TypeOK
  NodeIdsUnique
  HeadNeverDangles
  NoRepeatedPop
PROPERTIES
  AllReturn
  ImplementsLifoStack
