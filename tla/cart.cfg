SPECIFICATION Spec
CONSTANTS
  Keys <- CartKeys
  Values <- CartValues
  Sessions = {1, 2}
  Levels <- BothLevels
  ItemSeq <- ProgramItems
  NumOps = 3
  Clients <- AnyTwoCalls
  Runs <- AllRuns
CHECK_DEADLOCK FALSE
INVARIANTS
  TypeOK
  QuantityIffListed
  FixedResults
