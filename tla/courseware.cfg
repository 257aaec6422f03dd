SPECIFICATION FairRunSpec
CONSTANTS
  Keys <- CoursewareKeys
  Values <- CoursewareValues
  Sessions = {1, 2}
  Levels <- BothLevels
  NumStudents = 2
  NumCourses = 2
  Clients <- AllClients
  Capacity <- Seats
  NumOps = 3
CHECK_DEADLOCK FALSE
INVARIANTS
  TypeOK
  SeatsRespected
  ListsAgree
  RemovedCourseEmpty
  ShownWithinCapacity
  SerialResults
  CountedIsReal
PROPERTY
  ProgramsEnd
