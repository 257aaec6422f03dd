SPECIFICATION RunSpec
CONSTANTS
  Keys <- CoursewareKeys
  Values <- CoursewareValues
  Sessions = {1, 2}
  Levels <- Linear
  NumStudents = 2
  NumCourses = 2
  Clients <- ProgramClients
  Capacity <- Seats
  NumOps = 3
CHECK_DEADLOCK FALSE
INVARIANT
  RemovedCourseUnseen
