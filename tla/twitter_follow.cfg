SPECIFICATION Spec
CONSTANTS
  Keys <- TwitterKeys
  Values <- TwitterValues
  Sessions = {1, 2, 3}
  Levels <- Linear
  Users = {1, 2, 3}
  Threads = {1, 2, 3}
  NumOps = 2
  Runs <- FixedOnly
CHECK_DEADLOCK FALSE
INVARIANT
  FollowersRecorded
