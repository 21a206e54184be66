SPECIFICATION MCSpec
CONSTANTS
  Sessions = {s1, s2, s3}
  Users = {u, v}
  NoUser = NoUser
  NoSession = NoSession
  MaxMessages = 1
  Members = 9
  Leavers = {3, 9}
  Widths = {11}
  MaxPosts = 2
  MaxCalls = 3
  Patient = TRUE
CHECK_DEADLOCK FALSE
INVARIANTS
  UsersReached
  ScreenRight
  
  ToolIsRight
