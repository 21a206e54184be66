SPECIFICATION LiveSpec
CHECK_DEADLOCK FALSE
PROPERTIES
  TimersExpire
  WaitersGoOn
