SPECIFICATION LiveSpec
CHECK_DEADLOCK FALSE
PROPERTIES
  EndsAreReached
