SPECIFICATION Spec
CONSTANTS
  Log <- Mixed
  MaxRetries = 1
  MaxBreaks = 3
  MaxComments = 0
  Deadline = FALSE
CHECK_DEADLOCK FALSE
INVARIANT ComesBack
