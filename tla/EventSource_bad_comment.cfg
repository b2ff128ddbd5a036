SPECIFICATION Spec
CONSTANTS
  Log <- Mixed
  MaxRetries = 1
  MaxBreaks = 3
  MaxComments = 1
  Deadline = FALSE
CHECK_DEADLOCK FALSE
INVARIANT CommentsIgnored
