SPECIFICATION FairSpec
CONSTANTS
  Log <- Mixed
  MaxRetries = 1
  MaxComments = 2
  MaxBreaks = 3
  Deadline = TRUE
CHECK_DEADLOCK FALSE
INVARIANTS
  SseTypeOK
  ExactlyOnce
  RetriesKept
PROPERTY
  EveryEventArrives
