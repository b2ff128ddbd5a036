SPECIFICATION FairSpec
CONSTANTS
  Thread = {t1, t2, t3}
  None = none
  MaxReaders = 2
  Rounds = 3
  MaxItems = 2
CHECK_DEADLOCK FALSE
INVARIANTS
  CompletedIsInitialised
