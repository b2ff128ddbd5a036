SPECIFICATION FairSpec
CONSTANTS
  Worker <- MCWorker
  Bg = {b1}
  Job = {j1, j2}
  Owner = owner
  Monitor = monitor
  None = none
  TaskThreads = 2
  MaxPanics = 1
CHECK_DEADLOCK FALSE
INVARIANTS
  TypeOK
  GuardsCounted
  ShutdownWaited
  PoolEnded
  ReleasedWakes
  LiveNeverWraps
PROPERTIES
  KilledWorkersEnd
  AcceptedJobRuns
