SPECIFICATION FairSpec
CONSTANTS
  Worker <- MCWorker
  Bg = {b1}
  Job = {j1}
  Owner = owner
  Monitor = monitor
  None = none
  TaskThreads = 2
  MaxPanics = 0
CHECK_DEADLOCK FALSE
PROPERTY ShutdownReturns
