SPECIFICATION FairSpec
CONSTANTS
  Thread = {t1, t2, t3}
  None = none
  MaxReaders = 2
  Rounds = 3
  MaxItems = 2
CHECK_DEADLOCK FALSE
INVARIANTS
  PrimitivesTypeOK
  RwExclusion
  RwFlagOwned
  BarrierTogether
  WaitersCounted
  NoLostWakeup
  UnfailedIsInitialised
  PlainOnce
PROPERTIES
  IsReadWriteLock
  BarrierReturns
  WaiterWakes
  PlainIsFinal
  PlainReturns
