SPECIFICATION OwnersSpec
CONSTANTS
    Task = {t1, t2, t3}
    Fuel = 2
    GlobalCap = 2
    Moves <- Local
    DiscardedMoves <- LocalDiscarded
    OutsideCalls = {"schedule"}
    Others = FALSE
    Priority = "Bottom"
    Driver = "until_finished"
INVARIANTS
    TypeOK
    EntriesBounded
    LiveTasksHeldOnce
    NothingOrphaned
    ChildFinishesFirst
    NoCrash
PROPERTIES
    EveryTaskEnds
    GlobalOnlyWhenIdle
    StopsOnlyWhenDone
