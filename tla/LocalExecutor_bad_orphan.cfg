SPECIFICATION FairSpec
CONSTANTS
    Task = {t1, t2, t3}
    Fuel = 2
    GlobalCap = 1
    Moves <- SequencingThenLifting
    DiscardedMoves <- SequencingThenLifting
    OutsideCalls = {}
    Others = TRUE
    Priority = "Top"
    Driver = "block_on"
PROPERTY
    EveryTaskEnds
