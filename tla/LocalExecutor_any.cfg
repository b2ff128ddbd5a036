SPECIFICATION Spec
CONSTANTS
    Task = {t1, t2, t3}
    Fuel = 2
    GlobalCap = 1
    Moves <- AllMoves
    DiscardedMoves <- AllMoves
    OutsideCalls = {"schedule", "lift_alone", "lift", "broadcast"}
    Others = TRUE
    Priority = "Bottom"
    Driver = "run_until"
CHECK_DEADLOCK FALSE
INVARIANT
    QueueSound
PROPERTY
    DropsOnlyAfterFailure
