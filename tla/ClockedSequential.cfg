\* A generator on a counter of one tick per nanosecond, 6 nanoseconds per
\* millisecond, over a little more than two milliseconds.  The counter starts
\* where it wraps, or where a deadline is 0, early or late, and may fall back
\* once between two refreshes by a whole millisecond's worth of ticks.
CONSTANTS
    TsMod = 6
    RandAMod = 4
    CtrLowMod = 1
    RandLowMod = 1
    NANOS_PER_MS = 6
    U32 = 64
    U64 = 64
    Rates = {6}
    ElapseNanos = 1
    ElapseTicks = 1
    WallStarts = {6, 9, 11}
    CounterStarts = {0, 31, 52, 61}
    MaxWall = 20
    COUNTER_MAX = 3
    COUNTER_SEED_MASK = 1
    MaxMs = 5
    IdsPerMs = 3
    CounterJump = 6
SPECIFICATION MovedBetweenRefreshesSpec
INVARIANTS
    TypeOK
    LagUnderRefreshInterval
    NeverAheadWithinBudget
PROPERTIES
    CatchesUp
\* The caller may stop asking, and time ends at MaxWall.
CHECK_DEADLOCK FALSE
