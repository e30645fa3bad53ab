\* A counter that ticks once every two nanoseconds, taken for slower than it
\* is, for right, or for up to twice as fast; deadlines are rounded up to a
\* tick, and the caller may take more ids than a millisecond has room for.
CONSTANTS
    TsMod = 8
    RandAMod = 4
    CtrLowMod = 1
    RandLowMod = 1
    NANOS_PER_MS = 6
    U32 = 64
    U64 = 64
    Rates = {2, 3, 4, 6}
    ElapseNanos = 2
    ElapseTicks = 1
    WallStarts = {6, 7, 8, 9, 10, 11}
    CounterStarts = {0, 55}
    MaxWall = 26
    COUNTER_MAX = 3
    COUNTER_SEED_MASK = 1
    MaxMs = 7
    IdsPerMs = 4
    CounterJump = 0
SPECIFICATION Spec
INVARIANTS
    LagUnderRefreshInterval
PROPERTIES
    CatchesUp
\* The caller may stop asking, and time ends at MaxWall.
CHECK_DEADLOCK FALSE
