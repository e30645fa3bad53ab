\* The counter may fall back once, by a single tick, at any time.
CONSTANTS
    TsMod = 8
    RandAMod = 4
    CtrLowMod = 1
    RandLowMod = 1
    NANOS_PER_MS = 4
    U32 = 64
    U64 = 64
    Rates = {4}
    ElapseNanos = 1
    ElapseTicks = 1
    WallStarts = {4}
    CounterStarts = {20}
    MaxWall = 24
    COUNTER_MAX = 3
    COUNTER_SEED_MASK = 1
    MaxMs = 7
    IdsPerMs = 1
    CounterJump = 1
SPECIFICATION MovedSpec
INVARIANTS
    LagAtMostOneMs
CHECK_DEADLOCK FALSE
