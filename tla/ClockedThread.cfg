\* A thread on a counter of one tick per nanosecond, 6 nanoseconds per
\* millisecond and a measurement of 3: declared right, rounded down,
\* measured with any preemption, or no counter at all.
CONSTANTS
    TsMod = 8
    RandAMod = 4
    CtrLowMod = 1
    RandLowMod = 1
    NANOS_PER_MS = 6
    U32 = 64
    U64 = 64
    Rates = {6}
    CounterHz = {5999}
    MeasureNanos = 3
    FALLBACK_TICKS_PER_MS = 6
    ElapseNanos = 1
    ElapseTicks = 1
    WallStarts = {6, 11}
    CounterStarts = {54}
    MaxWall = 21
    COUNTER_MAX = 3
    COUNTER_SEED_MASK = 1
    SubMsSlots = {2, 4}
    MaxMs = 6
    IdsPerMs = 2
SPECIFICATION Spec
INVARIANTS
    TypeOK
    MeasuredNotTooFast
    TimestampWithinRefreshInterval
    FractionNearCall
PROPERTIES
    ClockOfThreadState
\* The caller may stop asking, and time ends at MaxWall.
CHECK_DEADLOCK FALSE
