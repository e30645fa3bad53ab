\* The counter is measured, and the measurement preempted.
CONSTANTS
    TsMod = 8
    RandAMod = 4
    CtrLowMod = 1
    RandLowMod = 1
    NANOS_PER_MS = 6
    U32 = 64
    U64 = 64
    Rates = {}
    CounterHz = {}
    MeasureNanos = 3
    FALLBACK_TICKS_PER_MS = 6
    ElapseNanos = 1
    ElapseTicks = 1
    WallStarts = {6}
    CounterStarts = {54}
    MaxWall = 21
    COUNTER_MAX = 3
    COUNTER_SEED_MASK = 1
    SubMsSlots = {2, 4}
    MaxMs = 6
    IdsPerMs = 2
SPECIFICATION Spec
INVARIANTS
    MeasuredWithinPercent
CHECK_DEADLOCK FALSE
