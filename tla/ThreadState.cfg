\* One thread mixing the three kinds of id, against every clock.
CONSTANTS
    TsMod = 3
    RandAMod = 4
    CtrLowMod = 1
    RandLowMod = 2
    NANOS_PER_MS = 5
    U32 = 20
    U64 = 64
    COUNTER_MAX = 3
    COUNTER_SEED_MASK = 1
    SubMsSlots = {2, 4}
    MaxMs = 2
SPECIFICATION Spec
INVARIANTS
    TypeOK
PROPERTIES
    CountStrictlyIncreasing
    SubMsNeverBackwards
    TimestampsNeverBackwards
\* The thread may stop asking, and the timestamps end at MaxMs.
CHECK_DEADLOCK FALSE
