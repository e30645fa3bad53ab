\* Three threads and five calls; the timestamp may be borrowed twice after the
\* last reading of the clock.
CONSTANTS
    TsMod = 8
    RandAMod = 3
    CtrLowMod = 1
    RandLowMod = 1
    COUNTER_MAX = 2
    COUNTER_SEED_MASK = 1
    MaxMs = 4
    MaxReading = 2
    t1 = t1
    t2 = t2
    t3 = t3
    Threads = {t1, t2, t3}
    None = None
    MaxCalls = 5
SPECIFICATION Spec
INVARIANTS
    TypeOK
    NeverRefusedUnderGil
PROPERTIES
    IncreasingAcrossThreads
    ComesFree
\* The threads may stop calling, and the calls are bounded.
CHECK_DEADLOCK FALSE
