\* A generator on its own, against every clock.
CONSTANTS
    TsMod = 5
    RandAMod = 4
    CtrLowMod = 2
    RandLowMod = 2
    COUNTER_MAX = 7
    COUNTER_SEED_MASK = 3
    MaxMs = 4
SPECIFICATION Spec
INVARIANTS
    TypeOK
    DriftBounded
PROPERTIES
    StrictlyIncreasing
\* The caller may stop asking, and the timestamps end at MaxMs.
CHECK_DEADLOCK FALSE
