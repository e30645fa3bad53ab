---------------------------- MODULE Calibration ----------------------------
(***************************************************************************)
(* src/src/clock.rs: where CounterClock takes its rate from.  A CPU that   *)
(* declares one is believed; otherwise the counter is timed for 200 us     *)
(* against the monotonic clock.  The two clocks are read one after the     *)
(* other at both ends, and the thread may be preempted between any two     *)
(* readings.  ForkReseed has the OnceLock around the measurement.          *)
(***************************************************************************)
EXTENDS CounterClock

CONSTANTS
    Rates,                 \* ticks per millisecond that CPUID leaf 0x16 may declare
    CounterHz,             \* ticks per second that CNTFRQ_EL0 may declare
    MeasureNanos,          \* 200 us
    FALLBACK_TICKS_PER_MS  \* 2_000_000

ASSUME CalibrationAssumption ==
    /\ Rates \subseteq Nat \ {0}
    /\ CounterHz \subseteq Nat
    /\ MeasureNanos \in Nat \ {0}
    /\ FALLBACK_TICKS_PER_MS \in Nat \ {0}

VARIABLES
    start_instant,  \* the monotonic clock when the measurement starts
    start_tsc,      \* the counter, read right after it
    elapsed_ticks   \* ticks of the measurement

measure_vars == <<start_instant, start_tsc, elapsed_ticks>>

CalibrationInit ==
    /\ start_instant = 0
    /\ start_tsc = 0
    /\ elapsed_ticks = 0

\* x86_64: a base frequency that CPUID knows is exact.
DeclaredByCpuid == ticks_per_ms' \in Rates

\* aarch64: the division rounds down.
DeclaredByCntfrq == \E freq \in CounterHz : ticks_per_ms' = Most(freq \div 1000, 1)

\* Instant::now(); the monotonic clock differs from the wall clock by a constant.
StartInstant ==
    /\ start_instant' = wall
    /\ UNCHANGED <<start_tsc, elapsed_ticks>>

StartTsc ==
    /\ start_tsc' = read_counter
    /\ UNCHANGED <<start_instant, elapsed_ticks>>

\* The busy-wait ends: start_instant.elapsed() has reached 200 us.
EndTsc ==
    /\ wall - start_instant >= MeasureNanos
    /\ elapsed_ticks' = wrapping_sub(read_counter, start_tsc)
    /\ UNCHANGED <<start_instant, start_tsc>>

\* None, a degenerate measurement, is the fallback.
ticks_per_ms_from_measurement(ticks, nanos) ==
    IF ticks = 0 \/ nanos = 0
    THEN FALLBACK_TICKS_PER_MS
    ELSE Most(saturating_mul(ticks, NANOS_PER_MS) \div nanos, 1)

\* Mutant of EndInstant: the busy-wait's own end is taken for the elapsed time.
EndInstantAssumed ==
    ticks_per_ms' = ticks_per_ms_from_measurement(elapsed_ticks, MeasureNanos)

\* start_instant.elapsed() is read a second time, after the counter.
EndInstant ==
    ticks_per_ms' =
        ticks_per_ms_from_measurement(elapsed_ticks, wall - start_instant)
=============================================================================
