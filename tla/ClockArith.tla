----------------------------- MODULE ClockArith -----------------------------
(***************************************************************************)
(* The arithmetic of src/src/clock.rs: how long a sampled millisecond may  *)
(* be reused, when a CPU-counter deadline has passed, how far into the     *)
(* millisecond the clock is estimated to be.  The code computes in u64,    *)
(* saturating where it says so and wrapping where it compares counters.    *)
(***************************************************************************)
EXTENDS Integers

CONSTANTS
    NANOS_PER_MS,   \* 1_000_000
    U32,            \* 2^32: values of u32
    U64             \* 2^64: values of u64, and of the CPU counter

ASSUME ArithAssumption ==
    /\ NANOS_PER_MS \in Nat
    /\ NANOS_PER_MS >= 2
    /\ U32 \in Nat \ {0}
    /\ U64 \in Nat
    /\ U64 >= 2 * NANOS_PER_MS

MAX_REFRESH_INTERVAL_NANOS == NANOS_PER_MS \div 2

Least(a, b) == IF a < b THEN a ELSE b
Most(a, b) == IF a > b THEN a ELSE b

\* u64 arithmetic
saturating_mul(a, b) == Least(a * b, U64 - 1)
saturating_add(a, b) == Least(a + b, U64 - 1)
\* Mutant of wrapping_add: the sum is not brought back into range.
unwrapped_add(a, b) == a + b
wrapping_add(a, b) == (a + b) % U64
wrapping_sub(a, b) == (a - b) % U64

nanos_until_next_ms(nanos_within_ms) ==
    NANOS_PER_MS - (nanos_within_ms % NANOS_PER_MS)

\* Mutant of nanos_until_next_refresh: the longer of the two intervals.
nanos_until_late_refresh(nanos_within_ms) ==
    Most(nanos_until_next_ms(nanos_within_ms), MAX_REFRESH_INTERVAL_NANOS)

nanos_until_next_refresh(nanos_within_ms) ==
    Least(nanos_until_next_ms(nanos_within_ms), MAX_REFRESH_INTERVAL_NANOS)

\* Rounded up, and never 0: a deadline of `now` would refresh on every call.
ticks_until_next_refresh(ticks_per_ms, nanos_within_ms) ==
    Most(1, saturating_add(
                saturating_mul(ticks_per_ms,
                               nanos_until_next_refresh(nanos_within_ms)),
                NANOS_PER_MS - 1)
            \div NANOS_PER_MS)

\* Mutant of deadline_reached: readings compared as if they never wrapped.
deadline_reached_unwrapped(current, deadline) ==
    deadline = 0 \/ current >= deadline

\* 0 is the deadline of a clock never sampled.  Otherwise the counter is past
\* the deadline when it is less than half its range ahead of it.
deadline_reached(current, deadline) ==
    deadline = 0 \/ 2 * wrapping_sub(current, deadline) < U64

\* Mutant of estimate_nanos_within_ms_from_ticks: the end of the millisecond
\* does not stop the estimate.
estimate_unclamped(ticks_per_ms, sampled_nanos, elapsed_ticks) ==
    saturating_add(sampled_nanos,
                   saturating_mul(elapsed_ticks, NANOS_PER_MS)
                       \div Most(ticks_per_ms, 1))

\* Between refreshes the nanoseconds within the millisecond are extrapolated,
\* and stop at the end of the millisecond.
estimate_nanos_within_ms_from_ticks(ticks_per_ms, sampled_nanos, elapsed_ticks) ==
    LET elapsed_nanos == saturating_mul(elapsed_ticks, NANOS_PER_MS)
                             \div Most(ticks_per_ms, 1)
    IN  Least(saturating_add(sampled_nanos, elapsed_nanos), NANOS_PER_MS - 1)

\* `slots` is 2^bits; the product is taken in u32.
sub_ms_fraction(nanos_within_ms, slots) ==
    ((Least(nanos_within_ms, NANOS_PER_MS - 1) * slots) % U32) \div NANOS_PER_MS
=============================================================================
