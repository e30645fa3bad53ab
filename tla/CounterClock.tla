---------------------------- MODULE CounterClock ----------------------------
(***************************************************************************)
(* src/src/clock.rs on x86_64 and aarch64: the wall clock is read only     *)
(* when a deadline on the CPU counter has passed.  A refresh reads the     *)
(* counter, the wall clock and the counter again, and dates the sample     *)
(* half-way between the two counter readings; the thread may be preempted  *)
(* for any time between the three.                                         *)
(*                                                                         *)
(* The environment is time itself: the wall clock in nanoseconds and the   *)
(* counter, an unsigned number that wraps, which a step of time moves in a *)
(* fixed proportion.                                                       *)
(***************************************************************************)
EXTENDS ClockArith

CONSTANTS
    ElapseNanos,    \* nanoseconds and ...
    ElapseTicks,    \* ... counter ticks in one step of time
    WallStarts,     \* wall clock readings to start from
    CounterStarts,  \* counter readings to start from
    MaxWall         \* bound: the last wall clock reading

ASSUME ClockAssumption ==
    /\ ElapseNanos \in Nat \ {0}
    /\ ElapseTicks \in Nat \ {0}
    /\ MaxWall \in Nat
    /\ WallStarts \subseteq 0 .. MaxWall
    /\ CounterStarts \subseteq 0 .. U64 - 1

VARIABLES
    wall,           \* the wall clock, nanoseconds since the epoch
    tsc,            \* the CPU counter
    ticks_per_ms,   \* CounterClock.ticks_per_ms: what the code takes the rate for
    sampled_at,     \* CounterClock.sampled_at
    next_deadline,  \* CounterClock.next_deadline
    before,         \* local of the refresh: the counter before the sample
    sample          \* local of the refresh: the wall clock's answer

time_vars == <<wall, tsc>>
clock_vars == <<ticks_per_ms, sampled_at, next_deadline>>
refresh_vars == <<before, sample>>

MsOf(nanos) == nanos \div NANOS_PER_MS

\* CounterClock::new, given the rate.
ClockInit(rate) ==
    /\ wall \in WallStarts
    /\ tsc \in CounterStarts
    /\ ticks_per_ms = rate
    /\ sampled_at = 0
    /\ next_deadline = 0
    /\ before = 0
    /\ sample = 0

\* Time passes, whatever the threads do.
Elapse ==
    /\ wall + ElapseNanos <= MaxWall
    /\ wall' = wall + ElapseNanos
    /\ tsc' = wrapping_add(tsc, ElapseTicks)

-----------------------------------------------------------------------------
(* What a rate that is not the counter's own does to a deadline *)

RateNotAbove(rate) == rate * ElapseNanos <= NANOS_PER_MS * ElapseTicks

\* Nanoseconds a millisecond may be reused for past its end: refreshes are
\* MAX_REFRESH_INTERVAL_NANOS apart by a counter that keeps the rate, and
\* preemption may date a sample late by as much again.
ReuseNanos ==
    LET per_rate == NANOS_PER_MS * ElapseTicks
        by_rate == 2 * MAX_REFRESH_INTERVAL_NANOS * ticks_per_ms * ElapseNanos
    IN  Most(0, ((by_rate + per_rate - 1) \div per_rate) - MAX_REFRESH_INTERVAL_NANOS)

-----------------------------------------------------------------------------
(* The clock *)

\* rdtsc or cntvct_el0
read_counter == tsc

should_refresh == deadline_reached(read_counter, next_deadline)

\* The deadline lies one refresh interval after the instant the sample is dated.
record_sample(nanos_within_ms, at) ==
    /\ sampled_at' = at
    /\ next_deadline' =
           wrapping_add(at, ticks_until_next_refresh(ticks_per_ms, nanos_within_ms))
    /\ UNCHANGED ticks_per_ms

ReadCounterBefore ==
    /\ before' = read_counter
    /\ UNCHANGED <<time_vars, clock_vars, sample>>

\* SystemTime::now()
ReadWall ==
    /\ sample' = wall
    /\ UNCHANGED <<time_vars, clock_vars, before>>

\* Mutant of ReadCounterAfter: the sample is dated when the refresh ends.
ReadCounterAfterDatedLate ==
    /\ record_sample(sample % NANOS_PER_MS, read_counter)
    /\ UNCHANGED <<time_vars, refresh_vars>>

\* The counter is read again, and the sample dated half-way.
ReadCounterAfter ==
    /\ record_sample(sample % NANOS_PER_MS,
                     wrapping_add(before, wrapping_sub(read_counter, before) \div 2))
    /\ UNCHANGED <<time_vars, refresh_vars>>
=============================================================================
