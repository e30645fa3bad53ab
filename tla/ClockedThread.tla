--------------------------- MODULE ClockedThread ---------------------------
(***************************************************************************)
(* The free functions of src/src/lib.rs on their real clock: ThreadState   *)
(* with the deadline check, the three readings of a refresh, the estimate  *)
(* between two refreshes and the calibration of the counter as steps       *)
(* between which any time may pass.  Where the build has no CPU counter,   *)
(* every call reads the wall clock.                                        *)
(*                                                                         *)
(* ThreadState shows that no clock can break the order of the ids; this    *)
(* module shows that this clock is one of those, and asks how well         *)
(* timestamps and sub-millisecond fractions follow the wall clock.         *)
(***************************************************************************)
EXTENDS Calibration, UuidLayout

CONSTANTS
    COUNTER_MAX,
    COUNTER_SEED_MASK,
    SubMsSlots,
    MaxMs,        \* bound: the largest timestamp
    IdsPerMs      \* counter ids the caller takes in one wall-clock millisecond

\* ThreadState's own assumptions, and a bound that lets the clock be read.
ASSUME ClockedThreadAssumption ==
    /\ COUNTER_MAX \in Nat
    /\ COUNTER_MAX < RandAMod * CtrLowMod
    /\ COUNTER_SEED_MASK \in Nat
    /\ COUNTER_SEED_MASK <= COUNTER_MAX
    /\ \A slots \in SubMsSlots :
           /\ slots \in Nat \ {0}
           /\ RandAMod % slots = 0
           /\ NANOS_PER_MS * slots <= U32
    /\ \A s1, s2 \in SubMsSlots : s1 <= s2 => s2 % s1 = 0
    /\ MaxMs \in Nat
    /\ MaxMs < TsMod
    /\ MaxWall \div NANOS_PER_MS <= MaxMs
    /\ IdsPerMs \in Nat

VARIABLES
    backend,      \* "counter" or "system": what the build reads the time with
    pc,           \* where the call in progress is; "idle" between two calls
    kind,         \* the function called last: "random", "sub_ms" or "count"
    last_ms, last_nanos_within_ms, last_sampled_nanos_within_ms, counter,
    call_wall,    \* history: the wall clock when the last call started
    ids_in_ms     \* history: counter ids in the current wall millisecond

state_vars ==
    <<last_ms, last_nanos_within_ms, last_sampled_nanos_within_ms, counter>>
call_vars == <<kind, call_wall, ids_in_ms>>
vars == <<time_vars, clock_vars, refresh_vars, measure_vars, backend, pc,
          state_vars, call_vars>>

\* The ids themselves are left out: ThreadState makes them of the state.
T == INSTANCE ThreadState WITH
         count_id <- 0, sub_ms_id <- 0, sub_ms_slots <- 0, last_ts <- 0

\* The thread's state is made when it first needs one.
Init ==
    /\ ClockInit(0)
    /\ CalibrationInit
    /\ T!Init
    /\ \/ backend = "counter" /\ pc = "new"
       \/ backend = "system" /\ pc = "idle"
    /\ kind = "random"
    /\ call_wall = 0
    /\ ids_in_ms = 0

-----------------------------------------------------------------------------
(* CounterClock::new *)

ThreadUnchanged == UNCHANGED <<time_vars, refresh_vars, backend, state_vars, call_vars>>

Declare ==
    /\ pc = "new"
    /\ DeclaredByCpuid \/ DeclaredByCntfrq
    /\ pc' = "idle"
    /\ UNCHANGED <<sampled_at, next_deadline, measure_vars>>
    /\ ThreadUnchanged

StartMeasuring ==
    /\ pc = "new"
    /\ StartInstant
    /\ pc' = "start_tsc"
    /\ UNCHANGED clock_vars
    /\ ThreadUnchanged

ReadStartTsc ==
    /\ pc = "start_tsc"
    /\ StartTsc
    /\ pc' = "measuring"
    /\ UNCHANGED clock_vars
    /\ ThreadUnchanged

ReadEndTsc ==
    /\ pc = "measuring"
    /\ EndTsc
    /\ pc' = "end_instant"
    /\ UNCHANGED clock_vars
    /\ ThreadUnchanged

EndMeasuring ==
    /\ pc = "end_instant"
    /\ EndInstant
    /\ start_instant' = 0 /\ start_tsc' = 0 /\ elapsed_ticks' = 0
    /\ pc' = "idle"
    /\ UNCHANGED <<sampled_at, next_deadline>>
    /\ ThreadUnchanged

Calibrate == Declare \/ StartMeasuring \/ ReadStartTsc \/ ReadEndTsc \/ EndMeasuring

-----------------------------------------------------------------------------
(* The calls *)

\* The caller keeps counter ids to its rate; it may take any number of others.
StartCall(k) ==
    /\ pc = "idle"
    /\ k = "count" => ids_in_ms < IdsPerMs
    /\ kind' = k
    /\ call_wall' = wall

\* last_ms == 0 || clock.should_refresh(); SystemClock always refreshes.
refresh_due == last_ms = 0 \/ backend = "system" \/ should_refresh

\* get_time_and_counter when no later millisecond was read.
CounterTurn ==
    \/ /\ T!counter_exhausted
       /\ \E c \in T!seed_counter : T!RollOver(last_ms + 1, c)
    \/ /\ ~T!counter_exhausted
       /\ counter' = counter + 1
       /\ UNCHANGED last_ms

CallOnCachedMs(k) ==
    /\ k # "sub_ms"
    /\ StartCall(k)
    /\ ~refresh_due
    /\ IF k = "count"
       THEN /\ CounterTurn
            /\ ids_in_ms' = ids_in_ms + 1
            /\ ~T!counter_exhausted =>
                   UNCHANGED <<last_nanos_within_ms, last_sampled_nanos_within_ms>>
       ELSE UNCHANGED <<state_vars, ids_in_ms>>
    /\ UNCHANGED <<time_vars, clock_vars, refresh_vars, measure_vars, backend, pc>>

CallEstimating ==
    /\ StartCall("sub_ms")
    /\ ~refresh_due
    /\ pc' = "estimate"
    /\ UNCHANGED <<time_vars, clock_vars, refresh_vars, measure_vars, backend,
                   state_vars, ids_in_ms>>

\* Mutant of estimate_nanos_within_ms: one estimate starts from the last.
estimate_from_last_estimate ==
    IF next_deadline = 0
    THEN last_sampled_nanos_within_ms
    ELSE estimate_nanos_within_ms_from_ticks(
             ticks_per_ms, last_nanos_within_ms, wrapping_sub(read_counter, sampled_at))

\* The counter is read again: the deadline checked before may have passed.
estimate_nanos_within_ms ==
    IF next_deadline = 0
    THEN last_sampled_nanos_within_ms
    ELSE estimate_nanos_within_ms_from_ticks(
             ticks_per_ms, last_sampled_nanos_within_ms,
             wrapping_sub(read_counter, sampled_at))

Estimate ==
    /\ pc = "estimate"
    /\ T!record_time_sample(last_ms, estimate_nanos_within_ms, FALSE)
    /\ pc' = "idle"
    /\ UNCHANGED <<time_vars, clock_vars, refresh_vars, measure_vars, backend, call_vars>>

CallRefreshing(k) ==
    /\ StartCall(k)
    /\ refresh_due
    /\ pc' = IF backend = "system" THEN "before" ELSE "due"
    /\ UNCHANGED <<time_vars, clock_vars, refresh_vars, measure_vars, backend,
                   state_vars, ids_in_ms>>

RefreshBefore ==
    /\ pc = "due"
    /\ ReadCounterBefore
    /\ pc' = "before"
    /\ UNCHANGED <<measure_vars, backend, state_vars, call_vars>>

RefreshWall ==
    /\ pc = "before"
    /\ ReadWall
    /\ pc' = "sampled"
    /\ UNCHANGED <<measure_vars, backend, state_vars, call_vars>>

\* SystemClock has nothing to remember of a sample, and nothing to estimate from.
system_record_sample == UNCHANGED <<time_vars, clock_vars, refresh_vars>>

\* What the call does with the time it has read.
UseSample(ms, nanos) ==
    \/ /\ kind # "count" \/ ms > last_ms
       /\ T!record_time_sample(ms, nanos, TRUE)
    \/ /\ kind = "count"
       /\ ms <= last_ms
       /\ CounterTurn
       /\ ~T!counter_exhausted =>
              /\ last_nanos_within_ms' = T!kept_nanos(ms, nanos)
              /\ last_sampled_nanos_within_ms' =
                     T!kept_sampled_nanos(ms, nanos, TRUE)

RefreshAfter ==
    /\ pc = "sampled"
    /\ \/ backend = "counter" /\ ReadCounterAfter
       \/ backend = "system" /\ system_record_sample
    /\ UseSample(MsOf(sample), sample % NANOS_PER_MS)
    /\ ids_in_ms' = IF kind = "count" THEN ids_in_ms + 1 ELSE ids_in_ms
    /\ pc' = "idle"
    /\ UNCHANGED <<measure_vars, backend, kind, call_wall>>

TimePasses ==
    /\ Elapse
    /\ ids_in_ms' = IF MsOf(wall') = MsOf(wall) THEN ids_in_ms ELSE 0
    /\ UNCHANGED <<clock_vars, refresh_vars, measure_vars, backend, pc,
                   state_vars, kind, call_wall>>

Next ==
    \/ Calibrate
    \/ \E k \in {"random", "count"} : CallOnCachedMs(k)
    \/ CallEstimating
    \/ Estimate
    \/ \E k \in {"random", "sub_ms", "count"} : CallRefreshing(k)
    \/ RefreshBefore
    \/ RefreshWall
    \/ RefreshAfter
    \/ TimePasses

Spec == Init /\ [][Next]_vars

-----------------------------------------------------------------------------
(* Properties *)

TypeOK ==
    /\ T!TypeOK
    /\ wall \in 0 .. MaxWall
    /\ {tsc, sampled_at, next_deadline, before, start_tsc} \subseteq 0 .. U64 - 1
    /\ ticks_per_ms \in Nat
    /\ sample \in 0 .. wall
    /\ start_instant \in 0 .. wall
    /\ elapsed_ticks \in 0 .. U64 - 1
    /\ backend \in {"counter", "system"}
    /\ pc \in {"new", "start_tsc", "measuring", "end_instant",
               "idle", "estimate", "due", "before", "sampled"}
    /\ kind \in {"random", "sub_ms", "count"}
    /\ call_wall \in 0 .. wall
    /\ ids_in_ms \in 0 .. IdsPerMs

\* A measurement is never too fast, wherever it is preempted: the clock is read
\* first and last, so the ticks fit the time they are set against.  A rate too
\* high would stretch every deadline of the process.
MeasuredNotTooFast ==
    ticks_per_ms \in {0, 1, FALLBACK_TICKS_PER_MS} \/ RateNotAbove(ticks_per_ms)

\* The measurement gives "sub-percent accuracy".
MeasuredWithinPercent ==
    ticks_per_ms # 0 =>
        100 * ticks_per_ms * ElapseNanos >= 99 * NANOS_PER_MS * ElapseTicks

\* The clock is one ThreadState allows for: what a step of it does to the
\* thread's four fields, one of the three ways to get the time could do.
ClockOfThreadState ==
    [][\/ T!get_time
       \/ T!sample_time
       \/ \E ts \in 0 .. MaxMs, c \in 0 .. COUNTER_MAX : T!get_time_and_counter(ts, c)
      ]_state_vars

Returned == pc = "idle" /\ last_ms # 0

\* The timestamp of any id is at most half a millisecond older than its call,
\* and never ahead of the wall clock while counter ids keep to their budget.
\* Without a counter it is never older at all.
TimestampWithinRefreshInterval ==
    Returned =>
        /\ last_ms >= MsOf(IF backend = "system" THEN call_wall ELSE call_wall - ReuseNanos)
        /\ last_ms <= MsOf(wall)

\* decode_sub_ms_window_ns and interval_gap_ns of the diagnostic example.
WindowStart(slots) ==
    last_ms * NANOS_PER_MS
        + ((sub_ms_fraction(last_nanos_within_ms, slots) * NANOS_PER_MS) \div slots)

WindowEnd(slots) ==
    last_ms * NANOS_PER_MS
        + (((sub_ms_fraction(last_nanos_within_ms, slots) + 1) * NANOS_PER_MS - 1)
               \div slots)

interval_gap_ns(a_start, a_end, b_start, b_end) ==
    Most(0, Most(b_start - a_end, a_start - b_end))

\* The window an id with a fraction stands for lags its call by no more than its
\* millisecond may, half a millisecond at the counter's own rate, and runs ahead
\* of the clock by less than half a millisecond unless the rate is too low:
\* estimates start afresh from the sample, however the deadline and the sample's
\* date were preempted.  Without a counter it holds the call.
FractionNearCall ==
    (Returned /\ kind = "sub_ms") =>
        \A slots \in SubMsSlots :
            /\ backend = "system" =>
                   interval_gap_ns(WindowStart(slots), WindowEnd(slots), call_wall, wall) = 0
            /\ call_wall - WindowEnd(slots) <= ReuseNanos
            /\ NANOS_PER_MS * ElapseTicks <= ticks_per_ms * ElapseNanos =>
                   WindowStart(slots) - wall < MAX_REFRESH_INTERVAL_NANOS
=============================================================================
