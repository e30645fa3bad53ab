------------------------- MODULE ClockedSequential -------------------------
(***************************************************************************)
(* A SequentialGenerator on its real clock: the deadline check, the three  *)
(* readings of a refresh and the rest of next_id are steps between which   *)
(* any time may pass.  SequentialGenerator shows that no clock can break   *)
(* the order of the ids; this module asks how well their timestamps follow *)
(* the wall clock.                                                         *)
(***************************************************************************)
EXTENDS CounterClock, UuidLayout

CONSTANTS
    COUNTER_MAX,
    COUNTER_SEED_MASK,
    MaxMs,        \* bound: the largest timestamp
    Rates,        \* rates the code may take the counter to have
    IdsPerMs,     \* ids the caller takes in one wall-clock millisecond at the most
    CounterJump   \* ticks the counter falls back by when the machine moves

ASSUME RatesAssumption == Rates \subseteq Nat \ {0}

ASSUME JumpAssumption ==
    /\ CounterJump \in Nat
    /\ (CounterJump * ElapseNanos) % ElapseTicks = 0

\* The generator's own assumptions, and timestamps for all of the time there is.
ASSUME ClockedSequentialAssumption ==
    /\ COUNTER_MAX \in Nat
    /\ COUNTER_MAX < RandAMod * CtrLowMod
    /\ COUNTER_SEED_MASK \in Nat \ {0}
    /\ COUNTER_SEED_MASK < COUNTER_MAX
    /\ MaxMs \in Nat
    /\ MaxMs < TsMod
    /\ MaxWall \div NANOS_PER_MS <= MaxMs
    /\ IdsPerMs \in Nat

VARIABLES
    pc,           \* where the call in progress is; "idle" between two calls
    last_ms, counter, last_id, clock_max, since,   \* the generator's
    call_wall,    \* history: the wall clock when the last call started
    ids_in_ms,    \* history: ids returned in the current wall millisecond
    pause,        \* history: ticks between the last two calls, up to RestTicks
    jumped        \* history: the counter has fallen back

generator_vars == <<last_ms, counter, last_id, clock_max, since>>
call_vars == <<pc, call_wall, ids_in_ms, pause>>
vars == <<time_vars, clock_vars, refresh_vars, generator_vars, call_vars, jumped>>

Generator == INSTANCE SequentialGenerator

Init ==
    /\ \E rate \in Rates : ClockInit(rate)
    /\ Generator!Init
    /\ pc = "idle"
    /\ call_wall = 0
    /\ ids_in_ms = 0
    /\ pause = 0
    /\ jumped = FALSE

\* The longest time between two refreshes, by the rate the code goes by.
RestTicks == ticks_until_next_refresh(ticks_per_ms, 0)

\* The caller keeps to its rate.
StartCall ==
    /\ pc = "idle"
    /\ ids_in_ms < IdsPerMs
    /\ call_wall' = wall

\* Mutant of refresh_due: a millisecond is used up before the clock is asked.
refresh_due_when_exhausted ==
    last_ms = 0 \/ (Generator!counter_exhausted /\ should_refresh)

\* last_ms == 0 || clock.should_refresh()
refresh_due == last_ms = 0 \/ should_refresh

ReturnId ==
    /\ ids_in_ms' = ids_in_ms + 1
    /\ pause' = 0

\* Most calls end here: one reading of the counter, no system call.
CallOnCachedMs ==
    /\ StartCall
    /\ ~refresh_due
    /\ Generator!UseCachedMs
    /\ ReturnId
    /\ UNCHANGED <<pc, time_vars, clock_vars, refresh_vars, jumped>>

CallRefreshing ==
    /\ StartCall
    /\ refresh_due
    /\ pc' = "due"
    /\ UNCHANGED <<ids_in_ms, pause, time_vars, clock_vars, refresh_vars, generator_vars, jumped>>

RefreshBefore ==
    /\ pc = "due"
    /\ ReadCounterBefore
    /\ pc' = "before"
    /\ UNCHANGED <<generator_vars, call_wall, ids_in_ms, pause, jumped>>

RefreshWall ==
    /\ pc = "before"
    /\ ReadWall
    /\ pc' = "sampled"
    /\ UNCHANGED <<generator_vars, call_wall, ids_in_ms, pause, jumped>>

RefreshAfter ==
    /\ pc = "sampled"
    /\ ReadCounterAfter
    /\ Generator!UseReading(MsOf(sample))
    /\ pc' = "idle"
    /\ ReturnId
    /\ UNCHANGED <<call_wall, jumped>>

TimePasses ==
    /\ Elapse
    /\ ids_in_ms' = IF MsOf(wall') = MsOf(wall) THEN ids_in_ms ELSE 0
    /\ pause' = IF pc = "idle" THEN Least(pause + ElapseTicks, RestTicks) ELSE pause
    /\ UNCHANGED <<clock_vars, refresh_vars, generator_vars, pc, call_wall, jumped>>

\* The machine is moved to a host whose counter is behind.
CounterFallsBack ==
    /\ ~jumped
    /\ tsc' = wrapping_sub(tsc, CounterJump)
    /\ jumped' = TRUE
    /\ UNCHANGED <<wall, clock_vars, refresh_vars, generator_vars, call_vars>>

Next ==
    \/ CallOnCachedMs
    \/ CallRefreshing
    \/ RefreshBefore
    \/ RefreshWall
    \/ RefreshAfter
    \/ TimePasses

\* A counter that never goes back, which the code relies on.
Spec == Init /\ [][Next]_vars

\* A machine that is moved once, but not while the time is being sampled.
NextMovedBetweenRefreshes ==
    \/ Next
    \/ pc \in {"idle", "due"} /\ CounterFallsBack

MovedBetweenRefreshesSpec == Init /\ [][NextMovedBetweenRefreshes]_vars

\* A machine that is moved once, at any time.
NextMoved == Next \/ CounterFallsBack

MovedSpec == Init /\ [][NextMoved]_vars

-----------------------------------------------------------------------------
(* Properties *)

TypeOK ==
    /\ Generator!TypeOK
    /\ wall \in 0 .. MaxWall
    /\ {tsc, sampled_at, next_deadline, before} \subseteq 0 .. U64 - 1
    /\ sample \in 0 .. wall
    /\ pc \in {"idle", "due", "before", "sampled"}
    /\ call_wall \in 0 .. wall
    /\ ids_in_ms \in 0 .. IdsPerMs
    /\ pause \in 0 .. RestTicks

Returned == pc = "idle" /\ last_id # 0

\* What the counter's fall is worth in nanoseconds.
JumpNanos == IF jumped THEN (CounterJump * ElapseNanos) \div ElapseTicks ELSE 0

\* An id is not older than its call by half a millisecond or more: whatever
\* preemption separates the readings of a refresh, a cached millisecond is
\* reused for less than the refresh interval past its end; in proportion longer
\* where the code takes the counter to be faster than it is.  A fall of the
\* counter delays the next refresh, by up to twice its size when preemption
\* has dated the last sample late.
LagUnderRefreshInterval ==
    Returned => last_ms >= MsOf(call_wall - ReuseNanos - 2 * JumpNanos)

\* "It catches up again as soon as generation pauses", for a call that comes a
\* refresh interval after the last one.  Once the wall clock has passed the
\* timestamp, however far that was ahead before, the call gets a millisecond of
\* its own duration.  A lead the clock has not passed yet remains, since ids must
\* not go back, but does not grow: the timestamp stays, or moves to a reading of
\* the clock or by one where the counter is used up.  Only a counter that fell
\* back may keep a millisecond in use that has been passed.
CatchesUp ==
    [][/\ last_id' # last_id
       /\ pause = RestTicks
       /\ ~jumped
       => IF last_ms < MsOf(call_wall')
          THEN last_ms' \in MsOf(call_wall') .. MsOf(wall')
          ELSE \/ last_ms' = last_ms
               \/ last_ms' \in last_ms .. MsOf(wall')
               \/ counter >= COUNTER_MAX /\ last_ms' = last_ms + 1]_vars

\* "Extreme edge cases (e.g., VM migration) might cause a 1ms timestamp lag":
\* an id is at most one millisecond older than its call, moved or not.
LagAtMostOneMs == Returned => last_ms >= MsOf(call_wall) - 1

\* A caller that keeps to the budget of COUNTER_MAX - COUNTER_SEED_MASK + 1
\* ids per wall-clock millisecond is never given a timestamp ahead of the wall
\* clock, although a cached millisecond may outlive its own and ids of two
\* wall-clock milliseconds then share one counter.
NeverAheadWithinBudget == last_ms <= MsOf(wall)
=============================================================================
