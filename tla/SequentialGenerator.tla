------------------------ MODULE SequentialGenerator ------------------------
(***************************************************************************)
(* src/src/sequential.rs: the owned generator of strictly increasing ids.  *)
(*                                                                         *)
(* The clock is the weakest one the code may meet: a call may or may not   *)
(* find its cached time due for a refresh, and a refresh may read any      *)
(* millisecond, earlier ones included.  What is shown here therefore needs *)
(* no assumption on the wall clock or on the CPU counter;                  *)
(* ClockedSequential adds both.                                            *)
(***************************************************************************)
EXTENDS UuidLayout

CONSTANTS
    COUNTER_MAX,        \* 0x3FFFF, the largest counter
    COUNTER_SEED_MASK,  \* 0x0FFF, the largest seed
    MaxMs               \* bound: the largest timestamp, below 2^48

ASSUME CounterAssumption ==
    /\ COUNTER_MAX \in Nat
    /\ COUNTER_MAX < RandAMod * CtrLowMod
    /\ COUNTER_SEED_MASK \in Nat \ {0}
    /\ COUNTER_SEED_MASK < COUNTER_MAX
    /\ MaxMs \in Nat
    /\ MaxMs < TsMod

VARIABLES
    last_ms,      \* SequentialGenerator.last_ms
    counter,      \* SequentialGenerator.counter
    last_id,      \* history: the id returned last, 0 before the first call
    clock_max,    \* history: the latest millisecond a refresh has read
    since         \* history: ids returned since the clock last moved last_ms

vars == <<last_ms, counter, last_id, clock_max, since>>

Later(a, b) == IF a > b THEN a ELSE b

\* Mutant of seed_counter: the mask is left out.
seed_counter_unmasked == 0 .. COUNTER_MAX

\* rng.next_u32() & COUNTER_SEED_MASK
seed_counter == 0 .. COUNTER_SEED_MASK

\* Mutant of counter_exhausted: noticed one id too late.
counter_exhausted_late == counter > COUNTER_MAX

counter_exhausted == counter >= COUNTER_MAX

Init ==
    /\ last_ms = 0
    /\ counter = 0
    /\ last_id = 0
    /\ clock_max = 0
    /\ since = 0

\* The call builds its id from the state it has just stored.
ReturnId ==
    \E rand_b_low \in 0 .. RandLowMod - 1 :
        last_id' = counter_id(last_ms', counter', rand_b_low)

\* Mutant of Advance: a second reading of the same millisecond reseeds too.
AdvanceOrSame(ms) ==
    /\ ms >= last_ms
    /\ last_ms' = ms
    /\ counter' \in seed_counter
    /\ since' = 1

\* A later millisecond than the cached one: take it and reseed.
Advance(ms) ==
    /\ ms > last_ms
    /\ last_ms' = ms
    /\ counter' \in seed_counter
    /\ since' = 1

\* The millisecond's counter values are used up: borrow the next millisecond.
RollOver ==
    /\ counter_exhausted
    /\ last_ms < MaxMs
    /\ last_ms' = last_ms + 1
    /\ counter' \in seed_counter
    /\ since' = since + 1

Increment ==
    /\ ~counter_exhausted
    /\ counter' = counter + 1
    /\ UNCHANGED last_ms
    /\ since' = since + 1

\* The call refreshed the clock, which read millisecond ms.  A reading that is
\* not later than last_ms is ignored and the counter moves instead.
UseReading(ms) ==
    /\ \/ Advance(ms)
       \/ ms <= last_ms /\ (RollOver \/ Increment)
    /\ clock_max' = Later(clock_max, ms)
    /\ ReturnId

\* The cached millisecond was not due.  The first call (last_ms = 0) refreshes.
UseCachedMs ==
    /\ last_ms # 0
    /\ RollOver \/ Increment
    /\ UNCHANGED clock_max
    /\ ReturnId

next_id == UseCachedMs \/ \E ms \in 0 .. MaxMs : UseReading(ms)

Next == next_id

Spec == Init /\ [][Next]_vars

-----------------------------------------------------------------------------
(* Properties *)

\* Every field keeps its range: the timestamp fits the 48 bits that
\* uuid_v7_from_parts keeps and the counter the 18 bits the id gives it.
TypeOK ==
    /\ last_ms \in 0 .. MaxMs
    /\ counter \in 0 .. COUNTER_MAX
    /\ last_id \in Nat
    /\ clock_max \in 0 .. MaxMs
    /\ since \in Nat

\* next_id returns "a value strictly greater than the previous one", through
\* counter rollover, reseeding and a wall clock that runs backwards.
Source == INSTANCE IncreasingSource WITH last <- last_id
StrictlyIncreasing == Source!Spec

\* Ids a millisecond has room for at the least (258,049 in the code).
Budget == COUNTER_MAX - COUNTER_SEED_MASK + 1

\* The timestamp is never behind a clock reading, and is ahead of all of them
\* by no more milliseconds than whole budgets were spent since the clock last
\* moved it: next_id borrows a millisecond only for 258,049 ids or more.
DriftBounded ==
    /\ clock_max <= last_ms
    /\ (last_ms - clock_max) * Budget <= since
=============================================================================
