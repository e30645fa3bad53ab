---------------------------- MODULE ThreadState ----------------------------
(***************************************************************************)
(* src/src/lib.rs: the state every free function of one thread shares, and *)
(* the three kinds of id they make from it: random (gen_id), with a        *)
(* sub-millisecond fraction (gen_id_with_sub_ms_4/8/12) and with a counter *)
(* (gen_id_with_count).  A caller may mix them in any order, so each must  *)
(* keep the order of the others.                                           *)
(*                                                                         *)
(* As in SequentialGenerator the clock is the weakest one the code may     *)
(* meet: any call may or may not find a refresh due, a refresh may read    *)
(* any time, earlier ones included, and the estimate between two refreshes *)
(* may be anywhere from the sampled nanosecond to the end of the           *)
(* millisecond, which is all that its clamping guarantees.  The random     *)
(* draws are nondeterministic, so reseed() changes nothing here.           *)
(***************************************************************************)
EXTENDS UuidLayout, ClockArith

CONSTANTS
    COUNTER_MAX,        \* 0x3FFFF, the largest counter
    COUNTER_SEED_MASK,  \* 0x0FFF, the largest seed
    SubMsSlots,         \* {2^4, 2^8, 2^12}: values of the fraction
    MaxMs               \* bound: the largest timestamp, below 2^48

ASSUME ThreadAssumption ==
    /\ COUNTER_MAX \in Nat
    /\ COUNTER_MAX < RandAMod * CtrLowMod
    /\ COUNTER_SEED_MASK \in Nat
    /\ COUNTER_SEED_MASK <= COUNTER_MAX
    /\ MaxMs \in Nat
    /\ MaxMs < TsMod

\* A fraction fits rand_a, its product fits 32 bits, and widths nest.
ASSUME SlotsAssumption ==
    /\ \A slots \in SubMsSlots :
           /\ slots \in Nat \ {0}
           /\ RandAMod % slots = 0
           /\ NANOS_PER_MS * slots <= U32
    /\ \A s1, s2 \in SubMsSlots : s1 <= s2 => s2 % s1 = 0

VARIABLES
    last_ms,
    last_nanos_within_ms,
    last_sampled_nanos_within_ms,
    counter,
    count_id,     \* history: the last id of gen_id_with_count, 0 before one
    sub_ms_id,    \* history: the last id with a fraction, 0 before one
    sub_ms_slots, \* history: the width of its fraction, 0 before one
    last_ts       \* history: the timestamp of the last id of any kind

time_vars == <<last_ms, last_nanos_within_ms, last_sampled_nanos_within_ms>>
vars == <<time_vars, counter, count_id, sub_ms_id, sub_ms_slots, last_ts>>

Nanos == 0 .. NANOS_PER_MS - 1

seed_counter == 0 .. COUNTER_SEED_MASK

counter_exhausted == counter >= COUNTER_MAX

Init ==
    /\ last_ms = 0
    /\ last_nanos_within_ms = 0
    /\ last_sampled_nanos_within_ms = 0
    /\ counter = 0
    /\ count_id = 0
    /\ sub_ms_id = 0
    /\ sub_ms_slots = 0
    /\ last_ts = 0

-----------------------------------------------------------------------------
(* Time *)

\* last_ms == 0 || clock.should_refresh(): the first call always refreshes.
MayRefresh(refreshed) == last_ms = 0 => refreshed

\* Mutant of record_later_sample: the same millisecond read again counts as later.
record_later_or_same_sample(ms, nanos, refreshed) ==
    /\ ms >= last_ms
    /\ last_ms' = ms
    /\ last_nanos_within_ms' = nanos
    /\ last_sampled_nanos_within_ms' =
           IF refreshed THEN nanos ELSE last_sampled_nanos_within_ms
    /\ counter' \in seed_counter

\* record_time_sample of a later millisecond: take it and reseed.
record_later_sample(ms, nanos, refreshed) ==
    /\ ms > last_ms
    /\ last_ms' = ms
    /\ last_nanos_within_ms' = nanos
    /\ last_sampled_nanos_within_ms' =
           IF refreshed THEN nanos ELSE last_sampled_nanos_within_ms
    /\ counter' \in seed_counter

\* Mutant of kept_nanos: the newest reading wins over the latest one.
overwritten_nanos(ms, nanos) ==
    IF ms = last_ms THEN nanos ELSE last_nanos_within_ms

\* record_time_sample of the same or an earlier millisecond: what the two
\* nanosecond fields become.  The counter and last_ms are left alone.
kept_nanos(ms, nanos) ==
    IF ms = last_ms THEN Most(last_nanos_within_ms, nanos)
                    ELSE last_nanos_within_ms

kept_sampled_nanos(ms, nanos, refreshed) ==
    IF ms = last_ms /\ refreshed THEN nanos ELSE last_sampled_nanos_within_ms

record_time_sample(ms, nanos, refreshed) ==
    \/ record_later_sample(ms, nanos, refreshed)
    \/ /\ ms <= last_ms
       /\ last_nanos_within_ms' = kept_nanos(ms, nanos)
       /\ last_sampled_nanos_within_ms' = kept_sampled_nanos(ms, nanos, refreshed)
       /\ UNCHANGED <<last_ms, counter>>

\* refresh_time: the wall clock reads anything.
refresh_time ==
    \E ms \in 0 .. MaxMs, nanos \in Nanos : record_time_sample(ms, nanos, TRUE)

get_time ==
    \/ MayRefresh(TRUE) /\ refresh_time
    \/ MayRefresh(FALSE) /\ UNCHANGED <<time_vars, counter>>

\* Like get_time, but between refreshes the nanoseconds are estimated.
sample_time ==
    \/ MayRefresh(TRUE) /\ refresh_time
    \/ /\ MayRefresh(FALSE)
       /\ \E nanos \in last_sampled_nanos_within_ms .. NANOS_PER_MS - 1 :
              record_time_sample(last_ms, nanos, FALSE)

\* Mutant of RollOver: the sample the estimates start from is not reset.
RollOverKeepsSample(ts, c) ==
    /\ counter_exhausted
    /\ last_ms < MaxMs
    /\ ts = last_ms + 1
    /\ c \in seed_counter
    /\ last_ms' = ts
    /\ last_nanos_within_ms' = 0
    /\ UNCHANGED last_sampled_nanos_within_ms
    /\ counter' = c

\* Mutant of RollOver: the borrowed millisecond is used but not stored.
RollOverUnstored(ts, c) ==
    /\ counter_exhausted
    /\ last_ms < MaxMs
    /\ ts = last_ms + 1
    /\ c \in seed_counter
    /\ counter' = c
    /\ UNCHANGED time_vars

\* The counter's turn when the clock has not moved on; (ts, c) is the pair the
\* id is made of.  An exhausted counter borrows the next millisecond, whose
\* nanoseconds start again from 0.
RollOver(ts, c) ==
    /\ counter_exhausted
    /\ last_ms < MaxMs
    /\ ts = last_ms + 1
    /\ c \in seed_counter
    /\ last_ms' = ts
    /\ last_nanos_within_ms' = 0
    /\ last_sampled_nanos_within_ms' = 0
    /\ counter' = c

Increment(ts, c) ==
    /\ ~counter_exhausted
    /\ ts = last_ms
    /\ c = counter + 1
    /\ counter' = c
    /\ UNCHANGED last_ms
    /\ \/ /\ MayRefresh(FALSE)
          /\ UNCHANGED <<last_nanos_within_ms, last_sampled_nanos_within_ms>>
       \/ \E ms \in 0 .. last_ms, nanos \in Nanos :
              /\ last_nanos_within_ms' = kept_nanos(ms, nanos)
              /\ last_sampled_nanos_within_ms' =
                     kept_sampled_nanos(ms, nanos, TRUE)

get_time_and_counter(ts, c) ==
    \/ /\ \E ms \in 0 .. MaxMs, nanos \in Nanos :
              record_later_sample(ms, nanos, TRUE)
       /\ ts = last_ms'
       /\ c = counter'
    \/ RollOver(ts, c)
    \/ Increment(ts, c)

-----------------------------------------------------------------------------
(* The free functions *)

\* gen_id, gen_id_u128, gen_id_str, gen_id_string; RandomGenerator::next_id on
\* a state of its own.
gen_id ==
    /\ get_time
    /\ \E rand_a \in 0 .. RandAMod - 1, rand_b \in 0 .. RandBMod - 1 :
           last_ts' = TimestampOf(uuid_v7_from_parts(last_ms', rand_a, rand_b))
    /\ UNCHANGED <<count_id, sub_ms_id, sub_ms_slots>>

gen_id_with_sub_ms(slots) ==
    /\ sample_time
    /\ \E random \in 0 .. RandAMod - 1, rand_b \in 0 .. RandBMod - 1 :
           LET fraction == sub_ms_fraction(last_nanos_within_ms', slots)
           IN  sub_ms_id' = uuid_v7_from_parts(
                   last_ms', compose_rand_a(random, fraction, slots), rand_b)
    /\ sub_ms_slots' = slots
    /\ last_ts' = TimestampOf(sub_ms_id')
    /\ UNCHANGED count_id

gen_id_with_count ==
    /\ \E ts \in 0 .. MaxMs, c \in 0 .. COUNTER_MAX,
          rand_b_low \in 0 .. RandLowMod - 1 :
           /\ get_time_and_counter(ts, c)
           /\ count_id' = counter_id(ts, c, rand_b_low)
    /\ last_ts' = TimestampOf(count_id')
    /\ UNCHANGED <<sub_ms_id, sub_ms_slots>>

Next ==
    \/ gen_id
    \/ \E slots \in SubMsSlots : gen_id_with_sub_ms(slots)
    \/ gen_id_with_count

Spec == Init /\ [][Next]_vars

-----------------------------------------------------------------------------
(* Properties *)

\* Every field keeps its range; the sampled nanosecond, from which estimates
\* start, is never past the nanosecond already given out.
TypeOK ==
    /\ last_ms \in 0 .. MaxMs
    /\ last_nanos_within_ms \in Nanos
    /\ last_sampled_nanos_within_ms \in 0 .. last_nanos_within_ms
    /\ counter \in 0 .. COUNTER_MAX
    /\ count_id \in Nat
    /\ sub_ms_id \in Nat
    /\ sub_ms_slots \in SubMsSlots \cup {0}
    /\ last_ts \in 0 .. MaxMs

\* gen_id_with_count "guarantees per-thread monotonicity": its ids strictly
\* increase although the other calls on the thread refresh the time and reseed
\* the counter in between, and although the wall clock may run backwards.
CountSource == INSTANCE IncreasingSource WITH last <- count_id
CountStrictlyIncreasing == CountSource!Spec

\* What sorts an id with a fraction: everything above its random bits.
SubMsPrefix(id, slots) == id \div ((RandAMod \div slots) * 4 * RandBMod)

\* Ids with a fraction never sort backwards on a thread, down to the coarser
\* of their two fractions: not when a refresh samples less than was estimated,
\* nor when the counter of other calls has pushed the timestamp ahead.
SubMsNeverBackwards ==
    [][sub_ms_id # 0 =>
           LET slots == Least(sub_ms_slots, sub_ms_slots')
           IN  SubMsPrefix(sub_ms_id', slots) >= SubMsPrefix(sub_ms_id, slots)
      ]_vars

\* The timestamps a thread hands out never decrease, whichever functions it
\* calls in turn: a millisecond borrowed by the counter is kept by the others.
TimestampsNeverBackwards == [][last_ts' >= last_ts]_vars
=============================================================================
