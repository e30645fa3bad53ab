------------------------- MODULE ThreadStateProofs -------------------------
(***************************************************************************)
(* Theorems about ThreadState for every field width, counter size, seed    *)
(* mask and set of fraction widths the assumptions allow.                  *)
(***************************************************************************)
EXTENDS ThreadState, UuidLayoutProofs

-----------------------------------------------------------------------------
(* How the fields move *)

\* The part of TypeOK that speaks of the fields of ThreadState.
FieldsOK ==
    /\ last_ms \in 0 .. MaxMs
    /\ last_nanos_within_ms \in Nanos
    /\ last_sampled_nanos_within_ms \in 0 .. last_nanos_within_ms
    /\ counter \in 0 .. COUNTER_MAX

\* Within a millisecond neither the counter nor the nanoseconds go back.
MovesOn ==
    \/ last_ms < last_ms'
    \/ /\ last_ms = last_ms'
       /\ counter <= counter'
       /\ last_nanos_within_ms <= last_nanos_within_ms'

\* A recorded sample keeps the ranges and never moves the thread back.
LEMMA RecordMovesOn ==
    ASSUME FieldsOK, NEW ms \in 0 .. MaxMs, NEW nanos \in Nanos,
           NEW refreshed \in BOOLEAN,
           refreshed \/ (ms = last_ms /\ last_sampled_nanos_within_ms <= nanos),
           record_time_sample(ms, nanos, refreshed)
    PROVE  FieldsOK' /\ MovesOn
<1> USE ArithAssumption, ThreadAssumption DEF FieldsOK, MovesOn, Nanos
<1>1. CASE record_later_sample(ms, nanos, refreshed)
    <2>1. refreshed
        BY <1>1 DEF record_later_sample
    <2> QED
        BY <1>1, <2>1 DEF record_later_sample, seed_counter
<1>2. CASE /\ ms <= last_ms
           /\ last_nanos_within_ms' = kept_nanos(ms, nanos)
           /\ last_sampled_nanos_within_ms' = kept_sampled_nanos(ms, nanos, refreshed)
           /\ UNCHANGED <<last_ms, counter>>
    BY <1>2 DEF kept_nanos, kept_sampled_nanos, Most
<1> QED
    BY <1>1, <1>2 DEF record_time_sample

\* So does looking at the time, in either way.
LEMMA TimeMovesOn ==
    ASSUME FieldsOK, get_time \/ sample_time
    PROVE  FieldsOK' /\ MovesOn
<1>1. CASE refresh_time
    <2>1. PICK ms \in 0 .. MaxMs, nanos \in Nanos : record_time_sample(ms, nanos, TRUE)
        BY <1>1 DEF refresh_time
    <2> QED BY <2>1, RecordMovesOn
<1>2. CASE UNCHANGED <<time_vars, counter>>
    BY <1>2, ThreadAssumption, ArithAssumption DEF FieldsOK, MovesOn, time_vars, Nanos
<1>3. CASE \E nanos \in last_sampled_nanos_within_ms .. NANOS_PER_MS - 1 :
               record_time_sample(last_ms, nanos, FALSE)
    <2>1. PICK nanos \in last_sampled_nanos_within_ms .. NANOS_PER_MS - 1 :
              record_time_sample(last_ms, nanos, FALSE)
        BY <1>3
    <2>2. nanos \in Nanos /\ last_sampled_nanos_within_ms <= nanos
        BY ArithAssumption DEF FieldsOK, Nanos
    <2>3. last_ms \in 0 .. MaxMs
        BY DEF FieldsOK
    <2> QED BY <2>1, <2>2, <2>3, RecordMovesOn
<1> QED
    BY <1>1, <1>2, <1>3 DEF get_time, sample_time

\* A counted call moves the pair (last_ms, counter) up, and returns it.
LEMMA CountMovesUp ==
    ASSUME FieldsOK, NEW ts \in 0 .. MaxMs, NEW c \in 0 .. COUNTER_MAX,
           get_time_and_counter(ts, c)
    PROVE  /\ FieldsOK' /\ MovesOn
           /\ ts = last_ms' /\ c = counter'
           /\ last_ms < last_ms' \/ (last_ms = last_ms' /\ counter < counter')
<1> USE ArithAssumption, ThreadAssumption DEF FieldsOK, MovesOn, Nanos
<1>1. CASE /\ \E ms \in 0 .. MaxMs, nanos \in Nanos :
                  record_later_sample(ms, nanos, TRUE)
           /\ ts = last_ms'
           /\ c = counter'
    BY <1>1 DEF record_later_sample, seed_counter
<1>2. CASE RollOver(ts, c)
    BY <1>2 DEF RollOver, seed_counter
<1>3. CASE Increment(ts, c)
    <2>1. /\ ts = last_ms' /\ c = counter' /\ last_ms' = last_ms
          /\ counter' = counter + 1 /\ counter < COUNTER_MAX
        BY <1>3 DEF Increment, counter_exhausted
    <2>2. /\ last_nanos_within_ms' \in Nanos
          /\ last_sampled_nanos_within_ms' \in 0 .. last_nanos_within_ms'
          /\ last_nanos_within_ms <= last_nanos_within_ms'
        <3>1. CASE UNCHANGED <<last_nanos_within_ms, last_sampled_nanos_within_ms>>
            BY <3>1
        <3>2. CASE \E ms \in 0 .. last_ms, nanos \in Nanos :
                       /\ last_nanos_within_ms' = kept_nanos(ms, nanos)
                       /\ last_sampled_nanos_within_ms' =
                              kept_sampled_nanos(ms, nanos, TRUE)
            BY <3>2 DEF kept_nanos, kept_sampled_nanos, Most
        <3> QED
            BY <1>3, <3>1, <3>2 DEF Increment
    <2> QED
        BY <2>1, <2>2
<1> QED
    BY <1>1, <1>2, <1>3 DEF get_time_and_counter

-----------------------------------------------------------------------------
(* The ids a call makes *)

\* A width divides rand_a into the fraction and at least one random value.
LEMMA SlotsDivide ==
    ASSUME NEW slots \in SubMsSlots
    PROVE  /\ slots \in Nat \ {0}
           /\ RandAMod \div slots \in Nat \ {0}
           /\ RandAMod = slots * (RandAMod \div slots)
<1>1. slots \in Nat \ {0} /\ RandAMod \in Nat \ {0} /\ RandAMod % slots = 0
    BY LayoutAssumption, SlotsAssumption
<1>2. /\ RandAMod \div slots \in Nat
      /\ RandAMod = (RandAMod \div slots) * slots + (RandAMod % slots)
    BY <1>1, DivMod
<1>3. PICK q \in Nat : q = RandAMod \div slots
    BY <1>2
<1>4. RandAMod = q * slots
    <2>1. q * slots \in Nat
        BY <1>1
    <2> QED BY <1>1, <1>2, <1>3, <2>1
<1>5. q # 0
    BY <1>1, <1>4
<1> QED
    BY <1>1, <1>3, <1>4, <1>5

\* The fraction is a digit of its width, and the u32 product does not wrap.
LEMMA FractionIsDigit ==
    ASSUME NEW n \in Nanos, NEW slots \in SubMsSlots
    PROVE  /\ sub_ms_fraction(n, slots) = (n * slots) \div NANOS_PER_MS
           /\ sub_ms_fraction(n, slots) \in 0 .. slots - 1
<1>1. /\ slots \in Nat \ {0} /\ NANOS_PER_MS \in Nat \ {0} /\ n \in Nat
      /\ n < NANOS_PER_MS /\ NANOS_PER_MS * slots <= U32 /\ U32 \in Nat \ {0}
    BY SlotsAssumption, ArithAssumption DEF Nanos
<1>2. n * slots \in 0 .. slots * NANOS_PER_MS - 1 /\ n * slots < U32 /\ n * slots \in Nat
    <2>1. Pack(n, slots, 0) < Pack(NANOS_PER_MS, slots, 0)
        BY <1>1, PackHigh
    <2>2. /\ Pack(n, slots, 0) = n * slots
          /\ Pack(NANOS_PER_MS, slots, 0) = NANOS_PER_MS * slots
          /\ n * slots \in Nat /\ NANOS_PER_MS * slots \in Nat
          /\ NANOS_PER_MS * slots = slots * NANOS_PER_MS
        BY <1>1 DEF Pack
    <2> QED BY <1>1, <2>1, <2>2
<1>3. Least(n, NANOS_PER_MS - 1) = n
    BY <1>1 DEF Least
<1>4. (n * slots) % U32 = n * slots
    <2>1. n * slots \in 0 .. U32 - 1
        BY <1>1, <1>2
    <2> QED BY <1>1, <2>1, ModOfSmall
<1>5. (n * slots) \div NANOS_PER_MS \in 0 .. slots - 1
    BY <1>1, <1>2, DivIsDigit
<1> QED
    BY <1>3, <1>4, <1>5 DEF sub_ms_fraction

\* rand_a is the fraction above a random rest.
LEMMA ComposedRandA ==
    ASSUME NEW slots \in SubMsSlots, NEW random \in 0 .. RandAMod - 1,
           NEW fraction \in 0 .. slots - 1
    PROVE  /\ compose_rand_a(random, fraction, slots)
                  = Pack(fraction, RandAMod \div slots, random % (RandAMod \div slots))
           /\ random % (RandAMod \div slots) \in 0 .. (RandAMod \div slots) - 1
           /\ compose_rand_a(random, fraction, slots) \in 0 .. RandAMod - 1
<1>1. PICK rest \in Nat \ {0} : rest = RandAMod \div slots /\ RandAMod = slots * rest
    BY SlotsDivide
<1>2. slots \in Nat \ {0} /\ random \in Nat
    BY SlotsDivide, LayoutAssumption
<1>3. fraction % slots = fraction
    BY <1>2, ModOfSmall
<1>4. PICK r \in 0 .. rest - 1 : r = random % rest
    BY <1>2, ModIsDigit
<1>5. Pack(fraction, rest, r) \in 0 .. slots * rest - 1
    BY <1>2, PackTwice
<1> QED
    BY <1>1, <1>3, <1>4, <1>5 DEF compose_rand_a

\* A counted id carries the timestamp it was made from.
LEMMA TimestampOfCounterId ==
    ASSUME NEW ts \in 0 .. MaxMs, NEW c \in 0 .. COUNTER_MAX,
           NEW r \in 0 .. RandLowMod - 1
    PROVE  TimestampOf(counter_id(ts, c, r)) = ts /\ counter_id(ts, c, r) \in Nat
<1>1. /\ ts \in 0 .. TsMod - 1 /\ ts \in Nat /\ c \in Nat /\ r \in Nat
      /\ CtrLowMod \in Nat \ {0} /\ RandAMod \in Nat \ {0} /\ RandLowMod \in Nat
    BY LayoutAssumption, ThreadAssumption
<1>2. (c \div CtrLowMod) % RandAMod \in 0 .. RandAMod - 1
    <2>1. c \div CtrLowMod \in Nat
        BY <1>1, DivMod
    <2> QED BY <1>1, <2>1, ModIsDigit
<1>3. Pack(c % CtrLowMod, RandLowMod, r) \in Nat
    <2>1. c % CtrLowMod \in Nat
        BY <1>1, ModIsDigit
    <2> QED BY <1>1, <2>1, PackNat
<1>4. TimestampOf(counter_id(ts, c, r)) = ts
    BY <1>1, <1>2, <1>3, TimestampOfParts DEF counter_id
<1>5. counter_id(ts, c, r) \in Nat
    BY <1>1, CounterIdPositive
<1> QED
    BY <1>4, <1>5

\* Every call returns an id with the timestamp it leaves in last_ms.
LEMMA CallReturnsLastMs ==
    ASSUME FieldsOK, Next
    PROVE  /\ FieldsOK' /\ MovesOn
           /\ last_ts' = last_ms'
<1>1. CASE gen_id
    <2>1. FieldsOK' /\ MovesOn
        BY <1>1, TimeMovesOn DEF gen_id
    <2>2. PICK rand_a \in 0 .. RandAMod - 1, rand_b \in 0 .. RandBMod - 1 :
              last_ts' = TimestampOf(uuid_v7_from_parts(last_ms', rand_a, rand_b))
        BY <1>1 DEF gen_id
    <2>3. last_ms' \in 0 .. TsMod - 1 /\ rand_b \in Nat
        BY <2>1, ThreadAssumption, LayoutAssumption DEF FieldsOK, RandBMod
    <2>4. last_ts' = last_ms'
        BY <2>2, <2>3, TimestampOfParts
    <2> QED BY <2>1, <2>4
<1>2. ASSUME NEW slots \in SubMsSlots, gen_id_with_sub_ms(slots)
      PROVE  FieldsOK' /\ MovesOn /\ last_ts' = last_ms'
    <2>1. FieldsOK' /\ MovesOn
        BY <1>2, TimeMovesOn DEF gen_id_with_sub_ms
    <2>2. PICK random \in 0 .. RandAMod - 1, rand_b \in 0 .. RandBMod - 1 :
              sub_ms_id' = uuid_v7_from_parts(
                  last_ms',
                  compose_rand_a(random, sub_ms_fraction(last_nanos_within_ms', slots), slots),
                  rand_b)
        BY <1>2 DEF gen_id_with_sub_ms
    <2>3. last_ms' \in 0 .. TsMod - 1 /\ rand_b \in Nat /\ last_nanos_within_ms' \in Nanos
        BY <2>1, ThreadAssumption, LayoutAssumption DEF FieldsOK, RandBMod
    <2>4. compose_rand_a(random, sub_ms_fraction(last_nanos_within_ms', slots), slots)
              \in 0 .. RandAMod - 1
        BY <2>3, FractionIsDigit, ComposedRandA
    <2>5. last_ts' = last_ms'
        BY <1>2, <2>2, <2>3, <2>4, TimestampOfParts DEF gen_id_with_sub_ms
    <2> QED BY <2>1, <2>5
<1>3. CASE gen_id_with_count
    <2>1. PICK ts \in 0 .. MaxMs, c \in 0 .. COUNTER_MAX, r \in 0 .. RandLowMod - 1 :
              /\ get_time_and_counter(ts, c)
              /\ count_id' = counter_id(ts, c, r)
        BY <1>3 DEF gen_id_with_count
    <2>2. FieldsOK' /\ MovesOn /\ ts = last_ms'
        BY <2>1, CountMovesUp
    <2>3. last_ts' = last_ms'
        BY <1>3, <2>1, <2>2, TimestampOfCounterId DEF gen_id_with_count
    <2> QED BY <2>2, <2>3
<1> QED
    BY <1>1, <1>2, <1>3 DEF Next

-----------------------------------------------------------------------------
(* Type correctness *)

\* One call keeps every range.
LEMMA TypeStep ==
    ASSUME TypeOK, [Next]_vars
    PROVE  TypeOK'
<1>1. CASE Next
    <2>1. FieldsOK' /\ last_ts' = last_ms'
        BY <1>1, CallReturnsLastMs DEF TypeOK, FieldsOK
    <2>2. count_id' \in Nat
        <3>1. CASE gen_id_with_count
            <4>1. PICK ts \in 0 .. MaxMs, c \in 0 .. COUNTER_MAX,
                       r \in 0 .. RandLowMod - 1 : count_id' = counter_id(ts, c, r)
                BY <3>1 DEF gen_id_with_count
            <4> QED BY <4>1, TimestampOfCounterId
        <3>2. CASE UNCHANGED count_id
            BY <3>2 DEF TypeOK
        <3> QED
            BY <1>1, <3>1, <3>2 DEF Next, gen_id, gen_id_with_sub_ms
    <2>3. sub_ms_id' \in Nat /\ sub_ms_slots' \in SubMsSlots \cup {0}
        <3>1. ASSUME NEW slots \in SubMsSlots, gen_id_with_sub_ms(slots)
              PROVE  sub_ms_id' \in Nat /\ sub_ms_slots' \in SubMsSlots
            <4>1. PICK random \in 0 .. RandAMod - 1, rand_b \in 0 .. RandBMod - 1 :
                      sub_ms_id' = uuid_v7_from_parts(
                          last_ms',
                          compose_rand_a(random,
                              sub_ms_fraction(last_nanos_within_ms', slots), slots),
                          rand_b)
                BY <3>1 DEF gen_id_with_sub_ms
            <4>2. last_ms' \in Nat /\ rand_b \in Nat /\ last_nanos_within_ms' \in Nanos
                BY <2>1, LayoutAssumption DEF FieldsOK, RandBMod
            <4>3. compose_rand_a(random, sub_ms_fraction(last_nanos_within_ms', slots), slots)
                      \in Nat
                BY <4>2, FractionIsDigit, ComposedRandA, LayoutAssumption
            <4>4. sub_ms_id' \in Nat
                BY <4>1, <4>2, <4>3, PartsPositive
            <4> QED BY <3>1, <4>4 DEF gen_id_with_sub_ms
        <3>2. CASE UNCHANGED <<sub_ms_id, sub_ms_slots>>
            BY <3>2 DEF TypeOK
        <3> QED
            BY <1>1, <3>1, <3>2 DEF Next, gen_id, gen_id_with_count
    <2> QED
        BY <2>1, <2>2, <2>3 DEF TypeOK, FieldsOK
<1>2. CASE UNCHANGED vars
    BY <1>2 DEF TypeOK, vars, time_vars, Nanos
<1> QED
    BY <1>1, <1>2

\* The fields keep their ranges whatever functions are called in turn; the
\* sampled nanosecond never passes the one given out last.
THEOREM TypeCorrect == Spec => []TypeOK
<1>1. Init => TypeOK
    BY ThreadAssumption, ArithAssumption DEF Init, TypeOK, Nanos
<1>2. TypeOK /\ [Next]_vars => TypeOK'
    BY TypeStep
<1> QED
    BY <1>1, <1>2, PTL DEF Spec

-----------------------------------------------------------------------------
(* Timestamps *)

\* The last id's timestamp is not past the cached millisecond.
TsInv == last_ts <= last_ms

\* No id of a thread has an earlier timestamp than the id before it.
THEOREM TimestampsTheorem == Spec => TimestampsNeverBackwards
<1>1. Init => TsInv
    BY DEF Init, TsInv
<1>2. TypeOK /\ TsInv /\ [Next]_vars => TsInv' /\ [last_ts' >= last_ts]_vars
    <2> SUFFICES ASSUME TypeOK, TsInv, [Next]_vars
                 PROVE  TsInv' /\ [last_ts' >= last_ts]_vars
        OBVIOUS
    <2>1. CASE Next
        <3>1. FieldsOK
            BY DEF TypeOK, FieldsOK
        <3>2. FieldsOK' /\ MovesOn /\ last_ts' = last_ms'
            BY <2>1, <3>1, CallReturnsLastMs
        <3>3. last_ms <= last_ms' /\ last_ms' \in Nat /\ last_ms \in Nat /\ last_ts \in Nat
            BY <3>1, <3>2 DEF FieldsOK, MovesOn, TypeOK
        <3> DEFINE m == last_ms'
        <3>4. last_ms <= m /\ m \in Nat /\ last_ms \in Nat /\ last_ts \in Nat
            BY <3>3
        <3> HIDE DEF m
        <3>5. last_ts <= m /\ m <= m
            BY <3>4 DEF TsInv
        <3> QED
            BY <3>2, <3>5 DEF TsInv, m
    <2>2. CASE UNCHANGED vars
        BY <2>2 DEF vars, TsInv, time_vars
    <2> QED
        BY <2>1, <2>2
<1> QED
    BY <1>1, <1>2, TypeCorrect, PTL DEF Spec, TimestampsNeverBackwards

-----------------------------------------------------------------------------
(* Counted ids *)

\* The last counted id was made at or below the pair (last_ms, counter): the
\* other calls may have moved the pair on since, but only up.
CountInv ==
    \/ count_id = 0
    \/ \E ts \in 0 .. MaxMs, c \in 0 .. COUNTER_MAX, r \in 0 .. RandLowMod - 1 :
           /\ count_id = counter_id(ts, c, r)
           /\ ts < last_ms \/ (ts = last_ms /\ c <= counter)

\* A call that moves on keeps the last counted id below the pair.
LEMMA CountInvKept ==
    ASSUME FieldsOK, FieldsOK', MovesOn, CountInv, UNCHANGED count_id
    PROVE  CountInv'
<1>1. CASE count_id = 0
    BY <1>1 DEF CountInv
<1>2. ASSUME NEW ts \in 0 .. MaxMs, NEW c \in 0 .. COUNTER_MAX,
             ts < last_ms \/ (ts = last_ms /\ c <= counter)
      PROVE  ts < last_ms' \/ (ts = last_ms' /\ c <= counter')
    BY <1>2, ThreadAssumption DEF FieldsOK, MovesOn
<1> QED
    BY <1>1, <1>2 DEF CountInv

\* gen_id_with_count returns a greater counted id than the last, and leaves it
\* as the pair's own.
LEMMA CountGrows ==
    ASSUME FieldsOK, CountInv, count_id \in Nat, gen_id_with_count
    PROVE  CountInv' /\ count_id' \in Nat /\ count_id' > count_id
<1>1. PICK ts \in 0 .. MaxMs, c \in 0 .. COUNTER_MAX, r \in 0 .. RandLowMod - 1 :
          /\ get_time_and_counter(ts, c)
          /\ count_id' = counter_id(ts, c, r)
    BY DEF gen_id_with_count
<1>2. /\ FieldsOK' /\ ts = last_ms' /\ c = counter'
      /\ last_ms < last_ms' \/ (last_ms = last_ms' /\ counter < counter')
    BY <1>1, CountMovesUp
<1>3. CountInv'
    BY <1>1, <1>2, ThreadAssumption DEF CountInv
<1>4. count_id' \in Nat \ {0}
    <2>1. ts \in Nat /\ c \in Nat /\ r \in Nat
        BY LayoutAssumption
    <2> QED BY <1>1, <2>1, CounterIdPositive
<1>5. ASSUME count_id = 0
      PROVE  count_id < count_id'
    BY <1>4, <1>5
<1>6. ASSUME NEW t \in 0 .. MaxMs, NEW d \in 0 .. COUNTER_MAX,
             NEW s \in 0 .. RandLowMod - 1,
             count_id = counter_id(t, d, s),
             t < last_ms \/ (t = last_ms /\ d <= counter)
      PROVE  count_id < count_id'
    <2>1. t < ts \/ (t = ts /\ d < c)
        BY <1>2, <1>6, ThreadAssumption DEF FieldsOK
    <2>2. /\ t \in 0 .. TsMod - 1 /\ ts \in 0 .. TsMod - 1
          /\ c \in 0 .. RandAMod * CtrLowMod - 1
          /\ d \in 0 .. RandAMod * CtrLowMod - 1
        <3>1. RandAMod * CtrLowMod \in Nat /\ TsMod \in Nat
            BY LayoutAssumption
        <3> QED BY <3>1, ThreadAssumption
    <2>3. counter_id(t, d, s) < counter_id(ts, c, r)
        BY <2>1, <2>2, CounterIdOrder
    <2> QED BY <1>1, <1>6, <2>3
<1> QED
    <2>1. count_id < count_id'
        BY <1>5, <1>6 DEF CountInv
    <2>2. count_id' \in Nat
        BY <1>4
    <2> QED BY <1>3, <2>1, <2>2

\* The counted ids of a thread implement the increasing source, whatever other
\* ids the thread makes in between and whatever its clock does.
THEOREM CountTheorem == Spec => CountStrictlyIncreasing
<1>1. Init => CountSource!Init /\ CountInv
    BY DEF Init, CountSource!Init, CountInv
<1>2. TypeOK /\ CountInv /\ [Next]_vars => CountInv' /\ [CountSource!Next]_count_id
    <2> SUFFICES ASSUME TypeOK, CountInv, [Next]_vars
                 PROVE  CountInv' /\ [CountSource!Next]_count_id
        OBVIOUS
    <2>0. FieldsOK /\ count_id \in Nat
        BY DEF TypeOK, FieldsOK
    <2>1. CASE gen_id_with_count
        BY <2>0, <2>1, CountGrows DEF CountSource!Next, CountSource!Issue
    <2>2. CASE gen_id \/ \E slots \in SubMsSlots : gen_id_with_sub_ms(slots)
        <3>1. FieldsOK' /\ MovesOn
            BY <2>0, <2>2, CallReturnsLastMs DEF Next
        <3>2. UNCHANGED count_id
            BY <2>2 DEF gen_id, gen_id_with_sub_ms
        <3> QED
            BY <2>0, <3>1, <3>2, CountInvKept
    <2>3. CASE UNCHANGED vars
        BY <2>3 DEF vars, time_vars, CountInv
    <2> QED
        BY <2>1, <2>2, <2>3 DEF Next
<1> QED
    BY <1>1, <1>2, TypeCorrect, PTL
    DEF Spec, CountStrictlyIncreasing, CountSource!Spec

-----------------------------------------------------------------------------
(* Ids with a fraction *)

\* Dividing a multiple and then undoing the multiple divides the number.
LEMMA DivNarrow ==
    ASSUME NEW x \in Nat, NEW n \in Nat \ {0}, NEW k \in Nat \ {0}
    PROVE  ((x * k) \div n) \div k = x \div n
<1>1. PICK q \in Nat, r \in Nat : q = x \div n /\ x = Pack(q, n, r) /\ r < n
    BY DivMod DEF Pack
<1>2. x * k \in Nat
    OBVIOUS
<1>3. PICK y \in Nat, z \in Nat :
          y = (x * k) \div n /\ x * k = Pack(y, n, z) /\ z < n
    BY <1>2, DivMod DEF Pack
<1>4. PICK u \in Nat, w \in Nat : u = y \div k /\ y = Pack(u, k, w) /\ w < k
    BY DivMod DEF Pack
<1>5. (x * k) \div (k * n) = u
    <2>1. w \in 0 .. k - 1 /\ z \in 0 .. n - 1
        BY <1>3, <1>4
    <2>2. Pack(Pack(u, k, w), n, z) = Pack(u, k * n, Pack(w, n, z))
        BY <2>1, PackTwice
    <2>3. Pack(w, n, z) \in 0 .. k * n - 1 /\ k * n \in Nat \ {0}
        BY <2>1, PackTwice
    <2>4. Pack(u, k * n, Pack(w, n, z)) \div (k * n) = u
        BY <2>3, DivUnique
    <2> QED BY <1>3, <1>4, <2>2, <2>4
<1>6. (x * k) \div (n * k) = q
    <2>1. r \in 0 .. n - 1 /\ 0 \in 0 .. k - 1
        BY <1>1
    <2>2. Pack(Pack(q, n, r), k, 0) = Pack(q, n * k, Pack(r, k, 0))
        BY <2>1, PackTwice
    <2>3. Pack(r, k, 0) \in 0 .. n * k - 1 /\ n * k \in Nat \ {0}
        BY <2>1, PackTwice
    <2>4. Pack(q, n * k, Pack(r, k, 0)) \div (n * k) = q
        BY <2>3, DivUnique
    <2>5. Pack(x, k, 0) = x * k
        BY <1>2 DEF Pack
    <2> QED BY <1>1, <2>2, <2>4, <2>5
<1>7. k * n = n * k
    OBVIOUS
<1> QED
    BY <1>1, <1>3, <1>4, <1>5, <1>6, <1>7

\* Cut at a width that divides its own, an id with a fraction is its timestamp
\* and the fraction the coarser width would have given it.
LEMMA PrefixOfSubMsId ==
    ASSUME NEW ts \in 0 .. MaxMs, NEW n \in Nanos,
           NEW slots \in SubMsSlots, NEW s \in SubMsSlots, s <= slots,
           NEW random \in 0 .. RandAMod - 1, NEW b \in Nat
    PROVE  SubMsPrefix(uuid_v7_from_parts(ts,
               compose_rand_a(random, sub_ms_fraction(n, slots), slots), b), s)
               = Pack(Pack(ts, 16, Version), s, sub_ms_fraction(n, s))
<1>1. /\ slots \in Nat \ {0} /\ s \in Nat \ {0} /\ NANOS_PER_MS \in Nat \ {0} /\ n \in Nat
      /\ ts \in 0 .. TsMod - 1
    BY SlotsAssumption, ArithAssumption, ThreadAssumption, LayoutAssumption DEF Nanos
<1>2. PICK k \in Nat \ {0} : slots = s * k
    <2>1. slots % s = 0
        BY SlotsAssumption
    <2>2. /\ slots \div s \in Nat
          /\ slots = (slots \div s) * s + (slots % s)
        BY <1>1, DivMod
    <2>3. PICK q \in Nat : q = slots \div s
        BY <2>2
    <2>4. slots = q * s
        <3>1. q * s \in Nat
            BY <1>1
        <3> QED BY <2>1, <2>2, <2>3, <3>1
    <2>5. q # 0
        BY <1>1, <2>4
    <2> QED BY <1>1, <2>4, <2>5
<1>3. PICK rest \in Nat \ {0} : rest = RandAMod \div slots /\ RandAMod = slots * rest
    BY SlotsDivide
<1>4. k * rest \in Nat \ {0} /\ RandAMod = s * (k * rest)
    BY <1>1, <1>2, <1>3
<1>5. RandAMod \div s = k * rest
    <2>1. RandAMod = Pack(k * rest, s, 0)
        BY <1>1, <1>4 DEF Pack
    <2>2. 0 \in 0 .. s - 1
        BY <1>1
    <2> QED BY <1>1, <1>4, <2>1, <2>2, DivUnique
<1>6. PICK f \in 0 .. slots - 1 : f = sub_ms_fraction(n, slots)
    BY FractionIsDigit
<1>7. PICK g \in Nat, h \in Nat :
          g = f \div k /\ f = Pack(g, k, h) /\ h < k
    <2>1. f \in Nat
        BY <1>1
    <2>2. /\ f \div k \in Nat /\ f % k \in 0 .. k - 1
          /\ f = (f \div k) * k + (f % k)
        BY <2>1, DivMod
    <2>3. f % k \in Nat /\ f % k < k
        BY <2>2
    <2>4. f = Pack(f \div k, k, f % k)
        BY <2>2 DEF Pack
    <2> QED BY <2>2, <2>3, <2>4
<1>8. g = sub_ms_fraction(n, s) /\ g \in 0 .. s - 1
    <2>1. f = (n * slots) \div NANOS_PER_MS
        BY <1>6, FractionIsDigit
    <2>2. n * slots = (n * s) * k /\ n * s \in Nat
        BY <1>1, <1>2
    <2>3. (((n * s) * k) \div NANOS_PER_MS) \div k = (n * s) \div NANOS_PER_MS
        BY <1>1, <2>2, DivNarrow
    <2>4. sub_ms_fraction(n, s) = (n * s) \div NANOS_PER_MS
          /\ sub_ms_fraction(n, s) \in 0 .. s - 1
        BY FractionIsDigit
    <2> QED BY <1>7, <2>1, <2>2, <2>3, <2>4
<1>9. PICK r \in 0 .. rest - 1 :
          compose_rand_a(random, sub_ms_fraction(n, slots), slots) = Pack(f, rest, r)
    BY <1>3, <1>6, ComposedRandA
<1>10. h \in 0 .. k - 1
    BY <1>7
<1>11. Pack(f, rest, r) = Pack(g, k * rest, Pack(h, rest, r))
    <2>1. Pack(Pack(g, k, h), rest, r) = Pack(g, k * rest, Pack(h, rest, r))
        BY <1>10, PackTwice
    <2> QED BY <1>7, <2>1
<1>12. Pack(h, rest, r) \in 0 .. k * rest - 1
    BY <1>10, PackTwice
<1>13. PICK m \in Nat \ {0}, d \in Nat :
           m = k * rest /\ d = Pack(h, rest, r) /\ d \in 0 .. m - 1
    BY <1>4, <1>12
<1>14. uuid_v7_from_parts(ts, Pack(g, m, d), b) \div (m * 4 * RandBMod)
           = Pack(Pack(ts, 16, Version), s, g)
    <2>1. d \in 0 .. m - 1 /\ RandAMod = s * m
        BY <1>4, <1>13
    <2> QED BY <1>1, <1>8, <2>1, PrefixOfParts
<1> QED
    BY <1>5, <1>8, <1>9, <1>11, <1>13, <1>14 DEF SubMsPrefix

\* A later timestamp, or the same one and no fewer nanoseconds, sorts no lower.
LEMMA PrefixOrder ==
    ASSUME NEW t1 \in 0 .. MaxMs, NEW t2 \in 0 .. MaxMs,
           NEW n1 \in Nanos, NEW n2 \in Nanos,
           t1 < t2 \/ (t1 = t2 /\ n1 <= n2),
           NEW s \in SubMsSlots
    PROVE  /\ Pack(Pack(t1, 16, Version), s, sub_ms_fraction(n1, s))
                  <= Pack(Pack(t2, 16, Version), s, sub_ms_fraction(n2, s))
           /\ Pack(Pack(t1, 16, Version), s, sub_ms_fraction(n1, s)) \in Nat
           /\ Pack(Pack(t2, 16, Version), s, sub_ms_fraction(n2, s)) \in Nat
<1>1. /\ t1 \in Nat /\ t2 \in Nat /\ n1 \in Nat /\ n2 \in Nat
      /\ s \in Nat \ {0} /\ NANOS_PER_MS \in Nat \ {0}
    BY SlotsAssumption, ArithAssumption, ThreadAssumption DEF Nanos
<1>2. PICK f1 \in 0 .. s - 1, f2 \in 0 .. s - 1 :
          f1 = sub_ms_fraction(n1, s) /\ f2 = sub_ms_fraction(n2, s)
    BY FractionIsDigit
<1>3. PICK v1 \in Nat, v2 \in Nat :
          v1 = Pack(t1, 16, Version) /\ v2 = Pack(t2, 16, Version)
    BY <1>1, PackNat DEF Version
<1>4. f1 \in Nat /\ f2 \in Nat
    BY <1>1
<1>5. Pack(v1, s, f1) \in Nat /\ Pack(v2, s, f2) \in Nat
    BY <1>1, <1>4, PackNat
<1>6. ASSUME t1 < t2 PROVE Pack(v1, s, f1) < Pack(v2, s, f2)
    <2>1. v1 < v2
        BY <1>1, <1>3, <1>6 DEF Pack, Version
    <2> QED BY <1>1, <1>4, <2>1, PackHigh
<1>7. ASSUME t1 = t2, n1 <= n2 PROVE Pack(v1, s, f1) <= Pack(v2, s, f2)
    <2>1. n1 * s <= n2 * s /\ n1 * s \in Nat /\ n2 * s \in Nat
        <3>1. CASE n1 = n2
            BY <1>1, <3>1
        <3>2. CASE n1 < n2
            <4>1. Pack(n1, s, 0) < Pack(n2, s, 0)
                BY <1>1, <3>2, PackHigh
            <4> QED BY <1>1, <4>1 DEF Pack
        <3> QED BY <1>1, <1>7, <3>1, <3>2
    <2>2. (n1 * s) \div NANOS_PER_MS <= (n2 * s) \div NANOS_PER_MS
        BY <1>1, <2>1, DivMonotone
    <2>3. f1 <= f2
        BY <1>2, <2>2, FractionIsDigit
    <2>4. v1 * s \in Nat /\ v1 = v2
        BY <1>1, <1>3, <1>7
    <2> QED BY <1>4, <2>3, <2>4 DEF Pack
<1> QED
    BY <1>2, <1>3, <1>5, <1>6, <1>7

\* The last id with a fraction was made at or before the thread's time.
SubMsInv ==
    \/ sub_ms_id = 0
    \/ /\ sub_ms_slots \in SubMsSlots
       /\ \E ts \in 0 .. MaxMs, n \in Nanos,
             random \in 0 .. RandAMod - 1, b \in Nat :
              /\ sub_ms_id = uuid_v7_from_parts(ts,
                     compose_rand_a(random, sub_ms_fraction(n, sub_ms_slots), sub_ms_slots), b)
              /\ ts < last_ms \/ (ts = last_ms /\ n <= last_nanos_within_ms)

\* A call that moves on keeps the last id with a fraction behind.
LEMMA SubMsInvKept ==
    ASSUME FieldsOK, FieldsOK', MovesOn, SubMsInv,
           UNCHANGED <<sub_ms_id, sub_ms_slots>>
    PROVE  SubMsInv'
<1>1. CASE sub_ms_id = 0
    BY <1>1 DEF SubMsInv
<1>2. ASSUME NEW ts \in 0 .. MaxMs, NEW n \in Nanos,
             ts < last_ms \/ (ts = last_ms /\ n <= last_nanos_within_ms)
      PROVE  ts < last_ms' \/ (ts = last_ms' /\ n <= last_nanos_within_ms')
    BY <1>2, ThreadAssumption, ArithAssumption DEF FieldsOK, MovesOn, Nanos
<1> QED
    BY <1>1, <1>2 DEF SubMsInv

\* A new id with a fraction sorts no lower than the last, cut at the coarser
\* of the two widths.
LEMMA SubMsStep ==
    ASSUME FieldsOK, SubMsInv, NEW slots \in SubMsSlots, gen_id_with_sub_ms(slots)
    PROVE  /\ SubMsInv'
           /\ sub_ms_id # 0 =>
                  LET s == Least(sub_ms_slots, sub_ms_slots')
                  IN  SubMsPrefix(sub_ms_id', s) >= SubMsPrefix(sub_ms_id, s)
<1>1. FieldsOK' /\ MovesOn
    BY TimeMovesOn DEF gen_id_with_sub_ms
<1>2. PICK t2 \in 0 .. MaxMs, n2 \in Nanos :
          t2 = last_ms' /\ n2 = last_nanos_within_ms'
    BY <1>1 DEF FieldsOK
<1>3. PICK random2 \in 0 .. RandAMod - 1, b2 \in Nat :
          sub_ms_id' = uuid_v7_from_parts(t2,
              compose_rand_a(random2, sub_ms_fraction(n2, slots), slots), b2)
    <2>1. RandBMod \in Nat
        BY LayoutAssumption DEF RandBMod
    <2> QED BY <1>2, <2>1 DEF gen_id_with_sub_ms
<1>4. sub_ms_slots' = slots
    BY DEF gen_id_with_sub_ms
<1>5. SubMsInv'
    <2>1. t2 = last_ms' /\ n2 <= last_nanos_within_ms'
        <3>1. n2 <= n2
            BY ArithAssumption DEF Nanos
        <3> QED BY <1>2, <3>1
    <2> QED BY <1>3, <1>4, <2>1 DEF SubMsInv
<1>6. ASSUME sub_ms_slots \in SubMsSlots,
             NEW t1 \in 0 .. MaxMs, NEW n1 \in Nanos,
             NEW random1 \in 0 .. RandAMod - 1, NEW b1 \in Nat,
             sub_ms_id = uuid_v7_from_parts(t1,
                 compose_rand_a(random1, sub_ms_fraction(n1, sub_ms_slots), sub_ms_slots), b1),
             t1 < last_ms \/ (t1 = last_ms /\ n1 <= last_nanos_within_ms)
      PROVE  SubMsPrefix(sub_ms_id', Least(sub_ms_slots, slots))
                 >= SubMsPrefix(sub_ms_id, Least(sub_ms_slots, slots))
    <2>1. PICK s \in SubMsSlots :
              s = Least(sub_ms_slots, slots) /\ s <= sub_ms_slots /\ s <= slots
        <3>1. sub_ms_slots \in Nat /\ slots \in Nat
            BY <1>6, SlotsAssumption
        <3> QED BY <1>6, <3>1 DEF Least
    <2>2. t1 < t2 \/ (t1 = t2 /\ n1 <= n2)
        <3>1. t1 < last_ms' \/ (t1 = last_ms' /\ n1 <= last_nanos_within_ms')
            BY <1>1, <1>6, ThreadAssumption, ArithAssumption DEF FieldsOK, MovesOn, Nanos
        <3> QED BY <1>2, <3>1
    <2>3. SubMsPrefix(sub_ms_id, s) = Pack(Pack(t1, 16, Version), s, sub_ms_fraction(n1, s))
        BY <1>6, <2>1, PrefixOfSubMsId
    <2>4. SubMsPrefix(sub_ms_id', s) = Pack(Pack(t2, 16, Version), s, sub_ms_fraction(n2, s))
        BY <1>3, <2>1, PrefixOfSubMsId
    <2>5. Pack(Pack(t2, 16, Version), s, sub_ms_fraction(n2, s))
              >= Pack(Pack(t1, 16, Version), s, sub_ms_fraction(n1, s))
        BY <2>2, PrefixOrder
    <2> QED BY <2>1, <2>3, <2>4, <2>5
<1> QED
    BY <1>4, <1>5, <1>6 DEF SubMsInv

\* Ids with a fraction never sort backwards on a thread: however the clock,
\* its refreshes, the estimates in between and the other calls interleave.
THEOREM SubMsTheorem == Spec => SubMsNeverBackwards
<1> DEFINE A == sub_ms_id # 0 =>
                    LET s == Least(sub_ms_slots, sub_ms_slots')
                    IN  SubMsPrefix(sub_ms_id', s) >= SubMsPrefix(sub_ms_id, s)
<1>1. Init => SubMsInv
    BY DEF Init, SubMsInv
<1>2. TypeOK /\ SubMsInv /\ [Next]_vars => SubMsInv' /\ [A]_vars
    <2> SUFFICES ASSUME TypeOK, SubMsInv, [Next]_vars
                 PROVE  SubMsInv' /\ [A]_vars
        OBVIOUS
    <2>0. FieldsOK
        BY DEF TypeOK, FieldsOK
    <2>1. ASSUME NEW slots \in SubMsSlots, gen_id_with_sub_ms(slots)
          PROVE  SubMsInv' /\ A
        BY <2>0, <2>1, SubMsStep
    <2>2. CASE gen_id \/ gen_id_with_count
        <3>1. FieldsOK' /\ MovesOn
            BY <2>0, <2>2, CallReturnsLastMs DEF Next
        <3>2. UNCHANGED <<sub_ms_id, sub_ms_slots>>
            BY <2>2 DEF gen_id, gen_id_with_count
        <3>3. SubMsInv'
            BY <2>0, <3>1, <3>2, SubMsInvKept
        <3>4. ASSUME sub_ms_id # 0
              PROVE  SubMsPrefix(sub_ms_id, sub_ms_slots)
                         >= SubMsPrefix(sub_ms_id, sub_ms_slots)
            <4>1. PICK t \in 0 .. MaxMs, n \in Nanos,
                       random \in 0 .. RandAMod - 1, b \in Nat :
                      sub_ms_id = uuid_v7_from_parts(t, compose_rand_a(random,
                          sub_ms_fraction(n, sub_ms_slots), sub_ms_slots), b)
                BY <3>4 DEF SubMsInv
            <4>2. sub_ms_slots \in SubMsSlots /\ sub_ms_slots <= sub_ms_slots
                BY <3>4, SlotsAssumption DEF SubMsInv
            <4>3. n <= n
                BY ArithAssumption DEF Nanos
            <4>4. SubMsPrefix(sub_ms_id, sub_ms_slots) \in Nat
                BY <4>1, <4>2, <4>3, PrefixOfSubMsId, PrefixOrder
            <4> QED BY <4>4
        <3>5. Least(sub_ms_slots, sub_ms_slots) = sub_ms_slots
            BY DEF Least
        <3> QED
            BY <3>2, <3>3, <3>4, <3>5
    <2>3. CASE UNCHANGED vars
        BY <2>3 DEF vars, time_vars, SubMsInv
    <2> QED
        BY <2>1, <2>2, <2>3 DEF Next
<1> QED
    BY <1>1, <1>2, TypeCorrect, PTL DEF Spec, SubMsNeverBackwards
=============================================================================
