--------------------- MODULE SequentialGeneratorProofs ---------------------
(***************************************************************************)
(* Theorems about SequentialGenerator for every field width, counter size  *)
(* and seed mask the assumptions allow.                                    *)
(***************************************************************************)
EXTENDS SequentialGenerator, UuidLayoutProofs

-----------------------------------------------------------------------------
(* Type correctness *)

\* One call keeps the ranges of the generator's own fields.
LEMMA FieldsStep ==
    ASSUME TypeOK, next_id
    PROVE  last_ms' \in 0 .. MaxMs /\ counter' \in 0 .. COUNTER_MAX
<1> USE CounterAssumption DEF TypeOK
<1>1. ASSUME NEW ms \in 0 .. MaxMs, Advance(ms)
      PROVE  last_ms' \in 0 .. MaxMs /\ counter' \in 0 .. COUNTER_MAX
    BY <1>1 DEF Advance, seed_counter
<1>2. CASE RollOver
    BY <1>2 DEF RollOver, seed_counter
<1>3. CASE Increment
    BY <1>3 DEF Increment, counter_exhausted
<1> QED
    BY <1>1, <1>2, <1>3 DEF next_id, UseReading, UseCachedMs

\* One call keeps every range.
LEMMA TypeStep ==
    ASSUME TypeOK, [Next]_vars
    PROVE  TypeOK'
<1> USE CounterAssumption DEF TypeOK
<1>1. CASE next_id
    <2>1. last_ms' \in 0 .. MaxMs /\ counter' \in 0 .. COUNTER_MAX
        BY <1>1, FieldsStep
    <2>2. last_id' \in Nat
        <3>1. PICK r \in 0 .. RandLowMod - 1 :
                  last_id' = counter_id(last_ms', counter', r)
            BY <1>1 DEF next_id, UseReading, UseCachedMs, ReturnId
        <3>2. last_ms' \in Nat /\ counter' \in Nat /\ r \in Nat
            BY <2>1, LayoutAssumption
        <3> QED BY <3>1, <3>2, CounterIdPositive
    <2>3. clock_max' \in 0 .. MaxMs
        BY <1>1 DEF next_id, UseReading, UseCachedMs, Later
    <2>4. since' \in Nat
        BY <1>1 DEF next_id, UseReading, UseCachedMs, Advance, RollOver, Increment
    <2> QED BY <2>1, <2>2, <2>3, <2>4
<1>2. CASE UNCHANGED vars
    BY <1>2 DEF vars
<1> QED
    BY <1>1, <1>2 DEF Next

\* The fields keep their ranges: no call makes a timestamp wider than 48 bits
\* (the debug_assert of next_id) or a counter wider than 18, the two overflows
\* that would break the order silently.
THEOREM TypeCorrect == Spec => []TypeOK
<1>1. Init => TypeOK
    BY CounterAssumption DEF Init, TypeOK
<1>2. TypeOK /\ [Next]_vars => TypeOK'
    BY TypeStep
<1> QED
    BY <1>1, <1>2, PTL DEF Spec

-----------------------------------------------------------------------------
(* Order *)

\* A call moves the pair (last_ms, counter) up, even when the counter is
\* reseeded: it is reseeded only under a later millisecond.
LEMMA PairGrows ==
    ASSUME TypeOK, next_id
    PROVE  last_ms < last_ms' \/ (last_ms = last_ms' /\ counter < counter')
<1> USE CounterAssumption DEF TypeOK
<1>1. ASSUME NEW ms \in 0 .. MaxMs, Advance(ms)
      PROVE  last_ms < last_ms'
    BY <1>1 DEF Advance
<1>2. CASE RollOver
    BY <1>2 DEF RollOver
<1>3. CASE Increment
    BY <1>3 DEF Increment
<1> QED
    BY <1>1, <1>2, <1>3 DEF next_id, UseReading, UseCachedMs

\* The id returned last was made from the fields as they stand.
IdInv ==
    \/ last_id = 0
    \/ \E r \in 0 .. RandLowMod - 1 : last_id = counter_id(last_ms, counter, r)

\* Every call returns an id greater than the one before it.
LEMMA IdGrows ==
    ASSUME TypeOK, IdInv, next_id
    PROVE  last_id' \in Nat /\ last_id' > last_id
<1>1. PICK s \in 0 .. RandLowMod - 1 : last_id' = counter_id(last_ms', counter', s)
    BY DEF next_id, UseReading, UseCachedMs, ReturnId
<1>2. last_ms' \in 0 .. MaxMs /\ counter' \in 0 .. COUNTER_MAX
    BY FieldsStep
<1>3. last_id' \in Nat /\ last_id' > 0
    <2>1. last_ms' \in Nat /\ counter' \in Nat /\ s \in Nat
        BY <1>2, LayoutAssumption
    <2> QED BY <1>1, <2>1, CounterIdPositive
<1>4. CASE last_id = 0
    BY <1>3, <1>4
<1>5. ASSUME NEW r \in 0 .. RandLowMod - 1,
             last_id = counter_id(last_ms, counter, r)
      PROVE  last_id < last_id'
    <2>1. /\ last_ms \in 0 .. TsMod - 1 /\ last_ms' \in 0 .. TsMod - 1
          /\ counter \in 0 .. RandAMod * CtrLowMod - 1
          /\ counter' \in 0 .. RandAMod * CtrLowMod - 1
        <3>1. RandAMod * CtrLowMod \in Nat /\ TsMod \in Nat
            BY LayoutAssumption
        <3> QED BY <1>2, <3>1, CounterAssumption DEF TypeOK
    <2>2. last_ms < last_ms' \/ (last_ms = last_ms' /\ counter < counter')
        BY PairGrows
    <2>3. counter_id(last_ms, counter, r) < counter_id(last_ms', counter', s)
        BY <2>1, <2>2, CounterIdOrder
    <2> QED BY <1>1, <1>5, <2>3
<1> QED
    BY <1>3, <1>4, <1>5 DEF IdInv, TypeOK

\* The generator implements the increasing source: whatever the clock does and
\* however often the counter rolls over, next_id never repeats or goes back.
THEOREM ImplementsIncreasingSource == Spec => StrictlyIncreasing
<1>1. Init => Source!Init /\ IdInv
    BY DEF Init, Source!Init, IdInv
<1>2. TypeOK /\ IdInv /\ [Next]_vars => IdInv'
    BY DEF IdInv, Next, next_id, UseReading, UseCachedMs, ReturnId, vars
<1>3. TypeOK /\ IdInv /\ [Next]_vars => [Source!Next]_last_id
    <2> SUFFICES ASSUME TypeOK, IdInv, [Next]_vars
                 PROVE  [Source!Next]_last_id
        OBVIOUS
    <2>1. CASE next_id
        BY <2>1, IdGrows DEF Source!Next, Source!Issue
    <2>2. CASE UNCHANGED vars
        BY <2>2 DEF vars
    <2> QED
        BY <2>1, <2>2 DEF Next
<1> QED
    BY <1>1, <1>2, <1>3, TypeCorrect, PTL
    DEF Spec, StrictlyIncreasing, Source!Spec

-----------------------------------------------------------------------------
(* Drift *)

\* DriftBounded does not say how far the current millisecond's counter has
\* come, so it does not survive a rollover.  The seed is at most
\* COUNTER_SEED_MASK: a counter above it has cost that many ids.
DriftInv ==
    /\ DriftBounded
    /\ (last_ms - clock_max) * Budget + counter + 1 <= since + COUNTER_SEED_MASK

\* Fewer milliseconds cost no more budgets; one more costs one budget more.
LEMMA BudgetsMonotone ==
    ASSUME NEW d \in Nat, NEW e \in Nat, d <= e, NEW b \in Nat
    PROVE  /\ d * b \in Nat /\ e * b \in Nat /\ d * b <= e * b
           /\ (d + 1) * b = d * b + b
<1>1. PICK j \in Nat : e = d + j
    <2>1. e - d \in Nat /\ e = d + (e - d)
        OBVIOUS
    <2> QED BY <2>1
<1>2. e * b = d * b + j * b /\ j * b \in Nat
    BY <1>1
<1> QED
    BY <1>2

\* A call keeps the accounting of ids against borrowed milliseconds.
LEMMA DriftStep ==
    ASSUME TypeOK, DriftInv, next_id
    PROVE  DriftInv'
<1>0. PICK d \in Nat, b \in Nat, M \in Nat, S \in Nat :
          /\ last_ms = clock_max + d /\ b = Budget
          /\ M = COUNTER_MAX /\ S = COUNTER_SEED_MASK /\ b = M - S + 1
    BY CounterAssumption DEF TypeOK, DriftInv, DriftBounded, Budget
<1>1. /\ last_ms \in Nat /\ clock_max \in Nat /\ counter \in Nat /\ since \in Nat
      /\ last_ms - clock_max = d
    BY <1>0 DEF TypeOK
<1>2. d * b <= since /\ d * b + counter + 1 <= since + S
    BY <1>0, <1>1 DEF DriftInv, DriftBounded
<1>3. SUFFICES ASSUME Budget' = b
               PROVE  /\ clock_max' <= last_ms'
                      /\ (last_ms' - clock_max') * b <= since'
                      /\ (last_ms' - clock_max') * b + counter' + 1 <= since' + S
    BY <1>0 DEF DriftInv, DriftBounded, Budget
<1>4. ASSUME NEW ms \in 0 .. MaxMs, Advance(ms), clock_max' = Later(clock_max, ms)
      PROVE  /\ clock_max' <= last_ms'
             /\ (last_ms' - clock_max') * b <= since'
             /\ (last_ms' - clock_max') * b + counter' + 1 <= since' + S
    <2> DEFINE l1 == last_ms'
               k1 == clock_max'
               c1 == counter'
               n1 == since'
    <2>1. l1 \in Nat /\ k1 = l1 /\ c1 \in 0 .. S /\ n1 = 1
        BY <1>0, <1>1, <1>4, CounterAssumption DEF Advance, Later, seed_counter
    <2>2. SUFFICES /\ k1 <= l1
                   /\ (l1 - k1) * b <= n1
                   /\ (l1 - k1) * b + c1 + 1 <= n1 + S
        OBVIOUS
    <2> HIDE DEF l1, k1, c1, n1
    <2>3. l1 - k1 = 0
        BY <2>1
    <2> QED
        BY <2>1, <2>3
<1> DEFINE KeepMs == clock_max' \in Nat /\ clock_max <= clock_max' /\ clock_max' <= last_ms
<1>5. \/ \E ms \in 0 .. MaxMs : Advance(ms) /\ clock_max' = Later(clock_max, ms)
      \/ KeepMs /\ (Increment \/ RollOver)
    BY <1>0, <1>1, CounterAssumption DEF next_id, UseReading, UseCachedMs, Later
<1>6. CASE KeepMs /\ Increment
    <2>1. /\ last_ms' = last_ms /\ counter' = counter + 1 /\ since' = since + 1
        BY <1>6 DEF Increment
    <2>2. PICK e \in Nat : e = last_ms' - clock_max' /\ e <= d
        <3> DEFINE k1 == clock_max'
        <3>1. k1 \in Nat /\ clock_max <= k1 /\ k1 <= last_ms
            BY <1>6
        <3> HIDE DEF k1
        <3>2. last_ms - k1 \in Nat /\ last_ms - k1 <= d
            BY <1>0, <1>1, <3>1
        <3> QED BY <2>1, <3>2 DEF k1
    <2>3. e * b <= d * b /\ e * b \in Nat /\ d * b \in Nat
        BY <2>2, BudgetsMonotone
    <2>4. clock_max' <= last_ms'
        BY <1>6, <2>1
    <2> QED
        BY <1>1, <1>2, <2>1, <2>2, <2>3, <2>4
<1>7. CASE KeepMs /\ RollOver
    <2>1. /\ last_ms' = last_ms + 1 /\ counter' \in 0 .. S
          /\ since' = since + 1 /\ counter >= M
        BY <1>0, <1>7 DEF RollOver, seed_counter, counter_exhausted
    <2>2. PICK e \in Nat : e = last_ms' - clock_max' /\ e <= d + 1
        <3> DEFINE k1 == clock_max'
        <3>1. k1 \in Nat /\ clock_max <= k1 /\ k1 <= last_ms
            BY <1>7
        <3> HIDE DEF k1
        <3>2. (last_ms + 1) - k1 \in Nat /\ (last_ms + 1) - k1 <= d + 1
            BY <1>0, <1>1, <3>1
        <3> QED BY <2>1, <3>2 DEF k1
    <2>3. e * b <= (d + 1) * b /\ e * b \in Nat
        BY <2>2, BudgetsMonotone
    <2>4. (d + 1) * b = d * b + b /\ d * b \in Nat
        BY BudgetsMonotone
    <2>5. clock_max' <= last_ms'
        BY <1>1, <1>7, <2>1
    <2> QED
        BY <1>0, <1>1, <1>2, <2>1, <2>2, <2>3, <2>4, <2>5
<1> QED
    BY <1>4, <1>5, <1>6, <1>7

\* The timestamp runs ahead of the clock by one millisecond for every
\* COUNTER_MAX - COUNTER_SEED_MASK + 1 ids (258,049) and no more, and is never
\* behind a clock reading.
THEOREM DriftTheorem == Spec => []DriftBounded
<1>1. Init => DriftInv
    <2> SUFFICES ASSUME Init PROVE DriftInv
        OBVIOUS
    <2>1. Budget \in Int
        BY CounterAssumption DEF Budget
    <2> QED
        BY <2>1, CounterAssumption DEF Init, DriftInv, DriftBounded
<1>2. TypeOK /\ DriftInv /\ [Next]_vars => DriftInv'
    <2> SUFFICES ASSUME TypeOK, DriftInv, [Next]_vars
                 PROVE  DriftInv'
        OBVIOUS
    <2>1. CASE next_id
        BY <2>1, DriftStep
    <2>2. CASE UNCHANGED vars
        BY <2>2 DEF vars, DriftInv, DriftBounded, Budget
    <2> QED
        BY <2>1, <2>2 DEF Next
<1>3. DriftInv => DriftBounded
    BY DEF DriftInv
<1> QED
    BY <1>1, <1>2, <1>3, TypeCorrect, PTL DEF Spec
=============================================================================
