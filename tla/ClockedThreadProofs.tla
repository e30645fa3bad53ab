------------------------ MODULE ClockedThreadProofs ------------------------
(***************************************************************************)
(* Theorems about ClockedThread for every field width, counter width,      *)
(* rate, step of time and preemption: the clock is one ThreadState allows  *)
(* for, so that what ThreadStateProofs shows of a thread holds on its real *)
(* clock; a measured rate is never above the counter's own; timestamps     *)
(* keep to the wall clock on either side; and so do the windows of the     *)
(* fractions that are estimated between two refreshes.                     *)
(***************************************************************************)
EXTENDS ClockedThread, UuidLayoutProofs

TP == INSTANCE ThreadStateProofs WITH
          count_id <- 0, sub_ms_id <- 0, sub_ms_slots <- 0, last_ts <- 0

\* What ClockedSequentialProofs shows of the clock alone, for a counter that
\* never falls back.  The generator there is not this thread: its constants are
\* any that it may have.
CP == INSTANCE ClockedSequentialProofs WITH
          COUNTER_MAX <- 2, COUNTER_SEED_MASK <- 1, RandAMod <- 3, CtrLowMod <- 1,
          Rates <- {}, IdsPerMs <- 0, CounterJump <- 0,
          last_id <- 0, clock_max <- 0, since <- 0, pause <- 0, jumped <- FALSE

-----------------------------------------------------------------------------
(* Arithmetic modulo the counter's range *)

\* What is counted modulo the range is at most what passed.
LEMMA CountedAtMost ==
    ASSUME NEW m \in Nat \ {0}, NEW t \in Int, NEW s \in Int, NEW e \in Nat
    PROVE  /\ (t - s) % m \in 0 .. m - 1
           /\ (((t + e) % m) - s) % m \in 0 .. m - 1
           /\ (((t + e) % m) - s) % m <= ((t - s) % m) + e
<1>1. PICK q \in Int, r \in 0 .. m - 1 : r = (t + e) % m /\ t + e = q * m + r
    <2>1. t + e \in Int
        OBVIOUS
    <2> QED BY <2>1, SplitInt
<1>2. PICK p \in Int, d \in 0 .. m - 1 : d = (t - s) % m /\ t - s = p * m + d
    <2>1. t - s \in Int
        OBVIOUS
    <2> QED BY <2>1, SplitInt
<1>3. PICK k \in Int : k = p - q
    OBVIOUS
<1>4. r - s = (d + e) + k * m
    <2>1. PICK x \in Int, y \in Int :
              x = p * m /\ y = q * m /\ k * m = x - y
        BY <1>3
    <2>2. t + e = y + r /\ t - s = x + d /\ r \in Int /\ d \in Int
        BY <1>1, <1>2, <2>1
    <2> QED BY <2>1, <2>2
<1>5. (r - s) % m = (d + e) % m
    <2>1. r - s \in Int /\ d + e \in Int
        OBVIOUS
    <2> QED BY <1>4, <2>1, ModPlusMultiple
<1>6. d + e \in Nat
    OBVIOUS
<1>7. (d + e) % m <= d + e
    <2>1. PICK i \in Nat, x \in 0 .. m - 1 : x = (d + e) % m /\ d + e = i * m + x
        BY <1>6, DivMod
    <2>2. i * m \in Nat
        OBVIOUS
    <2> QED BY <2>1, <2>2
<1>8. (r - s) % m \in 0 .. m - 1
    OBVIOUS
<1> QED
    BY <1>1, <1>2, <1>5, <1>7, <1>8

-----------------------------------------------------------------------------
(* The arithmetic of the clock *)

\* u64 arithmetic stays in u64.
LEMMA WrapRange ==
    ASSUME NEW a \in Int, NEW b \in Int
    PROVE  wrapping_add(a, b) \in 0 .. U64 - 1 /\ wrapping_sub(a, b) \in 0 .. U64 - 1
<1>1. U64 \in Nat \ {0} /\ a + b \in Int /\ a - b \in Int
    BY ArithAssumption
<1> QED
    BY <1>1, SplitInt DEF wrapping_add, wrapping_sub

\* Saturating arithmetic stays a number, and a product below the true one.
LEMMA SaturatedNat ==
    ASSUME NEW a \in Nat, NEW b \in Nat
    PROVE  /\ saturating_mul(a, b) \in Nat /\ saturating_mul(a, b) <= a * b
           /\ saturating_add(a, b) \in Nat
<1>1. a * b \in Nat /\ a + b \in Nat /\ U64 - 1 \in Nat
    BY ArithAssumption
<1> QED
    BY <1>1 DEF saturating_mul, saturating_add, Least

\* A deadline is a number of ticks from now.
LEMMA RefreshTicks ==
    ASSUME NEW rate \in Nat, NEW nanos \in Nat
    PROVE  ticks_until_next_refresh(rate, nanos) \in Nat
<1>1. NANOS_PER_MS \in Nat \ {0} /\ MAX_REFRESH_INTERVAL_NANOS \in Nat
    <2>1. NANOS_PER_MS \in Nat \ {0}
        BY ArithAssumption
    <2> QED BY <2>1, DivMod DEF MAX_REFRESH_INTERVAL_NANOS
<1>2. nanos_until_next_ms(nanos) \in Nat
    BY <1>1, ModIsDigit DEF nanos_until_next_ms
<1>3. nanos_until_next_refresh(nanos) \in Nat
    BY <1>1, <1>2 DEF nanos_until_next_refresh, Least
<1>4. PICK x \in Nat :
          x = saturating_add(saturating_mul(rate, nanos_until_next_refresh(nanos)),
                             NANOS_PER_MS - 1)
    <2>1. PICK y \in Nat : y = saturating_mul(rate, nanos_until_next_refresh(nanos))
        BY <1>3, SaturatedNat
    <2>2. NANOS_PER_MS - 1 \in Nat
        BY <1>1
    <2> QED BY <2>1, <2>2, SaturatedNat
<1>5. x \div NANOS_PER_MS \in Nat
    BY <1>1, DivMod
<1> QED
    BY <1>4, <1>5 DEF ticks_until_next_refresh, Most

\* An estimate is never before the sample nor past the millisecond's end.
LEMMA EstimateRange ==
    ASSUME NEW rate \in Nat, NEW nanos \in 0 .. NANOS_PER_MS - 1, NEW elapsed \in Nat
    PROVE  estimate_nanos_within_ms_from_ticks(rate, nanos, elapsed)
               \in nanos .. NANOS_PER_MS - 1
<1>1. NANOS_PER_MS \in Nat /\ U64 \in Nat /\ U64 >= 2 * NANOS_PER_MS /\ nanos \in Nat
    BY ArithAssumption
<1>2. PICK x \in Nat : x = saturating_mul(elapsed, NANOS_PER_MS)
    BY <1>1, SaturatedNat
<1>3. PICK y \in Nat : y = x \div Most(rate, 1)
    <2>1. Most(rate, 1) \in Nat \ {0}
        BY DEF Most
    <2> QED BY <2>1, DivMod
<1>4. Least(saturating_add(nanos, y), NANOS_PER_MS - 1) \in nanos .. NANOS_PER_MS - 1
    BY <1>1 DEF saturating_add, Least
<1> QED
    BY <1>2, <1>3, <1>4 DEF estimate_nanos_within_ms_from_ticks

\* A wall clock reading is a millisecond the thread may take and nanoseconds.
LEMMA ReadingRange ==
    ASSUME NEW x \in 0 .. MaxWall
    PROVE  MsOf(x) \in 0 .. MaxMs /\ x % NANOS_PER_MS \in 0 .. NANOS_PER_MS - 1
<1>1. /\ NANOS_PER_MS \in Nat \ {0} /\ MaxWall \in Nat /\ MaxMs \in Nat /\ x \in Nat
      /\ MaxWall \div NANOS_PER_MS <= MaxMs
    BY ArithAssumption, ClockAssumption, ClockedThreadAssumption
<1>2. /\ x \div NANOS_PER_MS \in Nat /\ x % NANOS_PER_MS \in 0 .. NANOS_PER_MS - 1
      /\ MaxWall \div NANOS_PER_MS \in Nat
    BY <1>1, DivMod
<1>3. x \div NANOS_PER_MS <= MaxWall \div NANOS_PER_MS
    BY <1>1, DivMonotone
<1> QED
    BY <1>1, <1>2, <1>3 DEF MsOf

-----------------------------------------------------------------------------
(* The steps of ThreadState *)

ClockStep ==
    \/ T!get_time
    \/ T!sample_time
    \/ \E ts \in 0 .. MaxMs, c \in 0 .. COUNTER_MAX : T!get_time_and_counter(ts, c)

\* ThreadStateProofs speaks of the same steps.
LEMMA SameSteps ==
    /\ T!get_time => TP!get_time
    /\ T!sample_time => TP!sample_time
    /\ \A ts, c : T!get_time_and_counter(ts, c) => TP!get_time_and_counter(ts, c)
<1> USE DEF T!MayRefresh, TP!MayRefresh, T!Nanos, TP!Nanos,
            T!record_time_sample, TP!record_time_sample,
            T!record_later_sample, TP!record_later_sample,
            T!kept_nanos, TP!kept_nanos, T!Most, TP!Most,
            T!kept_sampled_nanos, TP!kept_sampled_nanos,
            T!seed_counter, TP!seed_counter, T!counter_exhausted, TP!counter_exhausted,
            T!time_vars, TP!time_vars
<1>1. T!refresh_time => TP!refresh_time
    BY DEF T!refresh_time, TP!refresh_time
<1>2. T!get_time => TP!get_time
    BY <1>1 DEF T!get_time, TP!get_time
<1>3. T!sample_time => TP!sample_time
    BY <1>1 DEF T!sample_time, TP!sample_time
<1>4. ASSUME NEW ts, NEW c, T!get_time_and_counter(ts, c)
      PROVE  TP!get_time_and_counter(ts, c)
    BY <1>4 DEF T!get_time_and_counter, TP!get_time_and_counter,
        T!RollOver, TP!RollOver, T!Increment, TP!Increment
<1> QED
    BY <1>2, <1>3, <1>4

\* A step that ThreadState allows keeps the ranges of the thread's fields and
\* never moves it back.
LEMMA ClockStepMovesOn ==
    ASSUME TP!FieldsOK, ClockStep
    PROVE  TP!FieldsOK' /\ TP!MovesOn
<1>1. CASE T!get_time \/ T!sample_time
    BY <1>1, SameSteps, TP!TimeMovesOn, ArithAssumption, LayoutAssumption,
       ClockedThreadAssumption
<1>2. CASE \E ts \in 0 .. MaxMs, c \in 0 .. COUNTER_MAX : T!get_time_and_counter(ts, c)
    <2>1. PICK ts \in 0 .. MaxMs, c \in 0 .. COUNTER_MAX : TP!get_time_and_counter(ts, c)
        BY <1>2, SameSteps
    <2> QED
        BY <2>1, TP!CountMovesUp, ArithAssumption, LayoutAssumption,
           ClockedThreadAssumption
<1> QED
    BY <1>1, <1>2 DEF ClockStep

-----------------------------------------------------------------------------
(* The invariant *)

\* An estimate starts from a sample, and a counter id in the making is one the
\* caller's budget has room for.
ClockedInv ==
    /\ TypeOK
    /\ pc = "estimate" => last_ms # 0
    /\ pc \in {"due", "before", "sampled"} /\ kind = "count" => ids_in_ms < IdsPerMs

\* The thread's fields have one type here and in ThreadStateProofs.
LEMMA FieldsType == T!TypeOK <=> TP!FieldsOK
<1>1. COUNTER_MAX \in Nat /\ MaxMs \in Nat
    BY ClockedThreadAssumption
<1> QED
    BY <1>1 DEF T!TypeOK, TP!FieldsOK, T!Nanos, TP!Nanos

\* The counter's turn under a sample that is not later, or under none.
LEMMA CounterTurnStep ==
    ASSUME CounterTurn, T!TypeOK,
           ~T!counter_exhausted =>
               \/ /\ last_ms # 0
                  /\ UNCHANGED <<last_nanos_within_ms, last_sampled_nanos_within_ms>>
               \/ \E ms \in 0 .. last_ms, nanos \in T!Nanos :
                      /\ last_nanos_within_ms' = T!kept_nanos(ms, nanos)
                      /\ last_sampled_nanos_within_ms' =
                             T!kept_sampled_nanos(ms, nanos, TRUE)
    PROVE  ClockStep
<1>0. /\ last_ms \in 0 .. MaxMs /\ counter \in 0 .. COUNTER_MAX
      /\ COUNTER_MAX \in Nat /\ COUNTER_SEED_MASK \in 0 .. COUNTER_MAX /\ MaxMs \in Nat
    BY ClockedThreadAssumption DEF T!TypeOK
<1>1. ASSUME NEW c \in T!seed_counter, T!RollOver(last_ms + 1, c)
      PROVE  ClockStep
    <2>1. last_ms + 1 \in 0 .. MaxMs /\ c \in 0 .. COUNTER_MAX
        BY <1>0, <1>1 DEF T!RollOver, T!seed_counter
    <2> QED BY <1>1, <2>1 DEF ClockStep, T!get_time_and_counter
<1>2. ASSUME ~T!counter_exhausted, counter' = counter + 1, UNCHANGED last_ms
      PROVE  ClockStep
    <2>1. last_ms \in 0 .. MaxMs /\ counter + 1 \in 0 .. COUNTER_MAX
        BY <1>0, <1>2 DEF T!counter_exhausted
    <2>2. T!Increment(last_ms, counter + 1)
        BY <1>2 DEF T!Increment, T!MayRefresh
    <2> QED BY <2>1, <2>2 DEF ClockStep, T!get_time_and_counter
<1> QED
    BY <1>1, <1>2 DEF CounterTurn

\* What a refresh hands to the thread is a time ThreadState may read.
LEMMA UseSampleStep ==
    ASSUME T!TypeOK, NEW ms \in 0 .. MaxMs, NEW nanos \in 0 .. NANOS_PER_MS - 1,
           UseSample(ms, nanos)
    PROVE  ClockStep
<1>1. CASE T!record_time_sample(ms, nanos, TRUE)
    BY <1>1 DEF ClockStep, T!get_time, T!refresh_time, T!MayRefresh, T!Nanos
<1>2. CASE /\ ms <= last_ms
           /\ CounterTurn
           /\ ~T!counter_exhausted =>
                  /\ last_nanos_within_ms' = T!kept_nanos(ms, nanos)
                  /\ last_sampled_nanos_within_ms' = T!kept_sampled_nanos(ms, nanos, TRUE)
    <2>1. ms \in 0 .. last_ms /\ nanos \in T!Nanos
        BY <1>2, ClockedThreadAssumption DEF T!TypeOK, T!Nanos
    <2> QED BY <1>2, <2>1, CounterTurnStep
<1> QED
    BY <1>1, <1>2 DEF UseSample

\* The estimate starts from the nanosecond sampled last.
LEMMA EstimateStep ==
    ASSUME ClockedInv, Estimate
    PROVE  ClockStep
<1>1. /\ last_sampled_nanos_within_ms \in 0 .. NANOS_PER_MS - 1
      /\ ticks_per_ms \in Nat /\ tsc \in Int /\ sampled_at \in Int
    <2>1. NANOS_PER_MS \in Nat /\ U64 \in Nat
        BY ArithAssumption
    <2>2. /\ T!TypeOK /\ ticks_per_ms \in Nat
          /\ tsc \in 0 .. U64 - 1 /\ sampled_at \in 0 .. U64 - 1
        BY DEF ClockedInv, TypeOK
    <2> QED BY <2>1, <2>2 DEF T!TypeOK, T!Nanos
<1>2. wrapping_sub(read_counter, sampled_at) \in Nat
    <2>1. wrapping_sub(tsc, sampled_at) \in 0 .. U64 - 1 /\ U64 \in Nat
        BY <1>1, WrapRange, ArithAssumption
    <2> QED BY <2>1 DEF read_counter
<1>3. estimate_nanos_within_ms \in last_sampled_nanos_within_ms .. NANOS_PER_MS - 1
    <2>1. last_sampled_nanos_within_ms \in last_sampled_nanos_within_ms .. NANOS_PER_MS - 1
        BY <1>1, ArithAssumption
    <2> QED BY <1>1, <1>2, <2>1, EstimateRange DEF estimate_nanos_within_ms
<1>4. last_ms # 0 /\ T!record_time_sample(last_ms, estimate_nanos_within_ms, FALSE)
    BY DEF Estimate, ClockedInv
<1> HIDE DEF estimate_nanos_within_ms
<1> QED
    BY <1>3, <1>4 DEF ClockStep, T!sample_time, T!MayRefresh

\* Whatever a step of a call or of the clock does to the thread's fields,
\* ThreadState allows.
LEMMA StateStep ==
    ASSUME ClockedInv, [Next]_vars
    PROVE  ClockStep \/ UNCHANGED state_vars
<1>1. CASE Calibrate
    BY <1>1 DEF Calibrate, Declare, StartMeasuring, ReadStartTsc, ReadEndTsc,
            EndMeasuring, ThreadUnchanged
<1>2. ASSUME NEW k, CallOnCachedMs(k)
      PROVE  ClockStep \/ UNCHANGED state_vars
    <2>1. last_ms # 0
        BY <1>2 DEF CallOnCachedMs, refresh_due
    <2>2. CASE k = "count"
        <3>1. /\ CounterTurn
              /\ ~T!counter_exhausted =>
                     UNCHANGED <<last_nanos_within_ms, last_sampled_nanos_within_ms>>
            BY <1>2, <2>2 DEF CallOnCachedMs
        <3>2. T!TypeOK
            BY DEF ClockedInv, TypeOK
        <3> QED BY <2>1, <3>1, <3>2, CounterTurnStep
    <2>3. CASE k # "count"
        BY <1>2, <2>3 DEF CallOnCachedMs
    <2> QED BY <2>2, <2>3
<1>3. CASE Estimate
    BY <1>3, EstimateStep
<1>4. CASE RefreshAfter
    <2>1. sample \in 0 .. MaxWall
        <3>1. wall \in 0 .. MaxWall /\ sample \in 0 .. wall /\ MaxWall \in Nat
            BY ClockAssumption DEF ClockedInv, TypeOK
        <3> QED BY <3>1
    <2>2. UseSample(MsOf(sample), sample % NANOS_PER_MS) /\ T!TypeOK
        BY <1>4 DEF RefreshAfter, ClockedInv, TypeOK
    <2> QED BY <2>1, <2>2, ReadingRange, UseSampleStep
<1>5. CASE CallEstimating \/ RefreshBefore \/ RefreshWall \/ TimePasses
    BY <1>5 DEF CallEstimating, RefreshBefore, RefreshWall, TimePasses
<1>6. ASSUME NEW k, CallRefreshing(k)
      PROVE  UNCHANGED state_vars
    BY <1>6 DEF CallRefreshing
<1>7. CASE UNCHANGED vars
    BY <1>7 DEF vars
<1> QED
    BY <1>1, <1>2, <1>3, <1>4, <1>5, <1>6, <1>7 DEF Next

-----------------------------------------------------------------------------
(* Type correctness *)

\* The ranges of time, clock and measurement, ...
TimeOK ==
    /\ wall \in 0 .. MaxWall
    /\ tsc \in 0 .. U64 - 1 /\ sampled_at \in 0 .. U64 - 1
    /\ next_deadline \in 0 .. U64 - 1 /\ before \in 0 .. U64 - 1
    /\ start_tsc \in 0 .. U64 - 1 /\ elapsed_ticks \in 0 .. U64 - 1
    /\ ticks_per_ms \in Nat
    /\ sample \in 0 .. wall
    /\ start_instant \in 0 .. wall

\* ... and of the call in progress.
CallOK ==
    /\ backend \in {"counter", "system"}
    /\ pc \in {"new", "start_tsc", "measuring", "end_instant",
               "idle", "estimate", "due", "before", "sampled"}
    /\ kind \in {"random", "sub_ms", "count"}
    /\ call_wall \in 0 .. wall
    /\ ids_in_ms \in 0 .. IdsPerMs
    /\ pc = "estimate" => last_ms # 0
    /\ pc \in {"due", "before", "sampled"} /\ kind = "count" => ids_in_ms < IdsPerMs

\* The invariant in the parts that the steps are proved by.
LEMMA InvParts == ClockedInv <=> TP!FieldsOK /\ TimeOK /\ CallOK
BY FieldsType DEF ClockedInv, TypeOK, TimeOK, CallOK

\* A measured rate is a number whatever was measured.
LEMMA MeasuredRate ==
    ASSUME NEW ticks \in Nat, NEW nanos \in Nat
    PROVE  ticks_per_ms_from_measurement(ticks, nanos) \in Nat
<1>1. CASE ticks = 0 \/ nanos = 0
    BY <1>1, CalibrationAssumption DEF ticks_per_ms_from_measurement
<1>2. CASE ~(ticks = 0 \/ nanos = 0)
    <2>1. PICK x \in Nat : x = saturating_mul(ticks, NANOS_PER_MS)
        BY SaturatedNat, ArithAssumption
    <2>2. x \div nanos \in Nat
        BY <1>2, DivMod
    <2> QED BY <1>2, <2>1, <2>2 DEF ticks_per_ms_from_measurement, Most
<1> QED
    BY <1>1, <1>2

\* Clock and calibration keep their ranges, and the wall clock moves on.
LEMMA TimeStep ==
    ASSUME TimeOK, [Next]_vars
    PROVE  TimeOK' /\ wall <= wall'
<1>0. U64 \in Nat /\ U64 > 0 /\ wall \in Nat /\ MaxWall \in Nat
    BY ArithAssumption, ClockAssumption DEF TimeOK
<1>1. CASE Declare
    <2>1. ticks_per_ms' \in Nat
        <3>1. CASE DeclaredByCpuid
            BY <3>1, CalibrationAssumption DEF DeclaredByCpuid
        <3>2. CASE DeclaredByCntfrq
            <4>1. PICK freq \in CounterHz : ticks_per_ms' = Most(freq \div 1000, 1)
                BY <3>2 DEF DeclaredByCntfrq
            <4>2. freq \div 1000 \in Nat
                BY CalibrationAssumption, DivMod
            <4> QED BY <4>1, <4>2 DEF Most
        <3> QED BY <1>1, <3>1, <3>2 DEF Declare
    <2> QED
        BY <1>0, <1>1, <2>1 DEF Declare, ThreadUnchanged, TimeOK, time_vars, measure_vars,
            refresh_vars
<1>2. CASE StartMeasuring
    BY <1>0, <1>2 DEF StartMeasuring, StartInstant, ThreadUnchanged, TimeOK, time_vars,
        clock_vars, refresh_vars
<1>3. CASE ReadStartTsc
    BY <1>0, <1>3 DEF ReadStartTsc, StartTsc, read_counter, ThreadUnchanged, TimeOK,
        time_vars, clock_vars, refresh_vars
<1>4. CASE ReadEndTsc
    <2>1. elapsed_ticks' \in 0 .. U64 - 1
        BY <1>0, <1>4, WrapRange DEF ReadEndTsc, EndTsc, read_counter, TimeOK
    <2> QED
        BY <1>0, <1>4, <2>1 DEF ReadEndTsc, EndTsc, ThreadUnchanged, TimeOK, time_vars,
            clock_vars, refresh_vars
<1>5. CASE EndMeasuring
    <2>1. ticks_per_ms' \in Nat
        <3>1. elapsed_ticks \in Nat /\ wall - start_instant \in Nat
            BY <1>0 DEF TimeOK
        <3> QED BY <1>5, <3>1, MeasuredRate DEF EndMeasuring, EndInstant
    <2> QED
        BY <1>0, <1>5, <2>1 DEF EndMeasuring, ThreadUnchanged, TimeOK, time_vars,
            refresh_vars
<1>6. ASSUME UNCHANGED <<time_vars, clock_vars, refresh_vars, measure_vars>>
      PROVE  TimeOK' /\ wall <= wall'
    BY <1>0, <1>6 DEF TimeOK, time_vars, clock_vars, refresh_vars, measure_vars
<1>7. CASE RefreshBefore
    BY <1>0, <1>7 DEF RefreshBefore, ReadCounterBefore, read_counter, TimeOK, time_vars,
        clock_vars, measure_vars
<1>8. CASE RefreshWall
    BY <1>0, <1>8 DEF RefreshWall, ReadWall, TimeOK, time_vars, clock_vars, measure_vars
<1>9. CASE RefreshAfter
    <2>1. CASE system_record_sample
        BY <1>6, <1>9, <2>1 DEF RefreshAfter, system_record_sample
    <2>2. CASE ReadCounterAfter
        <3>1. PICK at \in 0 .. U64 - 1 :
                  at = wrapping_add(before, wrapping_sub(read_counter, before) \div 2)
            <4>1. PICK d \in 0 .. U64 - 1 : d = wrapping_sub(read_counter, before)
                BY <1>0, WrapRange DEF TimeOK, read_counter
            <4>2. d \div 2 \in Int /\ before \in Int
                BY <1>0 DEF TimeOK
            <4> QED BY <4>1, <4>2, WrapRange
        <3>2. ticks_until_next_refresh(ticks_per_ms, sample % NANOS_PER_MS) \in Nat
            <4>1. sample \in Nat /\ NANOS_PER_MS \in Nat \ {0} /\ ticks_per_ms \in Nat
                BY <1>0, ArithAssumption DEF TimeOK
            <4>2. sample % NANOS_PER_MS \in Nat
                BY <4>1, DivMod
            <4> QED BY <4>1, <4>2, RefreshTicks
        <3>3. sampled_at' \in 0 .. U64 - 1 /\ next_deadline' \in 0 .. U64 - 1
            BY <1>0, <2>2, <3>1, <3>2, WrapRange DEF ReadCounterAfter, record_sample
        <3> QED
            BY <1>0, <1>9, <2>2, <3>3 DEF RefreshAfter, ReadCounterAfter, record_sample,
                TimeOK, time_vars, refresh_vars, measure_vars
    <2> QED
        BY <1>9, <2>1, <2>2 DEF RefreshAfter
<1>10. CASE TimePasses
    <2>1. wall' = wall + ElapseNanos /\ wall + ElapseNanos <= MaxWall
          /\ tsc' = wrapping_add(tsc, ElapseTicks)
          /\ ElapseNanos \in Nat /\ ElapseTicks \in Nat
        BY <1>10, ClockAssumption DEF TimePasses, Elapse
    <2>2. tsc' \in 0 .. U64 - 1
        BY <1>0, <2>1, WrapRange DEF TimeOK
    <2>3. sample' \in 0 .. wall' /\ start_instant' \in 0 .. wall' /\ wall' \in 0 .. MaxWall
        BY <1>0, <1>10, <2>1 DEF TimePasses, TimeOK, refresh_vars, measure_vars
    <2> QED
        BY <1>0, <1>10, <2>1, <2>2, <2>3 DEF TimePasses, TimeOK, clock_vars, refresh_vars,
            measure_vars
<1>11. CASE CallEstimating \/ Estimate \/ UNCHANGED vars
           \/ \E k \in {"random", "sub_ms", "count"} : CallOnCachedMs(k) \/ CallRefreshing(k)
    BY <1>6, <1>11 DEF CallEstimating, Estimate, CallOnCachedMs, CallRefreshing, vars
<1> QED
    BY <1>1, <1>2, <1>3, <1>4, <1>5, <1>7, <1>8, <1>9, <1>10, <1>11 DEF Next, Calibrate

\* The call in progress keeps its ranges and its budget.
LEMMA CallStep ==
    ASSUME TimeOK, CallOK, wall' \in Nat, wall <= wall', [Next]_vars
    PROVE  CallOK'
<1>0. wall \in Nat /\ IdsPerMs \in Nat /\ call_wall \in Nat /\ ids_in_ms \in Nat
    BY ClockAssumption, ClockedThreadAssumption DEF TimeOK, CallOK
<1>1. CASE Calibrate
    BY <1>0, <1>1 DEF Calibrate, Declare, StartMeasuring, ReadStartTsc, ReadEndTsc,
        EndMeasuring, ThreadUnchanged, state_vars, call_vars, time_vars, CallOK
<1>2. ASSUME NEW k \in {"random", "count"}, CallOnCachedMs(k)
      PROVE  CallOK'
    BY <1>0, <1>2 DEF CallOnCachedMs, StartCall, time_vars, CallOK
<1>3. CASE CallEstimating
    BY <1>0, <1>3 DEF CallEstimating, StartCall, refresh_due, time_vars, state_vars, CallOK
<1>4. CASE Estimate
    BY <1>0, <1>4 DEF Estimate, time_vars, call_vars, CallOK
<1>5. ASSUME NEW k \in {"random", "sub_ms", "count"}, CallRefreshing(k)
      PROVE  CallOK'
    BY <1>0, <1>5 DEF CallRefreshing, StartCall, time_vars, state_vars, CallOK
<1>6. CASE RefreshBefore
    BY <1>0, <1>6 DEF RefreshBefore, ReadCounterBefore, time_vars, state_vars, call_vars, CallOK
<1>7. CASE RefreshWall
    BY <1>0, <1>7 DEF RefreshWall, ReadWall, time_vars, state_vars, call_vars, CallOK
<1>8. CASE RefreshAfter
    <2>1. /\ pc = "sampled" /\ pc' = "idle" /\ UNCHANGED <<backend, kind, call_wall>>
          /\ ids_in_ms' = IF kind = "count" THEN ids_in_ms + 1 ELSE ids_in_ms
        BY <1>8 DEF RefreshAfter
    <2> QED BY <1>0, <2>1 DEF CallOK
<1>9. CASE TimePasses
    <2>1. /\ UNCHANGED <<backend, pc, kind, call_wall, last_ms>>
          /\ ids_in_ms' \in {ids_in_ms, 0}
        BY <1>9 DEF TimePasses, state_vars
    <2> QED BY <1>0, <2>1 DEF CallOK
<1>10. CASE UNCHANGED vars
    BY <1>10 DEF vars, call_vars, time_vars, state_vars, CallOK
<1> QED
    BY <1>1, <1>2, <1>3, <1>4, <1>5, <1>6, <1>7, <1>8, <1>9, <1>10 DEF Next

\* The invariant holds at the start ...
LEMMA ClockedInvInit ==
    ASSUME Init
    PROVE  ClockedInv
<1>1. /\ 0 \in 0 .. U64 - 1 /\ WallStarts \subseteq 0 .. MaxWall /\ MaxWall \in Nat
      /\ CounterStarts \subseteq 0 .. U64 - 1 /\ IdsPerMs \in Nat
      /\ COUNTER_MAX \in Nat /\ MaxMs \in Nat /\ NANOS_PER_MS - 1 \in Nat
    BY ArithAssumption, ClockAssumption, ClockedThreadAssumption
<1>2. TimeOK
    BY <1>1 DEF Init, ClockInit, CalibrationInit, TimeOK
<1>3. TP!FieldsOK
    BY <1>1 DEF Init, T!Init, TP!FieldsOK, TP!Nanos
<1>4. CallOK
    BY <1>1, <1>2 DEF Init, CallOK, TimeOK
<1> QED
    BY <1>2, <1>3, <1>4, InvParts

\* ... and every step keeps it, and moves the thread's fields as on any clock.
LEMMA ClockedInvStep ==
    ASSUME ClockedInv, [Next]_vars
    PROVE  ClockedInv' /\ [ClockStep /\ TP!MovesOn]_state_vars
<1>1. TP!FieldsOK /\ TimeOK /\ CallOK
    BY InvParts
<1>2. TP!FieldsOK' /\ [ClockStep /\ TP!MovesOn]_state_vars
    <2>1. CASE ClockStep
        BY <1>1, <2>1, ClockStepMovesOn
    <2>2. CASE UNCHANGED state_vars
        BY <1>1, <2>2 DEF state_vars, TP!FieldsOK
    <2> QED BY <2>1, <2>2, StateStep
<1>3. TimeOK' /\ wall <= wall'
    BY <1>1, TimeStep
<1>4. CallOK'
    <2>1. wall' \in Nat
        BY <1>3, ClockAssumption DEF TimeOK
    <2> QED BY <1>1, <1>3, <2>1, CallStep
<1>5. T!TypeOK'
    <2>1. COUNTER_MAX \in Nat /\ MaxMs \in Nat
        BY ClockedThreadAssumption
    <2> QED BY <1>2, <2>1 DEF T!TypeOK, TP!FieldsOK, T!Nanos, TP!Nanos
<1> QED
    BY <1>2, <1>3, <1>4, <1>5 DEF ClockedInv, TypeOK, TimeOK, CallOK

\* However the thread is preempted, its fields keep their ranges.
THEOREM ClockedInvariant == Spec => []ClockedInv
BY ClockedInvInit, ClockedInvStep, PTL DEF Spec

\* Every variable keeps its range, those of ThreadState included.
THEOREM TypeCorrect == Spec => []TypeOK
<1>1. ClockedInv => TypeOK
    BY DEF ClockedInv
<1> QED
    BY <1>1, ClockedInvariant, PTL

\* The clock is one ThreadState allows for: readings, estimates and deadlines
\* taken at any distance from one another, with a rate that may be wrong, do
\* nothing to a thread's fields that ThreadStateProofs does not cover.
THEOREM ClockTheorem == Spec => ClockOfThreadState
<1>1. ClockedInv /\ [Next]_vars => [ClockStep]_state_vars
    BY ClockedInvStep
<1> QED
    BY <1>1, ClockedInvariant, PTL DEF Spec, ClockOfThreadState, ClockStep

\* So no call, refresh or estimate on the real clock moves a thread's time or,
\* within a millisecond, its counter and nanoseconds back.
THEOREM MovesOnTheorem == Spec => [][TP!MovesOn]_state_vars
<1>1. ClockedInv /\ [Next]_vars => [TP!MovesOn]_state_vars
    BY ClockedInvStep
<1> QED
    BY <1>1, ClockedInvariant, PTL DEF Spec

-----------------------------------------------------------------------------
(* The measured rate *)

\* Ticks that fit the time they are set against make no rate above the
\* counter's own: saturation and division only make it smaller.
LEMMA RateOfMeasurement ==
    ASSUME NEW ticks \in Nat, NEW nanos \in Nat,
           ticks * ElapseNanos <= nanos * ElapseTicks,
           NEW rate, rate = ticks_per_ms_from_measurement(ticks, nanos)
    PROVE  rate \in {1, FALLBACK_TICKS_PER_MS} \/ RateNotAbove(rate)
<1>0. ElapseNanos \in Nat /\ ElapseTicks \in Nat /\ NANOS_PER_MS \in Nat
    BY ArithAssumption, ClockAssumption
<1>1. CASE ticks = 0 \/ nanos = 0
    BY <1>1 DEF ticks_per_ms_from_measurement
<1>2. ASSUME ticks # 0, nanos # 0
      PROVE  rate = 1 \/ RateNotAbove(rate)
    <2>1. PICK x \in Nat : x = saturating_mul(ticks, NANOS_PER_MS)
                           /\ x <= ticks * NANOS_PER_MS
        BY <1>0, SaturatedNat
    <2>2. PICK q \in Nat, r \in Nat : q = x \div nanos /\ x = q * nanos + r
        <3>1. nanos \in Nat \ {0}
            BY <1>2
        <3>2. /\ x \div nanos \in Nat /\ x % nanos \in 0 .. nanos - 1
              /\ x = (x \div nanos) * nanos + (x % nanos)
            BY <3>1, DivMod
        <3>3. x % nanos \in Nat
            BY <3>2
        <3> QED BY <3>2, <3>3
    <2>3. q * nanos <= ticks * NANOS_PER_MS
        <3>1. q * nanos \in Nat /\ ticks * NANOS_PER_MS \in Nat
            BY <1>0
        <3> QED BY <2>1, <2>2, <3>1
    <2>4. (q * nanos) * ElapseNanos <= (ticks * NANOS_PER_MS) * ElapseNanos
        <3>1. q * nanos \in Nat /\ ticks * NANOS_PER_MS \in Nat
            BY <1>0
        <3> QED BY <1>0, <2>3, <3>1, TimesOrder
    <2>5. (ticks * ElapseNanos) * NANOS_PER_MS <= (nanos * ElapseTicks) * NANOS_PER_MS
        <3>1. ticks * ElapseNanos \in Nat /\ nanos * ElapseTicks \in Nat
            BY <1>0
        <3> QED BY <1>0, <3>1, TimesOrder
    <2>6. /\ (q * nanos) * ElapseNanos = (q * ElapseNanos) * nanos
          /\ (ticks * NANOS_PER_MS) * ElapseNanos = (ticks * ElapseNanos) * NANOS_PER_MS
          /\ (nanos * ElapseTicks) * NANOS_PER_MS = (NANOS_PER_MS * ElapseTicks) * nanos
        BY <1>0
    <2>7. PICK a \in Nat, b \in Nat :
              a = q * ElapseNanos /\ b = NANOS_PER_MS * ElapseTicks
        BY <1>0
    <2>8. a * nanos <= b * nanos
        <3>1. PICK y \in Nat : y = (ticks * NANOS_PER_MS) * ElapseNanos
            <4>1. ticks * NANOS_PER_MS \in Nat
                BY <1>0
            <4> QED BY <1>0, <4>1
        <3>2. a * nanos \in Nat /\ b * nanos \in Nat
            OBVIOUS
        <3> QED BY <2>4, <2>5, <2>6, <2>7, <3>1, <3>2
    <2>9. a <= b
        BY <1>2, <2>8, TimesOrder
    <2>10. rate = Most(q, 1)
        BY <1>2, <2>1, <2>2 DEF ticks_per_ms_from_measurement
    <2> QED
        BY <2>7, <2>9, <2>10 DEF RateNotAbove, Most
<1> QED
    BY <1>1, <1>2

\* The counter is read after the measurement starts and before it ends, so what
\* it counted fits the time that has passed.
MeasureInv ==
    /\ pc = "measuring" =>
           wrapping_sub(tsc, start_tsc) * ElapseNanos <= (wall - start_instant) * ElapseTicks
    /\ pc = "end_instant" =>
           elapsed_ticks * ElapseNanos <= (wall - start_instant) * ElapseTicks

\* While time passes both sides grow, the counted one by no more.
LEMMA MeasureElapse ==
    ASSUME NEW d \in Nat, NEW d1 \in Nat, NEW w \in Nat,
           d * ElapseNanos <= w * ElapseTicks, d1 <= d + ElapseTicks
    PROVE  d1 * ElapseNanos <= (w + ElapseNanos) * ElapseTicks
<1>0. ElapseNanos \in Nat /\ ElapseTicks \in Nat
    BY ClockAssumption
<1>1. d1 * ElapseNanos <= (d + ElapseTicks) * ElapseNanos
    <2>1. d + ElapseTicks \in Nat
        BY <1>0
    <2> QED BY <1>0, <2>1, TimesOrder
<1>2. PICK x \in Nat, y \in Nat, z \in Nat :
          x = d * ElapseNanos /\ y = w * ElapseTicks /\ z = ElapseNanos * ElapseTicks
    BY <1>0
<1>3. /\ (d + ElapseTicks) * ElapseNanos = x + z
      /\ (w + ElapseNanos) * ElapseTicks = y + z
    BY <1>0, <1>2
<1>4. d1 * ElapseNanos \in Nat
    BY <1>0
<1> QED
    BY <1>1, <1>2, <1>3, <1>4

\* Each reading of a measurement keeps the ticks counted to the time passed.
LEMMA MeasureStep ==
    ASSUME TimeOK, TimeOK', CallOK, MeasureInv, [Next]_vars
    PROVE  MeasureInv'
<1>0. /\ ElapseNanos \in Nat /\ ElapseTicks \in Nat /\ U64 \in Nat \ {0}
      /\ wall \in Nat /\ start_instant \in Nat /\ wall - start_instant \in Nat
      /\ tsc \in Int /\ start_tsc \in Int /\ elapsed_ticks \in Nat
    BY ClockAssumption, ArithAssumption DEF TimeOK
<1>1. CASE StartMeasuring \/ Declare
    BY <1>1 DEF StartMeasuring, Declare, MeasureInv
<1>2. CASE ReadStartTsc
    <2>1. /\ start_tsc' = tsc /\ tsc' = tsc /\ pc' = "measuring"
          /\ start_instant' = start_instant /\ wall' = wall
        BY <1>2 DEF ReadStartTsc, StartTsc, ThreadUnchanged, time_vars, read_counter
    <2>2. wrapping_sub(tsc, tsc) = 0
        <3>1. tsc - tsc = 0 * U64 + 0
            BY <1>0
        <3>2. 0 % U64 = 0
            BY <1>0
        <3> QED BY <1>0, <3>1, <3>2 DEF wrapping_sub
    <2>3. 0 * ElapseNanos = 0 /\ (wall - start_instant) * ElapseTicks \in Nat
        BY <1>0
    <2> QED BY <2>1, <2>2, <2>3 DEF MeasureInv
<1>3. CASE ReadEndTsc
    BY <1>3 DEF ReadEndTsc, EndTsc, ThreadUnchanged, time_vars, read_counter, MeasureInv
<1>4. CASE TimePasses
    <2>1. /\ wall' = wall + ElapseNanos /\ tsc' = wrapping_add(tsc, ElapseTicks)
          /\ start_instant' = start_instant /\ start_tsc' = start_tsc
          /\ elapsed_ticks' = elapsed_ticks /\ pc' = pc
        BY <1>4 DEF TimePasses, Elapse, measure_vars
    <2>2. PICK w \in Nat : w = wall - start_instant /\ wall' - start_instant' = w + ElapseNanos
        BY <1>0, <2>1
    <2>3. CASE pc = "measuring"
        <3>1. PICK d \in Nat : d = wrapping_sub(tsc, start_tsc)
            <4>1. wrapping_sub(tsc, start_tsc) \in 0 .. U64 - 1
                BY <1>0, WrapRange
            <4> QED BY <1>0, <4>1
        <3>2. PICK d1 \in Nat : d1 = wrapping_sub(tsc', start_tsc') /\ d1 <= d + ElapseTicks
            <4>1. /\ (((tsc + ElapseTicks) % U64) - start_tsc) % U64 \in 0 .. U64 - 1
                  /\ (((tsc + ElapseTicks) % U64) - start_tsc) % U64
                         <= ((tsc - start_tsc) % U64) + ElapseTicks
                BY <1>0, CountedAtMost
            <4> QED BY <1>0, <2>1, <3>1, <4>1 DEF wrapping_sub, wrapping_add
        <3>3. d * ElapseNanos <= w * ElapseTicks
            BY <2>2, <2>3, <3>1 DEF MeasureInv
        <3>4. d1 * ElapseNanos <= (w + ElapseNanos) * ElapseTicks
            BY <3>2, <3>3, MeasureElapse
        <3> QED BY <2>1, <2>2, <2>3, <3>2, <3>4 DEF MeasureInv
    <2>4. CASE pc = "end_instant"
        <3>1. elapsed_ticks * ElapseNanos <= w * ElapseTicks
              /\ elapsed_ticks <= elapsed_ticks + ElapseTicks
            BY <1>0, <2>2, <2>4 DEF MeasureInv
        <3>2. elapsed_ticks * ElapseNanos <= (w + ElapseNanos) * ElapseTicks
            BY <1>0, <3>1, MeasureElapse
        <3> QED BY <2>1, <2>2, <2>4, <3>2 DEF MeasureInv
    <2>5. CASE pc \notin {"measuring", "end_instant"}
        BY <2>1, <2>5 DEF MeasureInv
    <2> QED BY <2>3, <2>4, <2>5
<1>5. CASE /\ pc' \notin {"measuring", "end_instant"}
    BY <1>5 DEF MeasureInv
<1>6. CASE UNCHANGED vars
    BY <1>6 DEF vars, time_vars, measure_vars, MeasureInv
<1>7. pc' \notin {"measuring", "end_instant"} \/ StartMeasuring \/ Declare
      \/ ReadStartTsc \/ ReadEndTsc \/ TimePasses \/ UNCHANGED vars
    BY DEF Next, Calibrate, EndMeasuring, CallEstimating, Estimate, CallOnCachedMs,
        CallRefreshing, StartCall, RefreshBefore, RefreshWall, RefreshAfter
<1> QED
    BY <1>1, <1>2, <1>3, <1>4, <1>5, <1>6, <1>7

\* A CPU that declares a rate declares its own, rounded down or exact.
DeclaredRight ==
    /\ \A rate \in Rates : RateNotAbove(rate)
    /\ \A freq \in CounterHz : RateNotAbove(freq \div 1000)

\* So the rate that is set from them is not too fast, nor one that is declared right.
LEMMA RateStep ==
    ASSUME DeclaredRight, TimeOK, MeasureInv, MeasuredNotTooFast, [Next]_vars
    PROVE  MeasuredNotTooFast'
<1>1. CASE Declare
    <2>1. CASE DeclaredByCpuid
        BY <2>1 DEF DeclaredByCpuid, DeclaredRight, MeasuredNotTooFast
    <2>2. CASE DeclaredByCntfrq
        BY <2>2 DEF DeclaredByCntfrq, DeclaredRight, MeasuredNotTooFast, Most
    <2> QED BY <1>1, <2>1, <2>2 DEF Declare
<1>2. CASE EndMeasuring
    <2>1. /\ elapsed_ticks \in Nat /\ wall - start_instant \in Nat
          /\ elapsed_ticks * ElapseNanos <= (wall - start_instant) * ElapseTicks
        BY <1>2, ClockAssumption, ArithAssumption DEF EndMeasuring, MeasureInv, TimeOK
    <2>2. ticks_per_ms' = ticks_per_ms_from_measurement(elapsed_ticks, wall - start_instant)
        BY <1>2 DEF EndMeasuring, EndInstant
    <2> QED BY <2>1, <2>2, RateOfMeasurement DEF MeasuredNotTooFast
<1>3. CASE UNCHANGED ticks_per_ms
    BY <1>3 DEF MeasuredNotTooFast
<1>4. Declare \/ EndMeasuring \/ UNCHANGED ticks_per_ms
    BY DEF Next, Calibrate, StartMeasuring, ReadStartTsc, ReadEndTsc, CallOnCachedMs,
        CallEstimating, CallRefreshing, Estimate, RefreshBefore, ReadCounterBefore,
        RefreshWall, ReadWall, RefreshAfter, ReadCounterAfter, record_sample,
        system_record_sample, TimePasses, clock_vars, vars
<1> QED
    BY <1>1, <1>2, <1>3, <1>4

\* A measurement is never too fast, wherever the thread is preempted in it, at
\* any rate, with the counter wrapping in between.
THEOREM MeasuredTheorem == ASSUME DeclaredRight PROVE Spec => []MeasuredNotTooFast
<1>1. Init => MeasuredNotTooFast /\ MeasureInv
    BY DEF Init, ClockInit, MeasuredNotTooFast, MeasureInv
<1>2. /\ ClockedInv /\ ClockedInv' /\ MeasureInv /\ MeasuredNotTooFast /\ [Next]_vars
      => MeasureInv' /\ MeasuredNotTooFast'
    <2> SUFFICES ASSUME ClockedInv, ClockedInv', MeasureInv, MeasuredNotTooFast, [Next]_vars
                 PROVE  MeasureInv' /\ MeasuredNotTooFast'
        OBVIOUS
    <2>1. TimeOK /\ CallOK
        BY InvParts
    <2>2. TimeOK'
        BY <2>1, TimeStep
    <2> QED BY <2>1, <2>2, MeasureStep, RateStep
<1> QED
    BY <1>1, <1>2, ClockedInvariant, PTL DEF Spec

-----------------------------------------------------------------------------
(* The lag *)

\* The clock is the same.
LEMMA SameClock ==
    /\ ReadCounterBefore => CP!ReadCounterBefore
    /\ ReadWall => CP!ReadWall
    /\ ReadCounterAfter => CP!ReadCounterAfter
    /\ Elapse => CP!Elapse
    /\ should_refresh <=> CP!should_refresh
    /\ ReuseNanos = CP!ReuseNanos
    /\ \A x : MsOf(x) = CP!MsOf(x)
    /\ clock_vars = CP!clock_vars /\ refresh_vars = CP!refresh_vars
<1> USE DEF read_counter, CP!read_counter, time_vars, CP!time_vars,
            clock_vars, CP!clock_vars, refresh_vars, CP!refresh_vars,
            wrapping_add, CP!wrapping_add, wrapping_sub, CP!wrapping_sub,
            MAX_REFRESH_INTERVAL_NANOS, CP!MAX_REFRESH_INTERVAL_NANOS,
            Most, CP!Most
<1>1. ReadCounterBefore => CP!ReadCounterBefore
    BY DEF ReadCounterBefore, CP!ReadCounterBefore
<1>2. ReadWall => CP!ReadWall
    BY DEF ReadWall, CP!ReadWall
<1>3. ASSUME NEW rate, NEW nanos
      PROVE  ticks_until_next_refresh(rate, nanos) = CP!ticks_until_next_refresh(rate, nanos)
    BY DEF ticks_until_next_refresh, CP!ticks_until_next_refresh,
        saturating_add, CP!saturating_add, saturating_mul, CP!saturating_mul,
        nanos_until_next_refresh, CP!nanos_until_next_refresh, Least, CP!Least,
        nanos_until_next_ms, CP!nanos_until_next_ms
<1>4. ReadCounterAfter => CP!ReadCounterAfter
    BY <1>3 DEF ReadCounterAfter, CP!ReadCounterAfter, record_sample, CP!record_sample
<1>5. Elapse => CP!Elapse
    BY DEF Elapse, CP!Elapse
<1>6. should_refresh <=> CP!should_refresh
    BY DEF should_refresh, CP!should_refresh, deadline_reached, CP!deadline_reached
<1>7. ReuseNanos = CP!ReuseNanos
    BY DEF ReuseNanos, CP!ReuseNanos
<1>8. \A x : MsOf(x) = CP!MsOf(x)
    BY DEF MsOf, CP!MsOf
<1> QED
    BY <1>1, <1>2, <1>4, <1>5, <1>6, <1>7, <1>8

\* What is supposed of the constants there holds of these.
ClockGiven ==
    /\ ArithAssumption /\ ClockAssumption /\ LayoutAssumption
    /\ MaxMs \in Nat /\ MaxMs < TsMod /\ MaxWall \div NANOS_PER_MS <= MaxMs
    /\ (0 * ElapseNanos) % ElapseTicks = 0

\* They are among the assumptions of this module.
LEMMA ClockIsGiven == ClockGiven
<1>1. (0 * ElapseNanos) % ElapseTicks = 0
    BY ClockAssumption
<1> QED
    BY <1>1, ArithAssumption, ClockAssumption, LayoutAssumption, ClockedThreadAssumption
    DEF ClockGiven

Calibrating == {"new", "start_tsc", "measuring", "end_instant"}

\* A calibration comes before the first timestamp, and leaves a rate; only a
\* counter is calibrated, asked for its deadline or estimated from.  Without one
\* every call takes a reading of its own.
ModeInv ==
    /\ pc \in Calibrating => backend = "counter" /\ last_ms = 0
    /\ backend = "system" => pc \in {"idle", "before", "sampled"}
    /\ backend = "counter" /\ pc \notin Calibrating => ticks_per_ms # 0
    /\ backend = "system" /\ pc = "sampled" => call_wall <= sample

\* A calibration never comes to a rate of 0.
LEMMA RateIsLeft ==
    ASSUME ClockedInv, Declare \/ EndMeasuring
    PROVE  ticks_per_ms' # 0
<1>1. CASE DeclaredByCpuid
    BY <1>1, CalibrationAssumption DEF DeclaredByCpuid
<1>2. CASE DeclaredByCntfrq
    <2>1. PICK freq \in CounterHz : ticks_per_ms' = Most(freq \div 1000, 1)
        BY <1>2 DEF DeclaredByCntfrq
    <2>2. freq \div 1000 \in Nat
        BY CalibrationAssumption, DivMod
    <2> QED BY <2>1, <2>2 DEF Most
<1>3. CASE EndMeasuring
    <2>1. PICK t \in Nat, d \in Nat :
              ticks_per_ms' = ticks_per_ms_from_measurement(t, d)
        <3>1. elapsed_ticks \in Nat /\ wall - start_instant \in Nat
            BY InvParts, ClockAssumption, ArithAssumption DEF TimeOK
        <3> QED BY <1>3, <3>1 DEF EndMeasuring, EndInstant
    <2>2. CASE t = 0 \/ d = 0
        BY <2>1, <2>2, CalibrationAssumption DEF ticks_per_ms_from_measurement
    <2>3. CASE ~(t = 0 \/ d = 0)
        <3>1. PICK x \in Nat : x = saturating_mul(t, NANOS_PER_MS)
            BY SaturatedNat, ArithAssumption
        <3>2. x \div d \in Nat
            BY <2>3, DivMod
        <3> QED BY <2>1, <2>3, <3>1, <3>2 DEF ticks_per_ms_from_measurement, Most
    <2> QED BY <2>2, <2>3
<1> QED
    BY <1>1, <1>2, <1>3 DEF Declare

\* No step confuses the three kinds of clock.
LEMMA ModeStep ==
    ASSUME ClockedInv, ModeInv, [Next]_vars
    PROVE  ModeInv'
<1>0. sample \in 0 .. wall /\ call_wall \in 0 .. wall /\ wall \in Nat
    BY InvParts, ClockAssumption DEF TimeOK, CallOK
<1>1. CASE Declare \/ EndMeasuring
    <2>1. /\ pc \in Calibrating /\ pc' = "idle" /\ backend' = backend
          /\ ticks_per_ms' # 0
        BY <1>1, RateIsLeft DEF Declare, EndMeasuring, ThreadUnchanged, Calibrating
    <2> QED BY <2>1 DEF ModeInv, Calibrating
<1>2. CASE StartMeasuring \/ ReadStartTsc \/ ReadEndTsc
    BY <1>2 DEF StartMeasuring, ReadStartTsc, ReadEndTsc, ThreadUnchanged, state_vars,
        ModeInv, Calibrating
<1>3. ASSUME NEW k, CallOnCachedMs(k)
      PROVE  ModeInv'
    BY <1>3 DEF CallOnCachedMs, StartCall, clock_vars, ModeInv, Calibrating
<1>4. CASE CallEstimating
    BY <1>4 DEF CallEstimating, StartCall, refresh_due, clock_vars, ModeInv, Calibrating
<1>5. CASE Estimate
    BY <1>5 DEF Estimate, clock_vars, ModeInv, Calibrating
<1>6. ASSUME NEW k, CallRefreshing(k)
      PROVE  ModeInv'
    BY <1>6 DEF CallRefreshing, StartCall, clock_vars, ModeInv, Calibrating
<1>7. CASE RefreshBefore
    BY <1>7 DEF RefreshBefore, ReadCounterBefore, clock_vars, ModeInv, Calibrating
<1>8. CASE RefreshWall
    <2>1. call_wall' <= sample'
        BY <1>0, <1>8 DEF RefreshWall, ReadWall, call_vars
    <2> QED
        BY <1>8, <2>1 DEF RefreshWall, ReadWall, clock_vars, call_vars, ModeInv, Calibrating
<1>9. CASE RefreshAfter
    BY <1>9 DEF RefreshAfter, ReadCounterAfter, record_sample, system_record_sample,
        clock_vars, ModeInv, Calibrating
<1>10. CASE TimePasses \/ UNCHANGED vars
    BY <1>10 DEF TimePasses, vars, clock_vars, refresh_vars, state_vars, call_vars,
        ModeInv, Calibrating
<1> QED
    BY <1>1, <1>2, <1>3, <1>4, <1>5, <1>6, <1>7, <1>8, <1>9, <1>10 DEF Next, Calibrate

\* On a counter, the refresh in progress or the last one is followed as
\* ClockedSequentialProofs follows it; no later millisecond than that of the
\* sample is given up.
Timed(n) ==
    /\ CP!Ran(n)
    /\ backend = "counter" /\ pc = "before" => \E h \in Nat : CP!BeforeRead(n, h)
    /\ backend = "counter" /\ pc = "sampled" => \E h, k \in Nat : CP!Sampled(n, h, k)
    /\ backend = "counter" /\ pc \in {"idle", "due", "estimate"} /\ last_ms # 0 =>
           \E k \in Nat, g \in Int :
               CP!Dated(n, k, g, 0) /\ last_ms >= MsOf(sample)

LagInv == ModeInv /\ \E n \in Nat : Timed(n)

WithinHalfRange == CP!WithinHalfRange

\* Once it is calibrated the clock is in order.
LEMMA ClockReady ==
    ASSUME ClockedInv, ModeInv, backend = "counter", pc \notin Calibrating
    PROVE  CP!ClockOK
<1>1. TimeOK /\ CallOK
    BY InvParts
<1> QED
    BY <1>1 DEF CP!ClockOK, TimeOK, CallOK, ModeInv

\* The sample is a number of milliseconds the thread may take.
LEMMA SampleMs ==
    ASSUME ClockedInv
    PROVE  MsOf(sample) \in 0 .. MaxMs /\ sample % NANOS_PER_MS \in 0 .. NANOS_PER_MS - 1
<1>1. sample \in 0 .. wall /\ wall \in 0 .. MaxWall /\ MaxWall \in Nat
    BY InvParts, ClockAssumption DEF TimeOK
<1>2. sample \in 0 .. MaxWall
    BY <1>1
<1> QED
    BY <1>2, ReadingRange

\* A call leaves last_ms no earlier than it was, and than the reading it took.
LEMMA CallMovesOn ==
    ASSUME ClockedInv
    PROVE  /\ last_ms \in Nat
           /\ CounterTurn => last_ms' \in Nat /\ last_ms' >= last_ms
           /\ \A ms \in 0 .. MaxMs, nanos \in 0 .. NANOS_PER_MS - 1 :
                  UseSample(ms, nanos) => last_ms' \in Nat /\ last_ms' >= ms
<1>1. last_ms \in Nat /\ MaxMs \in Nat
    BY ClockedThreadAssumption DEF ClockedInv, TypeOK, T!TypeOK
<1>2. CounterTurn => last_ms' \in Nat /\ last_ms' >= last_ms
    BY <1>1 DEF CounterTurn, T!RollOver
<1>3. ASSUME NEW ms \in 0 .. MaxMs, NEW nanos \in 0 .. NANOS_PER_MS - 1,
             UseSample(ms, nanos)
      PROVE  last_ms' \in Nat /\ last_ms' >= ms
    <2>1. CASE T!record_time_sample(ms, nanos, TRUE)
        <3>1. last_ms' = ms \/ (ms <= last_ms /\ last_ms' = last_ms)
            BY <2>1 DEF T!record_time_sample, T!record_later_sample
        <3> QED BY <1>1, <3>1
    <2>2. CASE ms <= last_ms /\ CounterTurn
        BY <1>1, <1>2, <2>2
    <2> QED BY <1>3, <2>1, <2>2 DEF UseSample
<1> QED
    BY <1>1, <1>2, <1>3

\* While the clock stands, what was counted stands, as long as the thread does
\* not go back.
LEMMA DatedKept ==
    ASSUME NEW n \in Nat, NEW k \in Nat, NEW g \in Int, CP!Dated(n, k, g, 0),
           last_ms \in Nat, last_ms >= MsOf(sample), MsOf(sample) \in Nat,
           last_ms' \in Nat, last_ms' >= last_ms,
           UNCHANGED <<time_vars, clock_vars, refresh_vars>>
    PROVE  CP!Dated(n, k, g, 0)' /\ last_ms' >= MsOf(sample)'
<1>1. UNCHANGED <<wall, tsc, ticks_per_ms, next_deadline, sample>>
    BY DEF time_vars, clock_vars, refresh_vars
<1>2. CP!Dated(n, k, g, 0)'
    BY <1>1 DEF CP!Dated, CP!Interval
<1>3. MsOf(sample)' = MsOf(sample)
    BY <1>1 DEF MsOf
<1> QED
    BY <1>2, <1>3

\* Nothing is counted while the clock stands.
LEMMA RanKept ==
    ASSUME NEW n \in Nat, CP!Ran(n), UNCHANGED time_vars
    PROVE  CP!Ran(n)'
BY DEF CP!Ran, time_vars

\* A call on the cached millisecond leaves the clock as it was.
LEMMA CachedTimed ==
    ASSUME ClockedInv, ModeInv, NEW n \in Nat, Timed(n),
           \/ \E k \in {"random", "count"} : CallOnCachedMs(k)
           \/ CallEstimating
           \/ Estimate
           \/ \E k \in {"random", "sub_ms", "count"} : CallRefreshing(k)
    PROVE  Timed(n)'
<1>1. UNCHANGED <<time_vars, clock_vars, refresh_vars>> /\ backend' = backend
      /\ pc \in {"idle", "estimate"} /\ pc' \in {"idle", "estimate", "due", "before"}
      /\ (backend = "counter" => pc' # "before")
    BY DEF CallOnCachedMs, CallEstimating, Estimate, CallRefreshing, StartCall
<1>2. last_ms \in Nat /\ last_ms' \in Nat /\ last_ms' >= last_ms
      /\ (last_ms = 0 => last_ms' = 0)
    <2>1. last_ms \in Nat /\ (CounterTurn => last_ms' \in Nat /\ last_ms' >= last_ms)
        BY CallMovesOn
    <2>2. ASSUME NEW k, CallOnCachedMs(k)
          PROVE  /\ last_ms # 0
                 /\ last_ms' \in Nat /\ last_ms' >= last_ms
        BY <2>1, <2>2 DEF CallOnCachedMs, refresh_due, state_vars
    <2>3. ASSUME Estimate
          PROVE  last_ms' = last_ms
        <3>1. \/ last_ms > last_ms
              \/ last_ms' = last_ms
            BY <2>3 DEF Estimate, T!record_time_sample, T!record_later_sample
        <3> QED BY <2>1, <3>1
    <2>4. ASSUME CallEstimating \/ \E k \in {"random", "sub_ms", "count"} : CallRefreshing(k)
          PROVE  last_ms' = last_ms
        BY <2>4 DEF CallEstimating, CallRefreshing, state_vars
    <2> QED BY <2>1, <2>2, <2>3, <2>4
<1>3. CP!Ran(n)'
    BY <1>1, RanKept DEF Timed
<1>4. ASSUME backend = "counter", last_ms' # 0
      PROVE  \E k \in Nat, g \in Int :
                 CP!Dated(n, k, g, 0)' /\ last_ms' >= MsOf(sample)'
    <2>1. PICK k \in Nat, g \in Int : CP!Dated(n, k, g, 0) /\ last_ms >= MsOf(sample)
        BY <1>1, <1>2, <1>4 DEF Timed
    <2>2. MsOf(sample) \in Nat
        BY SampleMs
    <2> QED BY <1>1, <1>2, <2>1, <2>2, DatedKept
<1> QED
    BY <1>1, <1>3, <1>4 DEF Timed

\* The three readings of a refresh take over from one another, and then from the
\* deadline they replace.
LEMMA RefreshTimed ==
    ASSUME WithinHalfRange, ClockedInv, ModeInv, NEW n \in Nat, Timed(n),
           RefreshBefore \/ RefreshWall \/ RefreshAfter
    PROVE  Timed(n)'
<1>0. /\ UNCHANGED <<time_vars, backend>>
      /\ pc \in {"due", "before", "sampled"} /\ pc \notin Calibrating
    BY DEF RefreshBefore, ReadCounterBefore, RefreshWall, ReadWall, RefreshAfter,
        ReadCounterAfter, system_record_sample, Calibrating
<1>1. CP!Ran(n)'
    BY <1>0, RanKept DEF Timed
<1>2. CASE backend # "counter"
    BY <1>0, <1>1, <1>2 DEF Timed
<1>3. CASE backend = "counter" /\ RefreshBefore
    <2>1. CP!BeforeRead(n, 0)' /\ pc' = "before"
        BY <1>0, <1>3, ClockReady, SameClock, CP!BeforeReadStart, ClockIsGiven
        DEF RefreshBefore, ClockGiven
    <2> QED BY <1>1, <2>1 DEF Timed
<1>4. CASE backend = "counter" /\ RefreshWall
    <2>1. PICK h \in Nat : CP!BeforeRead(n, h)
        BY <1>4 DEF RefreshWall, Timed
    <2>2. ReadWall /\ call_wall' = call_wall /\ pc' = "sampled"
        BY <1>4 DEF RefreshWall, call_vars
    <2>3. CP!Sampled(n, h, 0)'
        BY <1>0, <1>4, <2>1, <2>2, ClockReady, SameClock, CP!SampledStart, ClockIsGiven
        DEF ClockGiven
    <2> QED BY <1>1, <2>2, <2>3 DEF Timed
<1>5. CASE backend = "counter" /\ RefreshAfter
    <2>1. PICK h \in Nat, k \in Nat : CP!Sampled(n, h, k)
        BY <1>5 DEF RefreshAfter, Timed
    <2>2. /\ ReadCounterAfter /\ pc' = "idle"
          /\ UseSample(MsOf(sample), sample % NANOS_PER_MS)
        BY <1>5 DEF RefreshAfter
    <2>3. PICK g \in Int : CP!Dated(n, k, g, 0)'
        BY <1>0, <1>5, <2>1, <2>2, ClockReady, SameClock, CP!RefreshDates, ClockIsGiven
        DEF ClockGiven, Timed, WithinHalfRange
    <2>4. last_ms' >= MsOf(sample)
        BY <2>2, SampleMs, CallMovesOn
    <2>5. MsOf(sample)' = MsOf(sample)
        BY <2>2 DEF ReadCounterAfter, refresh_vars, MsOf
    <2> QED BY <1>1, <2>2, <2>3, <2>4, <2>5 DEF Timed
<1> QED
    BY <1>2, <1>3, <1>4, <1>5

\* A step of time takes the count since the last refresh on.
LEMMA DatedOn ==
    ASSUME CP!ClockOK, CP!Elapse, UNCHANGED <<CP!clock_vars, CP!refresh_vars>>,
           NEW n \in Nat, NEW k \in Nat, NEW g \in Int, CP!Dated(n, k, g, 0),
           NEW i \in Int, i = g + ElapseTicks
    PROVE  CP!Dated(n + 1, k + 1, i, 0)'
<1>0. /\ ElapseTicks \in Nat \ {0} /\ ElapseNanos \in Nat \ {0} /\ CP!Interval \in Nat
      /\ next_deadline \in Int /\ wall \in Nat /\ sample \in Nat
    BY CP!ClockFacts, ClockIsGiven DEF ClockGiven
<1>1. /\ wall' = wall + ElapseNanos /\ tsc' = CP!wrapping_add(tsc, ElapseTicks)
      /\ UNCHANGED <<sample, next_deadline>> /\ CP!Interval' = CP!Interval
    BY DEF CP!Elapse, CP!clock_vars, CP!refresh_vars, CP!Interval
<1>2. PICK x \in Nat, y \in Nat, z \in Nat :
          /\ x = k * ElapseNanos /\ (k + 1) * ElapseNanos = x + ElapseNanos
          /\ y = k * ElapseTicks /\ (k + 1) * ElapseTicks = y + ElapseTicks
          /\ z = n * ElapseTicks /\ (n + 1) * ElapseTicks = z + ElapseTicks
    BY <1>0
<1>3. wall + ElapseNanos = sample + (x + ElapseNanos)
    BY <1>0, <1>2 DEF CP!Dated
<1>4. CP!wrapping_add(tsc, ElapseTicks) = CP!wrapping_add(next_deadline, i)
    BY <1>0, CP!WrapTwice, ClockIsGiven DEF CP!Dated, ClockGiven
<1>5. /\ i <= z + ElapseTicks
      /\ y + ElapseTicks <= 2 * (i + 0 + CP!Interval)
    BY <1>0, <1>2 DEF CP!Dated
<1> QED
    BY <1>1, <1>2, <1>3, <1>4, <1>5 DEF CP!Dated

\* A step of time goes on whatever count is under way.
LEMMA ElapseTimed ==
    ASSUME ClockedInv, ModeInv, NEW n \in Nat, Timed(n), TimePasses
    PROVE  Timed(n + 1)'
<1>0. /\ CP!Elapse
      /\ UNCHANGED <<CP!clock_vars, CP!refresh_vars>>
      /\ UNCHANGED <<CP!refresh_vars, call_wall>>
      /\ UNCHANGED <<pc, backend, before, sample, last_ms>>
    BY SameClock DEF TimePasses, state_vars, clock_vars, CP!clock_vars, refresh_vars,
        CP!refresh_vars
<1>1. CP!Ran(n + 1)'
    BY <1>0, CP!RanElapse, ClockIsGiven DEF ClockGiven, Timed
<1>2. CASE backend # "counter" \/ pc \in Calibrating
    BY <1>0, <1>1, <1>2 DEF Timed, ModeInv, Calibrating
<1>3. ASSUME backend = "counter", pc \notin Calibrating
      PROVE  Timed(n + 1)'
    <2>0. CP!ClockOK /\ ElapseTicks \in Nat
        BY <1>3, ClockReady, ClockAssumption
    <2>1. pc' = "before" => \E h \in Nat : CP!BeforeRead(n + 1, h)'
        <3> SUFFICES ASSUME NEW h \in Nat, CP!BeforeRead(n, h)
                     PROVE  \E i \in Nat : CP!BeforeRead(n + 1, i)'
            BY <1>0, <1>3 DEF Timed
        <3>1. CP!BeforeRead(n + 1, h + 1)' /\ h + 1 \in Nat
            BY <1>0, <2>0, CP!BeforeReadElapse, ClockIsGiven DEF ClockGiven
        <3> QED BY <3>1
    <2>2. pc' = "sampled" => \E h, k \in Nat : CP!Sampled(n + 1, h, k)'
        <3> SUFFICES ASSUME NEW h \in Nat, NEW k \in Nat, CP!Sampled(n, h, k)
                     PROVE  \E i, j \in Nat : CP!Sampled(n + 1, i, j)'
            BY <1>0, <1>3 DEF Timed
        <3>1. CP!Sampled(n + 1, h + 1, k + 1)' /\ h + 1 \in Nat /\ k + 1 \in Nat
            BY <1>0, <2>0, CP!SampledElapse, ClockIsGiven DEF ClockGiven
        <3> QED BY <3>1
    <2>3. pc' \in {"idle", "due", "estimate"} /\ last_ms' # 0 =>
              \E k \in Nat, g \in Int :
                  CP!Dated(n + 1, k, g, 0)' /\ last_ms' >= MsOf(sample)'
        <3> SUFFICES ASSUME NEW k \in Nat, NEW g \in Int, CP!Dated(n, k, g, 0),
                            last_ms >= MsOf(sample)
                     PROVE  \E j \in Nat, i \in Int :
                                CP!Dated(n + 1, j, i, 0)' /\ last_ms' >= MsOf(sample)'
            BY <1>0, <1>3 DEF Timed
        <3>0. PICK i \in Int : i = g + ElapseTicks
            BY <2>0
        <3>1. CP!Dated(n + 1, k + 1, i, 0)'
            BY <1>0, <2>0, <3>0, DatedOn
        <3>2. last_ms' >= MsOf(sample)'
            BY <1>0 DEF MsOf
        <3> QED BY <3>1, <3>2
    <2> QED BY <1>1, <2>1, <2>2, <2>3 DEF Timed
<1> QED
    BY <1>2, <1>3

\* Every step keeps some count of the clock.
LEMMA LagInvStep ==
    ASSUME WithinHalfRange, ClockedInv, LagInv, [Next]_vars
    PROVE  LagInv'
<1>0. PICK n \in Nat : Timed(n)
    BY DEF LagInv
<1>1. ModeInv /\ ModeInv'
    BY ModeStep DEF LagInv
<1>2. CASE Calibrate
    <2>1. /\ UNCHANGED <<time_vars, last_ms>> /\ last_ms = 0
          /\ pc' \in Calibrating \cup {"idle"}
        BY <1>1, <1>2 DEF Calibrate, Declare, StartMeasuring, ReadStartTsc, ReadEndTsc,
            EndMeasuring, ThreadUnchanged, state_vars, Calibrating, ModeInv
    <2>2. Timed(n)'
        BY <1>0, <2>1, RanKept DEF Timed, Calibrating
    <2> QED BY <1>1, <2>2 DEF LagInv
<1>3. CASE \/ \E k \in {"random", "count"} : CallOnCachedMs(k)
           \/ CallEstimating
           \/ Estimate
           \/ \E k \in {"random", "sub_ms", "count"} : CallRefreshing(k)
    BY <1>0, <1>1, <1>3, CachedTimed DEF LagInv
<1>4. CASE RefreshBefore \/ RefreshWall \/ RefreshAfter
    BY <1>0, <1>1, <1>4, RefreshTimed DEF LagInv
<1>5. CASE TimePasses
    <2>1. Timed(n + 1)' /\ n + 1 \in Nat
        BY <1>0, <1>1, <1>5, ElapseTimed
    <2> QED BY <1>1, <2>1 DEF LagInv
<1>6. CASE UNCHANGED vars
    <2>1. UNCHANGED <<wall, tsc, next_deadline, before, sample, ticks_per_ms,
                      last_ms, pc, backend, call_wall>>
        BY <1>6 DEF vars, time_vars, clock_vars, refresh_vars, state_vars, call_vars
    <2>2. Timed(n)'
        BY <1>0, <2>1 DEF Timed, CP!Ran, CP!BeforeRead, CP!Sampled, CP!Dated, CP!Interval,
            MsOf
    <2> QED BY <1>1, <2>2 DEF LagInv
<1> QED
    BY <1>2, <1>3, <1>4, <1>5, <1>6 DEF Next

\* Nothing is counted before the first refresh.
LEMMA LagInvInit ==
    ASSUME Init
    PROVE  LagInv
<1>1. /\ wall \in WallStarts /\ last_ms = 0
      /\ \/ backend = "counter" /\ pc = "new"
         \/ backend = "system" /\ pc = "idle"
    BY DEF Init, ClockInit, T!Init
<1>2. wall = wall + 0 * ElapseNanos
    BY <1>1, ClockAssumption
<1>3. Timed(0)
    BY <1>1, <1>2 DEF Timed, CP!Ran
<1>4. ModeInv
    BY <1>1 DEF ModeInv, Calibrating
<1> QED
    BY <1>3, <1>4 DEF LagInv

\* The oldest millisecond the call in progress, or the last one, may be given.
Oldest == MsOf(IF backend = "system" THEN call_wall ELSE call_wall - ReuseNanos)

\* The bound on the lag, from when a call on a counter finds the deadline ahead.
NearCall == pc \in {"idle", "estimate"} /\ last_ms # 0 => last_ms >= Oldest

\* The reuse a rate makes for is a number of nanoseconds.
LEMMA ReuseIsNat ==
    ASSUME ClockedInv
    PROVE  ReuseNanos \in Nat
<1>1. ticks_per_ms \in Nat
    BY InvParts DEF TimeOK
<1> QED
    BY <1>1, SameClock, CP!ReuseCovers, ClockIsGiven DEF ClockGiven

\* A later clock or more reuse only lowers the bound.
LEMMA OldestBelow ==
    ASSUME NEW a \in Nat, NEW b \in Nat, a <= b, NEW r \in Nat
    PROVE  /\ MsOf(a) <= MsOf(b) /\ MsOf(a - r) <= MsOf(b)
           /\ MsOf(a) \in Int /\ MsOf(a - r) \in Int
<1>1. NANOS_PER_MS \in Nat \ {0}
    BY ArithAssumption
<1>2. PICK x \in Int : x = a - r /\ x <= b
    OBVIOUS
<1>3. x \div NANOS_PER_MS <= b \div NANOS_PER_MS
    BY <1>1, <1>2, DivMonotone
<1>4. a \div NANOS_PER_MS <= b \div NANOS_PER_MS
    BY <1>1, DivMonotone
<1>5. x \div NANOS_PER_MS \in Int /\ a \div NANOS_PER_MS \in Int
    BY <1>1, SplitInt
<1> QED
    BY <1>2, <1>3, <1>4, <1>5 DEF MsOf

\* A call that finds the deadline ahead has a millisecond recent enough.
LEMMA CachedNearCall ==
    ASSUME WithinHalfRange, ClockedInv, LagInv, pc = "idle", ~refresh_due
    PROVE  last_ms >= MsOf(wall - ReuseNanos) /\ backend = "counter"
<1>1. PICK n \in Nat : Timed(n)
    BY DEF LagInv
<1>2. backend = "counter" /\ last_ms # 0 /\ ~should_refresh
    BY DEF refresh_due, ClockedInv, TypeOK
<1>3. (\E k \in Nat, g \in Int : CP!Dated(n, k, g, 0)) /\ last_ms >= MsOf(sample)
    BY <1>1, <1>2 DEF Timed
<1>4. CP!ClockOK /\ CP!Ran(n) /\ CP!WithinHalfRange /\ ~CP!should_refresh
    BY <1>1, <1>2, ClockReady, SameClock DEF LagInv, Calibrating, Timed, WithinHalfRange
<1>5. CP!MsOf(wall - CP!ReuseNanos) <= CP!MsOf(sample)
    BY <1>3, <1>4, CP!CachedUnfallen, ClockIsGiven DEF ClockGiven
<1>6. MsOf(wall - ReuseNanos) <= MsOf(sample)
    BY <1>5, SameClock
<1>7. MsOf(wall - ReuseNanos) \in Int /\ MsOf(sample) \in Int /\ last_ms \in Nat
    <2>1. wall \in Nat
        BY ClockAssumption, InvParts DEF TimeOK
    <2>2. wall <= wall /\ ReuseNanos \in Nat
        BY <2>1, ReuseIsNat
    <2>3. MsOf(wall - ReuseNanos) \in Int
        BY <2>1, <2>2, OldestBelow
    <2> QED BY <2>3, SampleMs, CallMovesOn
<1> QED
    BY <1>2, <1>3, <1>6, <1>7

\* No step makes an id older than its call by more than its bound.
LEMMA NearCallStep ==
    ASSUME WithinHalfRange, ClockedInv, LagInv, NearCall, [Next]_vars
    PROVE  NearCall'
<1>0. /\ last_ms \in Nat /\ wall \in Nat /\ sample \in Nat /\ call_wall \in Nat
      /\ ReuseNanos \in Nat
    BY CallMovesOn, ReuseIsNat, InvParts, ClockAssumption DEF TimeOK, CallOK
<1>1. CASE Calibrate
    <2>1. last_ms' = 0 \/ pc' \notin {"idle", "estimate"}
        BY <1>1 DEF Calibrate, Declare, StartMeasuring, ReadStartTsc, ReadEndTsc,
            EndMeasuring, ThreadUnchanged, state_vars, LagInv, ModeInv, Calibrating
    <2> QED BY <2>1 DEF NearCall
<1>2. ASSUME (\E k \in {"random", "count"} : CallOnCachedMs(k)) \/ CallEstimating
      PROVE  NearCall'
    <2>1. /\ pc = "idle" /\ ~refresh_due /\ call_wall' = wall
          /\ UNCHANGED <<backend, ticks_per_ms>>
        BY <1>2 DEF CallOnCachedMs, CallEstimating, StartCall, clock_vars
    <2>2. last_ms >= MsOf(wall - ReuseNanos) /\ backend = "counter"
        BY <2>1, CachedNearCall
    <2>3. last_ms' \in Nat /\ last_ms' >= last_ms
        BY <1>0, <1>2, CallMovesOn DEF CallOnCachedMs, CallEstimating, state_vars
    <2>4. MsOf(wall - ReuseNanos) \in Int
        <3>1. wall <= wall
            BY <1>0
        <3> QED BY <1>0, <3>1, OldestBelow
    <2>5. last_ms' >= MsOf(wall - ReuseNanos)
        BY <1>0, <2>2, <2>3, <2>4
    <2>6. Oldest' = MsOf(wall - ReuseNanos)
        BY <2>1, <2>2 DEF Oldest, ReuseNanos, MsOf
    <2> QED BY <2>5, <2>6 DEF NearCall
<1>3. CASE \/ \E k \in {"random", "sub_ms", "count"} : CallRefreshing(k)
           \/ RefreshBefore \/ RefreshWall
    <2>1. pc' \notin {"idle", "estimate"}
        BY <1>3 DEF CallRefreshing, RefreshBefore, RefreshWall
    <2> QED BY <2>1 DEF NearCall
<1>4. CASE RefreshAfter
    <2>1. /\ pc = "sampled" /\ UNCHANGED <<call_wall, ticks_per_ms, backend>>
          /\ UseSample(MsOf(sample), sample % NANOS_PER_MS)
        BY <1>4 DEF RefreshAfter, ReadCounterAfter, record_sample, system_record_sample,
            clock_vars
    <2>2. call_wall <= sample
        BY <2>1, InvParts DEF LagInv, ModeInv, Timed, CP!Sampled, CallOK
    <2>3. last_ms' \in Nat /\ last_ms' >= MsOf(sample) /\ MsOf(sample) \in Nat
        BY <2>1, CallMovesOn, SampleMs
    <2>4. /\ MsOf(call_wall) <= MsOf(sample) /\ MsOf(call_wall - ReuseNanos) <= MsOf(sample)
          /\ MsOf(call_wall) \in Int /\ MsOf(call_wall - ReuseNanos) \in Int
        BY <1>0, <2>2, OldestBelow
    <2>5. last_ms' >= MsOf(call_wall) /\ last_ms' >= MsOf(call_wall - ReuseNanos)
        BY <2>3, <2>4
    <2>6. Oldest' = Oldest
        BY <2>1 DEF Oldest, ReuseNanos, MsOf
    <2> QED BY <2>5, <2>6 DEF NearCall, Oldest
<1>5. CASE Estimate \/ TimePasses \/ UNCHANGED vars
    <2>1. /\ UNCHANGED <<call_wall, ticks_per_ms, backend>>
          /\ pc' \in {"idle", "estimate"} => pc \in {"idle", "estimate"}
        BY <1>5 DEF Estimate, TimePasses, vars, clock_vars, call_vars
    <2>2. last_ms' = last_ms
        <3>1. CASE Estimate
            <4>1. last_ms > last_ms \/ last_ms' = last_ms
                BY <3>1 DEF Estimate, T!record_time_sample, T!record_later_sample
            <4> QED BY <1>0, <4>1
        <3>2. CASE TimePasses \/ UNCHANGED vars
            BY <3>2 DEF TimePasses, vars, state_vars
        <3> QED BY <1>5, <3>1, <3>2
    <2>3. Oldest' = Oldest
        BY <2>1 DEF Oldest, ReuseNanos, MsOf
    <2> QED BY <2>1, <2>2, <2>3 DEF NearCall
<1> QED
    BY <1>1, <1>2, <1>3, <1>4, <1>5 DEF Next

-----------------------------------------------------------------------------
(* The budget *)

\* The caller keeps to the counter ids a millisecond has room for.
WithinBudget == IdsPerMs <= COUNTER_MAX - COUNTER_SEED_MASK

\* The thread's millisecond, when it is the wall clock's, was taken within it,
\* with a fresh seed: the counter has moved by the counter ids of this
\* millisecond at most.  Before the first call both are 0.
BudgetInv ==
    /\ last_ms <= MsOf(wall)
    /\ last_ms = MsOf(wall) => counter <= COUNTER_SEED_MASK + ids_in_ms

\* A fresh seed is in the budget whatever was counted, and what was in it stays.
LEMMA SeedInBudget ==
    ASSUME NEW mask \in Nat, NEW seed \in 0 .. mask, NEW ids \in Nat
    PROVE  seed <= mask + ids
OBVIOUS

\* What was in the budget stays in it as more is counted.
LEMMA StaysInBudget ==
    ASSUME NEW mask \in Nat, NEW c \in Nat, NEW ids \in Nat, NEW more \in Nat,
           c <= mask + ids, ids <= more
    PROVE  c <= mask + more
OBVIOUS

\* What a call takes or counts within the budget needs no millisecond the wall
\* clock has not reached.
LEMMA BudgetCall ==
    ASSUME WithinBudget, ClockedInv, BudgetInv, UNCHANGED wall, ids_in_ms' \in Nat,
           \/ CounterTurn /\ ids_in_ms < IdsPerMs /\ ids_in_ms' = ids_in_ms + 1
           \/ /\ ids_in_ms' >= ids_in_ms
              /\ \E ms \in 0 .. MsOf(wall), nanos \in 0 .. NANOS_PER_MS - 1 :
                     T!record_time_sample(ms, nanos, TRUE)
           \/ ids_in_ms' = ids_in_ms /\ UNCHANGED <<last_ms, counter>>
    PROVE  BudgetInv'
<1>1. /\ last_ms \in Nat /\ counter \in Nat /\ ids_in_ms \in Nat
      /\ COUNTER_MAX \in Nat /\ COUNTER_SEED_MASK \in Nat /\ IdsPerMs \in Nat
      /\ MaxMs \in Nat
    BY ClockedThreadAssumption DEF ClockedInv, TypeOK, T!TypeOK
<1>2. PICK now \in Nat : now = MsOf(wall) /\ now = MsOf(wall)'
    <2>1. MsOf(wall) \in Nat
        BY ReadingRange, InvParts, ClockedThreadAssumption DEF TimeOK
    <2> QED BY <2>1 DEF MsOf
<1>3. /\ last_ms <= now
      /\ last_ms = now => counter <= COUNTER_SEED_MASK + ids_in_ms
    BY <1>2 DEF BudgetInv
<1>4. ASSUME NEW ms \in 0 .. now, NEW nanos \in 0 .. NANOS_PER_MS - 1,
             ids_in_ms' >= ids_in_ms, T!record_time_sample(ms, nanos, TRUE)
      PROVE  /\ last_ms' <= now
             /\ last_ms' = now => counter' <= COUNTER_SEED_MASK + ids_in_ms'
    <2>1. CASE T!record_later_sample(ms, nanos, TRUE)
        <3>1. last_ms' = ms /\ counter' \in 0 .. COUNTER_SEED_MASK
            BY <2>1 DEF T!record_later_sample, T!seed_counter
        <3>2. counter' <= COUNTER_SEED_MASK + ids_in_ms'
            BY <1>1, <3>1, SeedInBudget
        <3>3. last_ms' <= now
            BY <3>1
        <3> QED BY <3>2, <3>3
    <2>2. CASE UNCHANGED <<last_ms, counter>>
        <3>1. PICK i \in Nat : i = ids_in_ms' /\ ids_in_ms <= i
            BY <1>1, <1>4
        <3>2. last_ms = now => counter <= COUNTER_SEED_MASK + i
            BY <1>1, <1>3, <3>1, StaysInBudget
        <3>3. last_ms' = last_ms /\ counter' = counter
            BY <2>2
        <3>4. last_ms' <= now
            BY <1>3, <3>3
        <3>5. last_ms' = now => counter' <= COUNTER_SEED_MASK + ids_in_ms'
            BY <3>1, <3>2, <3>3
        <3> QED BY <3>4, <3>5
    <2> QED BY <1>4, <2>1, <2>2 DEF T!record_time_sample
<1>5. ASSUME CounterTurn, ids_in_ms < IdsPerMs, ids_in_ms' = ids_in_ms + 1
      PROVE  /\ last_ms' <= now
             /\ last_ms' = now => counter' <= COUNTER_SEED_MASK + ids_in_ms'
    <2>1. ASSUME T!counter_exhausted, NEW c \in T!seed_counter, T!RollOver(last_ms + 1, c)
          PROVE  /\ last_ms' <= now
                 /\ last_ms' = now => counter' <= COUNTER_SEED_MASK + ids_in_ms'
        <3>1. counter >= COUNTER_MAX
            BY <2>1 DEF T!counter_exhausted
        <3>2. last_ms + 1 <= now
            BY <1>1, <1>3, <1>5, <3>1 DEF WithinBudget
        <3>3. last_ms' = last_ms + 1 /\ counter' \in 0 .. COUNTER_SEED_MASK
            BY <2>1 DEF T!RollOver, T!seed_counter
        <3>4. counter' <= COUNTER_SEED_MASK + ids_in_ms'
            BY <1>1, <3>3, SeedInBudget
        <3> QED BY <3>2, <3>3, <3>4
    <2>2. ASSUME counter' = counter + 1, last_ms' = last_ms
          PROVE  /\ last_ms' <= now
                 /\ last_ms' = now => counter' <= COUNTER_SEED_MASK + ids_in_ms'
        BY <1>1, <1>3, <1>5, <2>2
    <2> QED BY <1>5, <2>1, <2>2 DEF CounterTurn
<1>6. last_ms' <= now /\ (last_ms' = now => counter' <= COUNTER_SEED_MASK + ids_in_ms')
    BY <1>2, <1>3, <1>4, <1>5
<1> QED
    BY <1>2, <1>6 DEF BudgetInv

\* Time only makes room in the budget.
LEMMA BudgetStep ==
    ASSUME WithinBudget, ClockedInv, BudgetInv, [Next]_vars
    PROVE  BudgetInv'
<1>0. /\ wall \in Nat /\ sample \in 0 .. wall /\ NANOS_PER_MS \in Nat \ {0}
      /\ last_ms \in Nat /\ ids_in_ms \in Nat
    BY ArithAssumption, ClockAssumption, ClockedThreadAssumption, InvParts, CallMovesOn
    DEF TimeOK, CallOK
<1>1. ASSUME NEW k, CallOnCachedMs(k)
      PROVE  BudgetInv'
    <2>1. UNCHANGED wall
        BY <1>1 DEF CallOnCachedMs, time_vars
    <2>2. CASE k = "count"
        <3>1. /\ CounterTurn /\ ids_in_ms < IdsPerMs /\ ids_in_ms' = ids_in_ms + 1
              /\ ids_in_ms' \in Nat
            BY <1>0, <1>1, <2>2 DEF CallOnCachedMs, StartCall
        <3> QED BY <2>1, <3>1, BudgetCall
    <2>3. CASE k # "count"
        <3>1. UNCHANGED <<last_ms, counter, ids_in_ms>>
            BY <1>1, <2>3 DEF CallOnCachedMs, state_vars
        <3> QED BY <1>0, <2>1, <3>1, BudgetCall
    <2> QED BY <2>2, <2>3
<1>2. CASE RefreshAfter
    <2>1. UNCHANGED wall /\ UseSample(MsOf(sample), sample % NANOS_PER_MS)
        BY <1>2 DEF RefreshAfter, ReadCounterAfter, system_record_sample, time_vars
    <2>2. MsOf(sample) \in 0 .. MsOf(wall)
        <3>1. sample \div NANOS_PER_MS <= wall \div NANOS_PER_MS
            BY <1>0, DivMonotone
        <3>2. sample \div NANOS_PER_MS \in Nat /\ wall \div NANOS_PER_MS \in Nat
            BY <1>0, DivMod
        <3> QED BY <3>1, <3>2 DEF MsOf
    <2>3. ids_in_ms' \in Nat /\ ids_in_ms' >= ids_in_ms
        BY <1>0, <1>2 DEF RefreshAfter
    <2>4. CASE T!record_time_sample(MsOf(sample), sample % NANOS_PER_MS, TRUE)
        BY <2>1, <2>2, <2>3, <2>4, SampleMs, BudgetCall
    <2>5. CASE CounterTurn /\ kind = "count"
        <3>1. ids_in_ms < IdsPerMs /\ ids_in_ms' = ids_in_ms + 1
            BY <1>2, <2>5 DEF RefreshAfter, ClockedInv
        <3> QED BY <2>1, <2>3, <2>5, <3>1, BudgetCall
    <2> QED BY <2>1, <2>4, <2>5 DEF UseSample
<1>3. CASE TimePasses
    <2>1. PICK a \in Nat, b \in Nat : a = wall /\ b = wall' /\ a <= b
        <3>1. wall' = wall + ElapseNanos /\ ElapseNanos \in Nat
            BY <1>3, ClockAssumption DEF TimePasses, Elapse
        <3> QED BY <1>0, <3>1
    <2>2. PICK now \in Nat, next \in Nat :
              now = wall \div NANOS_PER_MS /\ next = wall' \div NANOS_PER_MS /\ now <= next
        <3>1. a \div NANOS_PER_MS \in Nat /\ b \div NANOS_PER_MS \in Nat
            BY <1>0, DivMod
        <3>2. a \div NANOS_PER_MS <= b \div NANOS_PER_MS
            <4>1. a \in Int /\ b \in Int /\ a <= b /\ NANOS_PER_MS \in Nat \ {0}
                BY <1>0, <2>1
            <4> QED BY <4>1, DivMonotone
        <3> QED BY <2>1, <3>1, <3>2
    <2>3. /\ last_ms' = last_ms /\ counter' = counter
          /\ next = now => ids_in_ms' = ids_in_ms
        BY <1>3, <2>2 DEF TimePasses, state_vars, MsOf
    <2> QED BY <1>0, <2>2, <2>3 DEF BudgetInv, MsOf
<1>4. CASE Estimate
    <2>1. UNCHANGED <<wall, ids_in_ms, last_ms, counter>>
        <3>1. \/ last_ms > last_ms
              \/ UNCHANGED <<last_ms, counter>>
            BY <1>4 DEF Estimate, T!record_time_sample, T!record_later_sample
        <3> QED BY <1>0, <1>4, <3>1 DEF Estimate, time_vars, call_vars
    <2> QED BY <2>1 DEF BudgetInv, MsOf
<1>5. CASE \/ Calibrate \/ CallEstimating
           \/ \E k \in {"random", "sub_ms", "count"} : CallRefreshing(k)
           \/ RefreshBefore \/ RefreshWall \/ UNCHANGED vars
    <2>1. UNCHANGED <<wall, last_ms, counter, ids_in_ms>>
        BY <1>5 DEF Calibrate, Declare, StartMeasuring, ReadStartTsc, ReadEndTsc,
            EndMeasuring, ThreadUnchanged, CallEstimating, CallRefreshing, RefreshBefore,
            ReadCounterBefore, RefreshWall, ReadWall, vars, time_vars, state_vars, call_vars
    <2> QED BY <2>1 DEF BudgetInv, MsOf
<1> QED
    BY <1>1, <1>2, <1>3, <1>4, <1>5 DEF Next

\* Nothing has been counted before the first call.
LEMMA BudgetInit ==
    ASSUME Init
    PROVE  BudgetInv
<1>1. last_ms = 0 /\ counter = 0 /\ ids_in_ms = 0 /\ wall \in Nat
    BY ClockAssumption DEF Init, ClockInit, T!Init
<1>2. MsOf(wall) \in Nat /\ COUNTER_SEED_MASK \in Nat
    <2>1. NANOS_PER_MS \in Nat \ {0} /\ COUNTER_SEED_MASK \in Nat
        BY ArithAssumption, ClockedThreadAssumption
    <2> QED BY <1>1, <2>1, DivMod DEF MsOf
<1> QED
    BY <1>1, <1>2 DEF BudgetInv

\* No id of a thread is older than its call by more than the refresh interval,
\* in proportion longer with a rate that is too fast, and none at all without a
\* counter; nor is it ahead of the wall clock while the caller keeps to its
\* budget: wherever calls are preempted, and whatever functions take turns.
THEOREM TimestampTheorem ==
    ASSUME WithinHalfRange, WithinBudget
    PROVE  Spec => []TimestampWithinRefreshInterval
<1>1. Init => LagInv /\ NearCall /\ BudgetInv
    <2> SUFFICES ASSUME Init PROVE LagInv /\ NearCall /\ BudgetInv
        OBVIOUS
    <2>1. last_ms = 0
        BY DEF Init, T!Init
    <2> QED BY <2>1, LagInvInit, BudgetInit DEF NearCall
<1>2. ClockedInv /\ LagInv /\ NearCall /\ BudgetInv /\ [Next]_vars
      => LagInv' /\ NearCall' /\ BudgetInv'
    BY LagInvStep, NearCallStep, BudgetStep
<1>3. NearCall /\ BudgetInv => TimestampWithinRefreshInterval
    BY DEF NearCall, BudgetInv, Oldest, TimestampWithinRefreshInterval, Returned
<1> QED
    BY <1>1, <1>2, <1>3, ClockedInvariant, PTL DEF Spec

-----------------------------------------------------------------------------
(* The fraction *)

\* The window of slots that a fraction stands for holds the nanosecond it was
\* taken from: the product keeps to its 32 bits.
LEMMA WindowHolds ==
    ASSUME NEW slots \in SubMsSlots, NEW nanos \in 0 .. NANOS_PER_MS - 1
    PROVE  LET f == sub_ms_fraction(nanos, slots)
           IN  /\ (f * NANOS_PER_MS) \div slots \in Int
               /\ ((f + 1) * NANOS_PER_MS - 1) \div slots \in Int
               /\ (f * NANOS_PER_MS) \div slots <= nanos
               /\ nanos <= ((f + 1) * NANOS_PER_MS - 1) \div slots
<1>1. PICK n \in Nat \ {0}, w \in Nat \ {0}, u \in Nat \ {0} :
          /\ n = NANOS_PER_MS /\ w = slots /\ u = U32 /\ n * w <= u
    BY ArithAssumption, ClockedThreadAssumption
<1>2. PICK x \in Nat : x = nanos * w /\ x < n * w
    <2>1. nanos \in Nat /\ ~(n <= nanos)
        BY <1>1
    <2>2. ~(n * w <= nanos * w)
        BY <1>1, <2>1, TimesOrder
    <2>3. nanos * w \in Nat /\ n * w \in Nat
        BY <2>1
    <2> QED BY <2>2, <2>3
<1>3. PICK f \in Nat, r \in 0 .. n - 1 : f = x \div n /\ x = f * n + r
    BY DivMod
<1>4. sub_ms_fraction(nanos, slots) = f
    <2>1. Least(nanos, n - 1) = nanos
        BY <1>1 DEF Least
    <2>2. x \in 0 .. u - 1
        <3>1. n * w \in Nat
            OBVIOUS
        <3> QED BY <1>1, <1>2, <3>1
    <2>3. x % u = x
        BY <2>2, ModOfSmall
    <2> QED BY <1>1, <1>2, <1>3, <2>1, <2>3 DEF sub_ms_fraction
<1>5. PICK a \in Int, b \in Int :
          a = f * n /\ b = (f + 1) * n - 1 /\ a <= x /\ x <= b
    <2>1. PICK c \in Nat : c = f * n /\ (f + 1) * n = c + n
        OBVIOUS
    <2>2. c <= x /\ x <= c + n - 1 /\ c \in Int /\ c + n - 1 \in Int
        BY <1>3, <2>1
    <2> QED BY <2>1, <2>2
<1>6. a \div w <= x \div w /\ x \div w <= b \div w
    <2>1. x \in Int
        OBVIOUS
    <2> QED BY <1>5, <2>1, DivMonotone
<1>7. x \div w = nanos
    <2>1. nanos \in Nat /\ 0 \in 0 .. w - 1
        BY <1>1
    <2>2. Pack(nanos, w, 0) \div w = nanos
        BY <2>1, DivUnique
    <2>3. Pack(nanos, w, 0) = x
        BY <1>2, <2>1 DEF Pack
    <2> QED BY <2>2, <2>3
<1>8. a \div w \in Int /\ b \div w \in Int
    BY SplitInt
<1> QED
    BY <1>1, <1>4, <1>5, <1>6, <1>7, <1>8

\* A whole number of divisors that fits is in the quotient.
LEMMA DivAtLeast ==
    ASSUME NEW m \in Nat \ {0}, NEW a \in Nat, NEW q \in Int, q * m <= a
    PROVE  q <= a \div m
<1>1. PICK p \in Nat, r \in 0 .. m - 1 : p = a \div m /\ a = p * m + r
    BY DivMod
<1>2. SUFFICES ASSUME p + 1 <= q PROVE FALSE
    BY <1>1
<1>3. (p + 1) * m <= q * m
    <2>1. p + 1 \in Int
        OBVIOUS
    <2> QED BY <1>2, <2>1, TimesOrder
<1>4. (p + 1) * m = p * m + m /\ p * m \in Int /\ q * m \in Int
    OBVIOUS
<1> QED
    BY <1>1, <1>3, <1>4

\* What an estimate has gained on its sample when the deadline is e ticks or
\* more away from it is what has passed since, but for the reuse: a rate too
\* fast costs it no more than it costs the deadline.
LEMMA EstimateKeepsUp ==
    ASSUME NEW n \in Nat \ {0}, NEW en \in Nat \ {0}, NEW et \in Nat \ {0},
           NEW rate \in Nat \ {0}, NEW m \in Nat,
           NEW e \in Nat, n * e < rate * m,
           NEW k \in Nat, k * et <= 2 * e,
           NEW reuse \in Nat, (2 * m) * (rate * en) <= (reuse + m) * (n * et)
    PROVE  k * en - reuse <= (n * e) \div rate
<1>1. PICK p \in Nat \ {0}, y \in Nat \ {0}, a \in Nat, z \in Nat :
          p = n * et /\ y = rate * en /\ a = n * e /\ z = rate * m
    OBVIOUS
<1>2. PICK x \in Int : x = k * en - reuse
    OBVIOUS
<1>3. ((k * en) * rate) * p <= 2 * (a * y)
    <2>1. PICK c \in Nat : c = (en * rate) * n
        OBVIOUS
    <2>2. (k * et) * c <= (2 * e) * c
        <3>1. k * et \in Int /\ 2 * e \in Int
            OBVIOUS
        <3> QED BY <3>1, TimesOrder
    <2>3. ((k * en) * rate) * (n * et) = (k * et) * ((en * rate) * n)
        OBVIOUS
    <2>4. (2 * e) * ((en * rate) * n) = 2 * ((n * e) * (rate * en))
        OBVIOUS
    <2> QED BY <1>1, <2>1, <2>2, <2>3, <2>4
<1>4. 2 * (a * y) <= a * p + (reuse * rate) * p
    <2>1. PICK b \in Nat, c \in Nat, d \in Nat :
              b = a * y /\ c = a * p /\ d = (reuse * rate) * p
        OBVIOUS
    <2>2. CASE 2 * y <= p
        <3>1. (2 * y) * a <= p * a
            BY <2>2, TimesOrder
        <3>2. (2 * y) * a = 2 * (a * y) /\ p * a = a * p
            OBVIOUS
        <3> QED BY <2>1, <3>1, <3>2
    <2>3. CASE ~(2 * y <= p)
        <3>1. PICK g \in Nat : 2 * y = p + g
            <4>1. 2 * y - p \in Nat /\ 2 * y = p + (2 * y - p)
                BY <2>3
            <4> QED BY <4>1
        <3>2. a * g <= z * g
            BY <1>1, TimesOrder
        <3>3. PICK s \in Nat, t \in Nat : s = m * g /\ t = reuse * p /\ s <= t
            <4>1. (2 * m) * y = m * p + m * g
                <5>1. (2 * m) * y = m * (2 * y)
                    OBVIOUS
                <5>2. m * (p + g) = m * p + m * g
                    OBVIOUS
                <5> QED BY <3>1, <5>1, <5>2
            <4>2. (reuse + m) * p = reuse * p + m * p
                OBVIOUS
            <4>3. (2 * m) * y <= (reuse + m) * p
                BY <1>1
            <4>4. m * p \in Nat /\ m * g \in Nat /\ reuse * p \in Nat
                OBVIOUS
            <4> QED BY <4>1, <4>2, <4>3, <4>4
        <3>4. s * rate <= t * rate
            BY <3>3, TimesOrder
        <3>5. z * g = s * rate /\ t * rate = d
            <4>1. (rate * m) * g = (m * g) * rate /\ (reuse * p) * rate = (reuse * rate) * p
                OBVIOUS
            <4> QED BY <1>1, <2>1, <3>3, <4>1
        <3>6. 2 * b = c + a * g
            <4>1. 2 * (a * y) = a * (2 * y)
                OBVIOUS
            <4>2. a * (p + g) = a * p + a * g
                OBVIOUS
            <4> QED BY <2>1, <3>1, <4>1, <4>2
        <3>7. PICK h \in Nat, j \in Nat, l \in Nat : h = a * g /\ j = z * g /\ l = s * rate
            OBVIOUS
        <3> QED BY <2>1, <3>2, <3>4, <3>5, <3>6, <3>7
    <2> QED BY <2>2, <2>3
<1>5. (x * rate) * p <= a * p
    <2>1. ((k * en - reuse) * rate) * p = ((k * en) * rate) * p - (reuse * rate) * p
        OBVIOUS
    <2>2. PICK b \in Nat, c \in Nat, d \in Nat, h \in Nat :
              /\ b = a * y /\ c = a * p /\ d = (reuse * rate) * p
              /\ h = ((k * en) * rate) * p
        OBVIOUS
    <2> QED BY <1>2, <1>3, <1>4, <2>1, <2>2
<1>6. x * rate <= a
    <2>1. x * rate \in Int /\ a \in Int
        OBVIOUS
    <2> QED BY <1>5, <2>1, TimesOrder
<1> QED
    BY <1>1, <1>2, <1>6, DivAtLeast

\* An estimate is no later than the ticks since the sample make it, and no
\* earlier than any number of them that does not saturate, up to the end of the
\* millisecond.
LEMMA EstimateBounds ==
    ASSUME NEW rate \in Nat \ {0}, NEW nanos \in 0 .. NANOS_PER_MS - 1,
           NEW t \in Nat, NEW e \in 0 .. t, NANOS_PER_MS * e < U64,
           NEW est, est = estimate_nanos_within_ms_from_ticks(rate, nanos, t)
    PROVE  /\ est \in 0 .. NANOS_PER_MS - 1
           /\ est <= nanos + ((t * NANOS_PER_MS) \div rate)
           /\ est = NANOS_PER_MS - 1 \/ nanos + ((NANOS_PER_MS * e) \div rate) <= est
<1>1. PICK n \in Nat \ {0}, u \in Nat \ {0} :
          n = NANOS_PER_MS /\ u = U64 - 1 /\ n - 1 <= u /\ nanos \in 0 .. n - 1
    BY ArithAssumption
<1>2. PICK x \in Nat, y \in Nat, z \in Nat :
          x = t * n /\ y = n * e /\ y <= x /\ y <= u /\ z = Least(x, u) /\ z <= x /\ y <= z
    <2>1. e \in Nat /\ t * n \in Nat /\ n * e \in Nat
        OBVIOUS
    <2>2. e * n <= t * n /\ n * e = e * n
        BY <2>1, TimesOrder
    <2>3. n * e <= u
        BY <1>1, <2>1, ArithAssumption
    <2> QED BY <1>1, <2>1, <2>2, <2>3 DEF Least
<1>3. PICK q \in Nat, p \in Nat, r \in Nat :
          q = x \div rate /\ p = y \div rate /\ r = z \div rate /\ r <= q /\ p <= r
    <2>1. x \div rate \in Nat /\ y \div rate \in Nat /\ z \div rate \in Nat
        BY DivMod
    <2>2. y \div rate <= z \div rate
        BY <1>2, DivMonotone
    <2>3. z \div rate <= x \div rate
        BY <1>2, DivMonotone
    <2> QED BY <2>1, <2>2, <2>3
<1>4. est = Least(Least(nanos + r, u), n - 1)
    <2>1. Most(rate, 1) = rate
        BY DEF Most
    <2> QED BY <1>1, <1>2, <1>3, <2>1
        DEF estimate_nanos_within_ms_from_ticks, saturating_mul, saturating_add
<1>5. /\ est \in 0 .. n - 1
      /\ est <= nanos + q
      /\ est = n - 1 \/ nanos + p <= est
    BY <1>1, <1>3, <1>4 DEF Least
<1> QED
    BY <1>1, <1>2, <1>3, <1>5

\* A rate that is not too low gains less than the refresh interval in the ticks
\* before a deadline, and no more than passes in those of d steps of time.
LEMMA EstimateAhead ==
    ASSUME NEW n \in Nat \ {0}, NEW en \in Nat \ {0}, NEW et \in Nat \ {0},
           NEW rate \in Nat \ {0}, NEW m \in Nat, NEW e \in Nat, n * e < rate * m,
           n * et <= rate * en, NEW d \in Nat
    PROVE  ((e + d * et) * n) \div rate < m + d * en
<1>1. PICK a \in Int, b \in Int, x \in Int, y \in Int :
          /\ a = n * e /\ b = rate * m /\ a < b
          /\ x = (n * et) * d /\ y = (rate * en) * d /\ x <= y
    <2>1. n * et \in Int /\ rate * en \in Int
        OBVIOUS
    <2>2. (n * et) * d <= (rate * en) * d
        BY <2>1, TimesOrder
    <2>3. (n * et) * d \in Int /\ (rate * en) * d \in Int /\ n * e \in Int /\ rate * m \in Int
        OBVIOUS
    <2> QED BY <2>2, <2>3
<1>2. PICK q \in Int : q = m + d * en - 1
    OBVIOUS
<1>3. PICK t \in Int : t = (e + d * et) * n
    OBVIOUS
<1>4. t = a + x
    <2>1. (e + d * et) * n = n * e + (n * et) * d
        OBVIOUS
    <2> QED BY <1>1, <1>3, <2>1
<1>5. (q + 1) * rate = b + y
    <2>1. (m + d * en) * rate = rate * m + (rate * en) * d
        OBVIOUS
    <2>2. q + 1 = m + d * en
        BY <1>2
    <2> QED BY <1>1, <2>1, <2>2
<1>6. t < (q + 1) * rate
    BY <1>1, <1>4, <1>5
<1>7. t \div rate <= q /\ t \div rate \in Int
    BY <1>6, DivBelow, SplitInt
<1>8. m + d * en \in Int
    OBVIOUS
<1> QED
    BY <1>2, <1>3, <1>7, <1>8

\* The ticks a deadline is set by are fewer, but for one, than the nanoseconds
\* the sample may be reused for are worth, and saturate none of it.
LEMMA IntervalFacts ==
    ASSUME CP!ClockOK
    PROVE  /\ CP!Interval \in Nat \ {0}
           /\ NANOS_PER_MS * CP!Interval < U64
           /\ \E i \in 1 .. MAX_REFRESH_INTERVAL_NANOS :
                  /\ i <= NANOS_PER_MS - (sample % NANOS_PER_MS)
                  /\ NANOS_PER_MS * (CP!Interval - 1) < ticks_per_ms * i
<1>1. /\ ticks_per_ms \in Nat \ {0} /\ CP!Interval \in Nat \ {0}
      /\ sample % NANOS_PER_MS \in 0 .. NANOS_PER_MS - 1
    BY CP!ClockFacts, ClockIsGiven DEF ClockGiven
<1>2. PICK nanos \in 0 .. NANOS_PER_MS - 1 : nanos = sample % NANOS_PER_MS
    BY <1>1
<1>3. /\ CP!nanos_until_next_refresh(nanos) \in 1 .. CP!MAX_REFRESH_INTERVAL_NANOS
      /\ CP!nanos_until_next_refresh(nanos) <= NANOS_PER_MS - nanos
    BY CP!RefreshNanos, ClockIsGiven DEF ClockGiven
<1>4. NANOS_PER_MS * (CP!ticks_until_next_refresh(ticks_per_ms, nanos) - 1)
          < ticks_per_ms * CP!nanos_until_next_refresh(nanos)
    BY <1>1, CP!RefreshTicks, ClockIsGiven DEF ClockGiven
<1>5. CP!Interval = CP!ticks_until_next_refresh(ticks_per_ms, nanos)
    BY <1>2 DEF CP!Interval
<1>6. MAX_REFRESH_INTERVAL_NANOS = CP!MAX_REFRESH_INTERVAL_NANOS
    BY DEF MAX_REFRESH_INTERVAL_NANOS, CP!MAX_REFRESH_INTERVAL_NANOS
<1>7. NANOS_PER_MS * CP!Interval < U64
    <2>1. PICK n \in Nat \ {0}, u \in Nat \ {0} :
              n = NANOS_PER_MS /\ u = U64 /\ 2 * n <= u
        BY ArithAssumption
    <2>2. PICK x \in Int : x = CP!saturating_mul(ticks_per_ms,
                                                  CP!nanos_until_next_refresh(nanos))
                           /\ x >= 0
        <3>1. CP!nanos_until_next_refresh(nanos) \in Nat
            BY <1>3
        <3>2. ticks_per_ms * CP!nanos_until_next_refresh(nanos) \in Nat
            BY <1>1, <3>1
        <3> QED BY <2>1, <3>2 DEF CP!saturating_mul, CP!Least
    <2>3. PICK y \in Nat : y = CP!saturating_add(x, n - 1) /\ y <= u - 1
        BY <2>1, <2>2 DEF CP!saturating_add, CP!Least
    <2>4. PICK q \in Nat, r \in 0 .. n - 1 : q = y \div n /\ y = q * n + r
        BY DivMod
    <2>5. CP!Interval = (IF 1 > q THEN 1 ELSE q)
        BY <1>5, <2>1, <2>2, <2>3, <2>4 DEF CP!ticks_until_next_refresh, CP!Most
    <2>6. n * q < u /\ n * 1 < u
        <3>1. n * q = q * n /\ q * n \in Nat
            OBVIOUS
        <3> QED BY <2>1, <2>3, <2>4, <3>1
    <2> QED BY <2>1, <2>5, <2>6
<1> QED
    BY <1>1, <1>2, <1>3, <1>4, <1>5, <1>6, <1>7

-----------------------------------------------------------------------------
(* The bounds of a thread's time *)

\* The time the thread's fields stand for, and the time estimates start from.
Reading == last_ms * NANOS_PER_MS + last_nanos_within_ms
SampleReading == last_ms * NANOS_PER_MS + last_sampled_nanos_within_ms

\* Estimates start from a time that has passed, and while one is made from one
\* before the call; in the sampled millisecond they start from the sample.
SampleInv ==
    /\ SampleReading <= wall
    /\ pc = "estimate" => SampleReading <= call_wall
    /\ backend = "counter" /\ pc \in {"idle", "estimate"} /\ last_ms # 0 =>
           /\ next_deadline = CP!wrapping_add(sampled_at, CP!Interval)
           /\ last_ms = MsOf(sample) =>
                  last_sampled_nanos_within_ms = sample % NANOS_PER_MS

\* When the call began the counter was e ticks past the date of the sample, not
\* yet at the deadline; d steps of time have passed since.
EstimateOf(n, d, k, e) ==
    /\ CP!Ran(n)
    /\ d <= n
    /\ wall = call_wall + d * ElapseNanos
    /\ call_wall = sample + k * ElapseNanos
    /\ e < CP!Interval
    /\ k * ElapseTicks <= 2 * e
    /\ tsc = CP!wrapping_add(sampled_at, e + d * ElapseTicks)

Estimating ==
    pc = "estimate" =>
        /\ next_deadline # 0
        /\ \E n, d, k, e \in Nat : EstimateOf(n, d, k, e)

RateNotBelow == NANOS_PER_MS * ElapseTicks <= ticks_per_ms * ElapseNanos

\* The bound on how far a thread's time runs ahead ...
AheadInv ==
    /\ backend = "system" \/ pc \in Calibrating => Reading <= wall
    /\ RateNotBelow => Reading < wall + MAX_REFRESH_INTERVAL_NANOS

\* ... and on how far an id with a fraction lags.
BehindInv ==
    pc = "idle" /\ kind = "sub_ms" /\ last_ms # 0 =>
        call_wall - (IF backend = "system" THEN 0 ELSE ReuseNanos) <= Reading

FractionInv == SampleInv /\ Estimating /\ AheadInv /\ BehindInv

\* The ranges of what the invariant compares.
LEMMA FractionFacts ==
    ASSUME ClockedInv
    PROVE  /\ NANOS_PER_MS \in Nat \ {0} /\ MAX_REFRESH_INTERVAL_NANOS \in Nat \ {0}
           /\ ElapseNanos \in Nat \ {0} /\ ElapseTicks \in Nat \ {0}
           /\ last_ms \in Nat
           /\ last_nanos_within_ms \in 0 .. NANOS_PER_MS - 1
           /\ last_sampled_nanos_within_ms \in 0 .. NANOS_PER_MS - 1
           /\ wall \in Nat /\ sample \in 0 .. wall /\ call_wall \in 0 .. wall
           /\ Reading \in Nat /\ SampleReading \in Nat
<1>1. /\ NANOS_PER_MS \in Nat \ {0} /\ NANOS_PER_MS >= 2
      /\ ElapseNanos \in Nat \ {0} /\ ElapseTicks \in Nat \ {0}
    BY ArithAssumption, ClockAssumption
<1>2. MAX_REFRESH_INTERVAL_NANOS \in Nat \ {0}
    BY <1>1 DEF MAX_REFRESH_INTERVAL_NANOS
<1>3. /\ last_ms \in Nat
      /\ last_nanos_within_ms \in 0 .. NANOS_PER_MS - 1
      /\ last_sampled_nanos_within_ms \in 0 .. NANOS_PER_MS - 1
    <2>1. MaxMs \in Nat /\ TP!FieldsOK
        BY ClockedThreadAssumption, InvParts
    <2>2. /\ last_ms \in 0 .. MaxMs /\ last_nanos_within_ms \in 0 .. NANOS_PER_MS - 1
          /\ last_sampled_nanos_within_ms \in 0 .. last_nanos_within_ms
        BY <2>1 DEF TP!FieldsOK, TP!Nanos
    <2> QED BY <1>1, <2>1, <2>2
<1>4. wall \in Nat /\ sample \in 0 .. wall /\ call_wall \in 0 .. wall
    BY InvParts, ClockAssumption DEF TimeOK, CallOK
<1>5. Reading \in Nat /\ SampleReading \in Nat
    <2>1. /\ last_ms * NANOS_PER_MS \in Nat
          /\ last_nanos_within_ms \in Nat /\ last_sampled_nanos_within_ms \in Nat
        BY <1>1, <1>3
    <2> QED BY <2>1 DEF Reading, SampleReading
<1> QED
    BY <1>1, <1>2, <1>3, <1>4, <1>5

\* A millisecond the clock has reached began before now.
LEMMA MsBegun ==
    ASSUME NEW ms \in Nat, NEW w \in Nat, ms <= MsOf(w)
    PROVE  ms * NANOS_PER_MS <= w
<1>1. PICK n \in Nat \ {0} : n = NANOS_PER_MS
    BY ArithAssumption
<1>2. PICK q \in Nat, r \in Nat : q = MsOf(w) /\ w = q * n + r
    <2>1. w \div n \in Nat /\ w % n \in 0 .. n - 1 /\ w = (w \div n) * n + (w % n)
        BY DivMod
    <2>2. w % n \in Nat
        BY <2>1
    <2> QED BY <1>1, <2>1, <2>2 DEF MsOf
<1>3. ms * n <= q * n
    BY <1>2, TimesOrder
<1>4. ms * n \in Nat /\ q * n \in Nat
    OBVIOUS
<1> QED
    BY <1>1, <1>2, <1>3, <1>4

\* Any time of a later millisecond is later.
LEMMA LaterMs ==
    ASSUME NEW n \in Nat \ {0}, NEW ms \in Nat, NEW at \in 0 .. n - 1,
           NEW last \in Nat, ms < last, NEW nanos \in Nat
    PROVE  ms * n + at <= last * n + nanos
<1>1. (ms + 1) * n <= last * n
    <2>1. ms + 1 \in Int /\ ms + 1 <= last
        OBVIOUS
    <2> QED BY <2>1, TimesOrder
<1>2. PICK x \in Nat, y \in Nat : x = ms * n /\ (ms + 1) * n = x + n /\ y = last * n
    OBVIOUS
<1> QED
    BY <1>1, <1>2

\* An estimate that keeps up from its sample, or stops at the end of the
\* millisecond, keeps up with the call; so does a later millisecond.
LEMMA ReadingKeepsUp ==
    ASSUME NEW n \in Nat \ {0}, NEW q \in Nat, NEW s \in 0 .. n - 1,
           NEW last \in Nat, last >= q, NEW est \in 0 .. n - 1,
           NEW x \in Nat, NEW reuse \in Nat, NEW v \in Int, x - reuse <= v,
           NEW i \in Nat, v < i, i <= n - s,
           last = q => est = n - 1 \/ s + v <= est
    PROVE  q * n + s + x - reuse <= last * n + est
<1>1. PICK a \in Nat, b \in Nat : a = q * n /\ b = last * n
    OBVIOUS
<1>2. CASE last = q
    BY <1>1, <1>2
<1>3. CASE last > q
    <2>1. (q + 1) * n <= last * n
        <3>1. q + 1 \in Int /\ q + 1 <= last
            BY <1>3
        <3> QED BY <3>1, TimesOrder
    <2>2. (q + 1) * n = a + n
        BY <1>1
    <2> QED BY <1>1, <2>1, <2>2
<1> QED
    BY <1>2, <1>3

-----------------------------------------------------------------------------
(* What the steps make of it *)

\* What a call that rolls its counter over makes of the thread's time.
Borrows ==
    /\ last_ms' = last_ms + 1
    /\ last_nanos_within_ms' = 0
    /\ last_sampled_nanos_within_ms' = 0

\* A borrowed millisecond begins within the budget.
LEMMA BorrowedBegun ==
    ASSUME ClockedInv, BudgetInv', UNCHANGED wall, Borrows
    PROVE  /\ Reading' = SampleReading' /\ SampleReading' <= wall
           /\ Reading' \in Nat
<1>1. last_ms + 1 \in Nat /\ NANOS_PER_MS \in Nat /\ wall \in Nat
    BY FractionFacts
<1>2. PICK ms \in Nat : ms = last_ms + 1 /\ ms = last_ms'
    BY <1>1 DEF Borrows
<1>3. ms <= MsOf(wall)
    BY <1>2 DEF BudgetInv, MsOf
<1>4. ms * NANOS_PER_MS <= wall
    BY <1>1, <1>3, MsBegun
<1>5. PICK x \in Nat : x = ms * NANOS_PER_MS
    BY <1>1
<1>6. Reading' = x + 0 /\ SampleReading' = x + 0
    BY <1>2, <1>5 DEF Borrows, Reading, SampleReading
<1> QED
    BY <1>4, <1>5, <1>6

\* What a call makes of a reading of the wall clock: the thread's time becomes
\* the reading unless it was later, and is then no earlier than the reading,
\* or, for a counter id, it borrows a millisecond.
LEMMA UseSampleReads ==
    ASSUME ClockedInv, UseSample(MsOf(sample), sample % NANOS_PER_MS)
    PROVE  \/ /\ Reading' \in {Reading, sample} /\ sample <= Reading'
              /\ SampleReading' \in {SampleReading, sample}
              /\ last_ms' = MsOf(sample) =>
                     last_sampled_nanos_within_ms' = sample % NANOS_PER_MS
           \/ Borrows /\ kind = "count" /\ MsOf(sample) <= last_ms
<1>0. PICK n \in Nat \ {0} : n = NANOS_PER_MS
    BY FractionFacts
<1>1. PICK last \in Nat, nanos \in 0 .. n - 1, sampled \in 0 .. n - 1 :
          /\ n = NANOS_PER_MS /\ last = last_ms
          /\ nanos = last_nanos_within_ms /\ sampled = last_sampled_nanos_within_ms
    BY <1>0, FractionFacts
<1>2. PICK ms \in Nat, at \in 0 .. n - 1 :
          ms = MsOf(sample) /\ at = sample % n /\ sample = ms * n + at
    <2>1. sample \in Nat
        BY FractionFacts
    <2>2. /\ sample \div n \in Nat /\ sample % n \in 0 .. n - 1
          /\ sample = (sample \div n) * n + (sample % n)
        BY <2>1, DivMod
    <2> QED BY <1>1, <2>2 DEF MsOf
<1>3. CASE Borrows /\ kind = "count" /\ ms <= last
    BY <1>1, <1>2, <1>3
<1>4. CASE \/ /\ ms > last /\ last_ms' = ms
              /\ last_nanos_within_ms' = at /\ last_sampled_nanos_within_ms' = at
           \/ /\ ms = last /\ last_ms' = last
              /\ last_nanos_within_ms' = (IF nanos > at THEN nanos ELSE at)
              /\ last_sampled_nanos_within_ms' = at
           \/ /\ ms < last /\ last_ms' = last
              /\ last_nanos_within_ms' = nanos /\ last_sampled_nanos_within_ms' = sampled
    <2>1. /\ last_ms' * n + last_nanos_within_ms' \in {last * n + nanos, ms * n + at}
          /\ ms * n + at <= last_ms' * n + last_nanos_within_ms'
        <3>1. PICK x \in Nat, y \in Nat : x = ms * n /\ y = last * n
            OBVIOUS
        <3>2. CASE ms > last
            BY <1>4, <3>1, <3>2
        <3>3. CASE ms = last
            <4>1. PICK z \in 0 .. n - 1 :
                      /\ last_ms' = ms /\ last_nanos_within_ms' = z
                      /\ z \in {nanos, at} /\ at <= z
                BY <1>4, <3>3
            <4>2. x + at <= x + z
                BY <4>1
            <4> QED BY <3>1, <3>3, <4>1, <4>2
        <3>4. CASE ms < last
            <4>1. last_ms' = last /\ last_nanos_within_ms' = nanos
                BY <1>4, <3>4
            <4>2. ms * n + at <= last * n + nanos
                <5>1. nanos \in Nat
                    OBVIOUS
                <5> QED BY <3>4, <5>1, LaterMs
            <4> QED BY <4>1, <4>2
        <3> QED BY <3>2, <3>3, <3>4
    <2>2. last_ms' * n + last_sampled_nanos_within_ms'
              \in {last * n + sampled, ms * n + at}
        BY <1>4
    <2>3. Reading' = last_ms' * n + last_nanos_within_ms' /\ Reading = last * n + nanos
          /\ SampleReading' = last_ms' * n + last_sampled_nanos_within_ms'
          /\ SampleReading = last * n + sampled
        BY <1>1 DEF Reading, SampleReading
    <2>4. last_ms' = ms => last_sampled_nanos_within_ms' = at
        BY <1>4
    <2> QED BY <1>1, <1>2, <2>1, <2>2, <2>3, <2>4
<1>5. CASE T!record_time_sample(ms, at, TRUE)
    <2>1. CASE T!record_later_sample(ms, at, TRUE)
        BY <1>1, <1>4, <2>1 DEF T!record_later_sample
    <2>2. CASE /\ ms <= last /\ last_ms' = last
               /\ last_nanos_within_ms' = T!kept_nanos(ms, at)
               /\ last_sampled_nanos_within_ms' = T!kept_sampled_nanos(ms, at, TRUE)
        BY <1>1, <1>4, <2>2 DEF T!kept_nanos, T!kept_sampled_nanos, T!Most
    <2> QED BY <1>1, <1>5, <2>1, <2>2 DEF T!record_time_sample
<1>6. CASE kind = "count" /\ ms <= last /\ T!counter_exhausted /\ CounterTurn
    BY <1>1, <1>3, <1>6 DEF CounterTurn, T!RollOver, Borrows
<1>7. CASE /\ ms <= last /\ ~T!counter_exhausted /\ CounterTurn
           /\ last_nanos_within_ms' = T!kept_nanos(ms, at)
           /\ last_sampled_nanos_within_ms' = T!kept_sampled_nanos(ms, at, TRUE)
    BY <1>1, <1>4, <1>7 DEF CounterTurn, T!kept_nanos, T!kept_sampled_nanos, T!Most
<1> QED
    BY <1>1, <1>2, <1>5, <1>6, <1>7 DEF UseSample

\* While the thread's time, the clock and the call stand, or its call is no
\* longer one that the invariant speaks of, all of it stands.
LEMMA FractionKept ==
    ASSUME FractionInv, UNCHANGED <<wall, last_ms, last_nanos_within_ms,
                                    last_sampled_nanos_within_ms, ticks_per_ms, backend>>,
           pc' \notin {"idle", "estimate"}, pc' \in Calibrating => pc \in Calibrating
    PROVE  FractionInv'
<1>1. Reading' = Reading /\ SampleReading' = SampleReading /\ (RateNotBelow' <=> RateNotBelow)
    BY DEF Reading, SampleReading, RateNotBelow
<1> QED
    BY <1>1 DEF FractionInv, SampleInv, Estimating, AheadInv, BehindInv,
        MAX_REFRESH_INTERVAL_NANOS

\* A refresh takes the reading, which is after the call and not after now.
LEMMA FractionRefresh ==
    ASSUME ClockedInv, LagInv, BudgetInv', FractionInv, RefreshAfter
    PROVE  FractionInv'
<1>0. /\ MAX_REFRESH_INTERVAL_NANOS \in Nat \ {0} /\ wall \in Nat
      /\ sample \in 0 .. wall /\ call_wall \in 0 .. wall
      /\ Reading \in Nat /\ SampleReading \in Nat
    BY FractionFacts
<1>1. /\ pc = "sampled" /\ pc' = "idle" /\ UNCHANGED <<backend, kind, call_wall>>
      /\ \/ backend = "counter" /\ ReadCounterAfter
         \/ backend = "system" /\ system_record_sample
      /\ UseSample(MsOf(sample), sample % NANOS_PER_MS)
    BY DEF RefreshAfter
<1>2. UNCHANGED <<wall, sample, ticks_per_ms>>
    BY <1>1 DEF ReadCounterAfter, record_sample, system_record_sample, time_vars,
        clock_vars, refresh_vars
<1>3. call_wall <= sample
    <2>1. PICK n \in Nat : ModeInv /\ Timed(n)
        BY DEF LagInv
    <2>2. CASE backend = "counter"
        <3>1. \E h, k \in Nat : CP!Sampled(n, h, k)
            BY <1>1, <2>1, <2>2 DEF Timed
        <3> QED BY <3>1 DEF CP!Sampled
    <2>3. CASE backend = "system"
        BY <1>1, <2>1, <2>3 DEF ModeInv
    <2> QED BY <1>1, <2>2, <2>3
<1>4. backend = "counter" => next_deadline' = CP!wrapping_add(sampled_at, CP!Interval)'
    <2>1. CASE backend = "counter"
        <3>1. CP!ReadCounterAfter
            BY <1>1, <2>1, SameClock
        <3>2. PICK at : sampled_at' = at /\ next_deadline' = CP!wrapping_add(at, CP!Interval)
            BY <3>1 DEF CP!ReadCounterAfter, CP!record_sample, CP!Interval
        <3>3. CP!Interval' = CP!Interval
            BY <1>2 DEF CP!Interval
        <3> QED BY <3>2, <3>3 DEF CP!wrapping_add
    <2> QED BY <1>1, <2>1
<1>5. MsOf(sample)' = MsOf(sample) /\ (sample % NANOS_PER_MS)' = sample % NANOS_PER_MS
      /\ ReuseNanos' = ReuseNanos /\ ReuseNanos \in Nat
      /\ (RateNotBelow' <=> RateNotBelow)
    BY <1>2, ReuseIsNat DEF MsOf, ReuseNanos, RateNotBelow
<1>6. /\ SampleReading <= wall
      /\ backend = "system" => Reading <= wall
      /\ RateNotBelow => Reading < wall + MAX_REFRESH_INTERVAL_NANOS
    BY DEF FractionInv, SampleInv, AheadInv
<1>7. CASE Borrows /\ kind = "count" /\ MsOf(sample) <= last_ms
    <2>1. PICK x \in Nat : x = Reading' /\ x = SampleReading' /\ x <= wall
        BY <1>2, <1>7, BorrowedBegun
    <2>2. last_ms' # MsOf(sample)
        <3>1. last_ms \in Nat /\ MsOf(sample) \in Nat
            BY FractionFacts, SampleMs
        <3> QED BY <1>7, <3>1 DEF Borrows
    <2>3. SampleInv'
        BY <1>1, <1>2, <1>4, <1>5, <2>1, <2>2 DEF SampleInv
    <2>4. AheadInv'
        <3>1. x < wall + MAX_REFRESH_INTERVAL_NANOS
            BY <1>0, <2>1
        <3> QED BY <1>1, <1>2, <2>1, <3>1 DEF AheadInv, Calibrating, MAX_REFRESH_INTERVAL_NANOS
    <2>5. BehindInv' /\ Estimating'
        BY <1>1, <1>7 DEF BehindInv, Estimating
    <2> QED BY <2>3, <2>4, <2>5 DEF FractionInv
<1>8. CASE /\ Reading' \in {Reading, sample} /\ sample <= Reading'
           /\ SampleReading' \in {SampleReading, sample}
           /\ last_ms' = MsOf(sample) =>
                  last_sampled_nanos_within_ms' = sample % NANOS_PER_MS
    <2>1. PICK x \in Nat, y \in Nat :
              /\ x = Reading' /\ x \in {Reading, sample} /\ sample <= x
              /\ y = SampleReading' /\ y \in {SampleReading, sample}
        BY <1>0, <1>8
    <2>2. y <= wall
        BY <1>0, <1>6, <2>1
    <2>3. SampleInv'
        BY <1>1, <1>2, <1>4, <1>5, <1>8, <2>1, <2>2 DEF SampleInv
    <2>4. /\ backend = "system" => x <= wall
          /\ RateNotBelow => x < wall + MAX_REFRESH_INTERVAL_NANOS
        BY <1>0, <1>6, <2>1
    <2>5. AheadInv'
        BY <1>1, <1>2, <1>5, <2>1, <2>4 DEF AheadInv, Calibrating, MAX_REFRESH_INTERVAL_NANOS
    <2>6. call_wall - (IF backend = "system" THEN 0 ELSE ReuseNanos) <= x
        BY <1>0, <1>3, <1>5, <2>1
    <2>7. BehindInv' /\ Estimating'
        BY <1>1, <1>5, <2>1, <2>6 DEF BehindInv, Estimating
    <2> QED BY <2>3, <2>5, <2>7 DEF FractionInv
<1> QED
    BY <1>1, <1>7, <1>8, UseSampleReads

\* A call on the cached millisecond changes the thread's time only to borrow.
LEMMA FractionCached ==
    ASSUME ClockedInv, LagInv, BudgetInv', FractionInv,
           NEW k \in {"random", "count"}, CallOnCachedMs(k)
    PROVE  FractionInv'
<1>0. /\ MAX_REFRESH_INTERVAL_NANOS \in Nat \ {0} /\ wall \in Nat
      /\ last_ms \in Nat /\ MsOf(sample) \in Nat
    BY FractionFacts, SampleMs
<1>1. /\ pc = "idle" /\ pc' = pc /\ kind' = k /\ kind' # "sub_ms"
      /\ ~refresh_due /\ backend' = backend
      /\ UNCHANGED <<wall, tsc, ticks_per_ms, sampled_at, next_deadline, sample>>
    BY DEF CallOnCachedMs, StartCall, time_vars, clock_vars, refresh_vars
<1>2. backend = "counter" /\ last_ms # 0
    BY <1>1 DEF refresh_due, ClockedInv, TypeOK
<1>3. Borrows \/ UNCHANGED <<last_ms, last_nanos_within_ms, last_sampled_nanos_within_ms>>
    BY DEF CallOnCachedMs, CounterTurn, T!RollOver, Borrows, state_vars
<1>4. /\ MsOf(sample)' = MsOf(sample) /\ (sample % NANOS_PER_MS)' = sample % NANOS_PER_MS
      /\ (RateNotBelow' <=> RateNotBelow) /\ CP!Interval' = CP!Interval
      /\ CP!wrapping_add(sampled_at, CP!Interval)' = CP!wrapping_add(sampled_at, CP!Interval)
    BY <1>1 DEF MsOf, RateNotBelow, CP!Interval, CP!wrapping_add
<1>5. BehindInv' /\ Estimating'
    BY <1>1 DEF BehindInv, Estimating
<1>6. SampleInv' /\ AheadInv'
    <2>1. CASE Borrows
        <3>1. PICK x \in Nat : x = Reading' /\ x = SampleReading' /\ x <= wall
            BY <1>1, <2>1, BorrowedBegun
        <3>2. last_ms' # MsOf(sample)
            <4>1. last_ms >= MsOf(sample)
                BY <1>1, <1>2 DEF LagInv, Timed
            <4> QED BY <1>0, <2>1, <4>1 DEF Borrows
        <3>3. next_deadline = CP!wrapping_add(sampled_at, CP!Interval)
            BY <1>1, <1>2 DEF FractionInv, SampleInv
        <3>4. SampleInv'
            BY <1>1, <1>4, <3>1, <3>2, <3>3 DEF SampleInv
        <3>5. x < wall + MAX_REFRESH_INTERVAL_NANOS
            BY <1>0, <3>1
        <3> QED BY <1>1, <3>1, <3>4, <3>5 DEF AheadInv, MAX_REFRESH_INTERVAL_NANOS
    <2>2. CASE UNCHANGED <<last_ms, last_nanos_within_ms, last_sampled_nanos_within_ms>>
        <3>1. Reading' = Reading /\ SampleReading' = SampleReading
            BY <2>2 DEF Reading, SampleReading
        <3>2. SampleInv'
            BY <1>1, <1>4, <2>2, <3>1 DEF FractionInv, SampleInv
        <3> QED
            BY <1>1, <1>4, <3>1, <3>2 DEF FractionInv, AheadInv, MAX_REFRESH_INTERVAL_NANOS
    <2> QED BY <1>3, <2>1, <2>2
<1> QED
    BY <1>5, <1>6 DEF FractionInv

\* An estimate begins before the deadline: the ticks since the date of the
\* sample are fewer than those the deadline was set by.
LEMMA EstimateBegins ==
    ASSUME WithinHalfRange, ClockedInv, LagInv, SampleInv, pc = "idle", ~refresh_due
    PROVE  /\ next_deadline # 0
           /\ \E n, k, e \in Nat :
                  /\ CP!Ran(n)
                  /\ wall = sample + k * ElapseNanos
                  /\ e < CP!Interval /\ k * ElapseTicks <= 2 * e
                  /\ tsc = CP!wrapping_add(sampled_at, e)
<1>1. backend = "counter" /\ last_ms # 0 /\ ~should_refresh
    BY DEF refresh_due, ClockedInv, TypeOK
<1>2. PICK n \in Nat : Timed(n)
    BY DEF LagInv
<1>3. PICK k \in Nat, g \in Int : CP!Dated(n, k, g, 0)
    BY <1>1, <1>2 DEF Timed
<1>4. CP!ClockOK /\ CP!Ran(n) /\ CP!WithinHalfRange /\ ~CP!should_refresh
    BY <1>1, <1>2, ClockReady, SameClock DEF LagInv, Calibrating, Timed, WithinHalfRange
<1>5. g < 0
    <2>1. tsc = CP!wrapping_add(next_deadline, g) /\ g <= n * ElapseTicks
        BY <1>3 DEF CP!Dated
    <2> QED BY <1>4, <2>1, CP!NotDueEarly, ClockIsGiven DEF ClockGiven
<1>6. CP!Interval \in Nat /\ ElapseTicks \in Nat /\ sampled_at \in Int
    <2>1. sampled_at \in 0 .. U64 - 1 /\ U64 \in Nat
        BY InvParts, ArithAssumption DEF TimeOK
    <2>2. sampled_at \in Int
        BY <2>1
    <2> QED BY <1>4, <2>2, IntervalFacts, ClockAssumption
<1>7. PICK x \in Nat : x = k * ElapseTicks /\ x <= 2 * (g + 0 + CP!Interval)
    BY <1>3, <1>6 DEF CP!Dated
<1>8. PICK e \in Nat : e = CP!Interval + g /\ e < CP!Interval /\ x <= 2 * e
    <2>1. CP!Interval + g \in Nat
        BY <1>6, <1>7
    <2> QED BY <1>5, <1>6, <1>7, <2>1
<1>9. tsc = CP!wrapping_add(sampled_at, e)
    <2>1. tsc = CP!wrapping_add(CP!wrapping_add(sampled_at, CP!Interval), g)
        BY <1>1, <1>3 DEF CP!Dated, SampleInv
    <2>2. CP!wrapping_add(CP!wrapping_add(sampled_at, CP!Interval), g)
              = CP!wrapping_add(sampled_at, CP!Interval + g)
        BY <1>6, CP!WrapTwice, ClockIsGiven DEF ClockGiven
    <2> QED BY <1>8, <2>1, <2>2
<1>10. wall = sample + k * ElapseNanos
    BY <1>3 DEF CP!Dated
<1>11. next_deadline # 0
    BY <1>1 DEF should_refresh, deadline_reached
<1> QED
    BY <1>4, <1>7, <1>8, <1>9, <1>10, <1>11

\* The call that begins it starts from a time that has passed.
LEMMA FractionCall ==
    ASSUME WithinHalfRange, ClockedInv, LagInv, FractionInv, CallEstimating
    PROVE  FractionInv'
<1>0. wall \in Nat /\ ElapseNanos \in Nat /\ ElapseTicks \in Nat
    BY FractionFacts
<1>1. /\ pc = "idle" /\ pc' = "estimate" /\ kind' = "sub_ms" /\ call_wall' = wall
      /\ ~refresh_due /\ backend' = backend
      /\ UNCHANGED <<wall, tsc, ticks_per_ms, sampled_at, next_deadline, sample>>
      /\ UNCHANGED <<last_ms, last_nanos_within_ms, last_sampled_nanos_within_ms>>
    BY DEF CallEstimating, StartCall, time_vars, clock_vars, refresh_vars, state_vars
<1>2. /\ MsOf(sample)' = MsOf(sample) /\ (sample % NANOS_PER_MS)' = sample % NANOS_PER_MS
      /\ (RateNotBelow' <=> RateNotBelow) /\ CP!Interval' = CP!Interval
      /\ CP!wrapping_add(sampled_at, CP!Interval)' = CP!wrapping_add(sampled_at, CP!Interval)
      /\ Reading' = Reading /\ SampleReading' = SampleReading
    BY <1>1 DEF MsOf, RateNotBelow, CP!Interval, CP!wrapping_add, Reading, SampleReading
<1>3. SampleInv'
    BY <1>1, <1>2 DEF FractionInv, SampleInv
<1>4. AheadInv' /\ BehindInv'
    BY <1>1, <1>2 DEF FractionInv, AheadInv, BehindInv, Calibrating,
        MAX_REFRESH_INTERVAL_NANOS
<1>5. Estimating'
    <2>1. PICK n \in Nat, k \in Nat, e \in Nat :
              /\ CP!Ran(n)
              /\ wall = sample + k * ElapseNanos
              /\ e < CP!Interval /\ k * ElapseTicks <= 2 * e
              /\ tsc = CP!wrapping_add(sampled_at, e)
        BY <1>1, EstimateBegins DEF FractionInv
    <2>2. next_deadline # 0
        BY <1>1, EstimateBegins DEF FractionInv
    <2>3. 0 <= n /\ wall = wall + 0 * ElapseNanos /\ e + 0 * ElapseTicks = e
        BY <1>0
    <2>4. CP!Ran(n)'
        BY <1>1, <2>1 DEF CP!Ran
    <2>5. EstimateOf(n, 0, k, e)'
        BY <1>1, <1>2, <2>1, <2>3, <2>4 DEF EstimateOf, CP!wrapping_add
    <2> QED BY <1>1, <2>2, <2>5 DEF Estimating
<1> QED
    BY <1>3, <1>4, <1>5 DEF FractionInv

\* The ticks an estimate counts do not wrap.
LEMMA EstimateTicks ==
    ASSUME WithinHalfRange, CP!ClockOK, sampled_at \in Int,
           NEW n \in Nat, NEW d \in 0 .. n, NEW e \in Nat,
           CP!Ran(n), e < CP!Interval, tsc = CP!wrapping_add(sampled_at, e + d * ElapseTicks)
    PROVE  wrapping_sub(read_counter, sampled_at) = e + d * ElapseTicks
<1>1. PICK u \in Nat \ {0}, et \in Nat : u = U64 /\ et = ElapseTicks
    BY ArithAssumption, ClockAssumption
<1>2. PICK i \in Nat : i = CP!Interval /\ 2 * i < u
    <2>1. CP!Interval \in Nat /\ NANOS_PER_MS * CP!Interval < U64
        BY IntervalFacts
    <2>2. PICK m \in Nat, i \in Nat : m = NANOS_PER_MS /\ i = CP!Interval /\ 2 <= m
        BY <2>1, ArithAssumption
    <2>3. 2 * i <= m * i
        BY <2>2, TimesOrder
    <2>4. m * i \in Nat
        OBVIOUS
    <2> QED BY <1>1, <2>1, <2>2, <2>3, <2>4
<1>3. PICK x \in Nat, y \in Nat : x = d * et /\ y = n * et /\ x <= y /\ 2 * y < u
    <2>1. 2 * (n * ElapseTicks) < U64
        BY CP!RanTicks, ClockIsGiven DEF ClockGiven, WithinHalfRange
    <2>2. d \in Int /\ n \in Int /\ d <= n
        OBVIOUS
    <2>3. d * et <= n * et /\ d * et \in Nat /\ n * et \in Nat
        BY <1>1, <2>2, TimesOrder
    <2> QED BY <1>1, <2>1, <2>3
<1>4. PICK t \in 0 .. u - 1 : t = e + d * ElapseTicks
    <2>1. e + x \in 0 .. u - 1
        BY <1>2, <1>3
    <2> QED BY <1>1, <1>3, <2>1
<1>5. CP!wrapping_sub(CP!wrapping_add(sampled_at, t), sampled_at) = t % U64
    <2>1. t \in Int
        BY <1>1
    <2> QED BY <2>1, CP!WrapTwice, ClockIsGiven DEF ClockGiven
<1>6. t % U64 = t
    BY <1>1, <1>4, ModOfSmall
<1> QED
    BY <1>4, <1>5, <1>6 DEF read_counter, wrapping_sub, CP!wrapping_sub

\* What an estimate may be.
LEMMA EstimateNear ==
    ASSUME WithinHalfRange, ClockedInv, LagInv, SampleInv, Estimating, pc = "estimate"
    PROVE  /\ estimate_nanos_within_ms \in 0 .. NANOS_PER_MS - 1
           /\ RateNotBelow =>
                  last_ms * NANOS_PER_MS + estimate_nanos_within_ms
                      < wall + MAX_REFRESH_INTERVAL_NANOS
           /\ call_wall - ReuseNanos <= last_ms * NANOS_PER_MS + estimate_nanos_within_ms
<1>1. backend = "counter" /\ last_ms # 0 /\ next_deadline # 0
    BY DEF ClockedInv, TypeOK, LagInv, ModeInv, Estimating
<1>2. PICK n \in Nat, d \in Nat, k \in Nat, e \in Nat : EstimateOf(n, d, k, e)
    BY DEF Estimating
<1>3. CP!ClockOK /\ CP!WithinHalfRange
    BY <1>1, ClockReady DEF LagInv, Calibrating, WithinHalfRange
<1>4. PICK per \in Nat \ {0}, en \in Nat \ {0}, et \in Nat \ {0}, rate \in Nat \ {0} :
          per = NANOS_PER_MS /\ en = ElapseNanos /\ et = ElapseTicks /\ rate = ticks_per_ms
    <2>1. ticks_per_ms \in Nat \ {0}
        BY <1>3 DEF CP!ClockOK
    <2> QED BY <2>1, FractionFacts
<1>5. PICK m \in Nat \ {0}, reuse \in Nat, last \in Nat, nanos \in 0 .. per - 1 :
          /\ m = MAX_REFRESH_INTERVAL_NANOS /\ reuse = ReuseNanos
          /\ last = last_ms /\ nanos = last_sampled_nanos_within_ms
    <2>1. /\ MAX_REFRESH_INTERVAL_NANOS \in Nat \ {0} /\ ReuseNanos \in Nat
          /\ last_ms \in Nat /\ last_sampled_nanos_within_ms \in 0 .. per - 1
        BY <1>4, FractionFacts, ReuseIsNat
    <2> QED BY <2>1
<1>6. PICK q \in Nat, s \in 0 .. per - 1 :
          q = MsOf(sample) /\ s = sample % per /\ sample = q * per + s
    <2>1. sample \in Nat
        BY FractionFacts
    <2>2. /\ sample \div per \in Nat /\ sample % per \in 0 .. per - 1
          /\ sample = (sample \div per) * per + (sample % per)
        BY <2>1, DivMod
    <2> QED BY <1>4, <2>2 DEF MsOf
<1>7. last >= q /\ (last = q => nanos = s)
    <2>1. last_ms >= MsOf(sample)
        BY <1>1 DEF LagInv, Timed
    <2>2. last_ms = MsOf(sample) => last_sampled_nanos_within_ms = sample % NANOS_PER_MS
        BY <1>1 DEF SampleInv
    <2> QED BY <1>4, <1>5, <1>6, <2>1, <2>2
<1>8. PICK i \in 1 .. m : i <= per - s /\ per * e < rate * i /\ per * e < rate * m
                          /\ per * e < U64
    <2>1. PICK ticks \in Nat \ {0} : ticks = CP!Interval /\ per * ticks < U64
        BY <1>3, <1>4, IntervalFacts
    <2>2. PICK i \in 1 .. m : i <= per - s /\ per * (ticks - 1) < rate * i
        BY <1>3, <1>4, <1>5, <1>6, <2>1, IntervalFacts
    <2>3. e <= ticks - 1 /\ e <= ticks
        BY <1>2, <2>1 DEF EstimateOf
    <2>4. e * per <= (ticks - 1) * per /\ e * per <= ticks * per /\ i * rate <= m * rate
        <3>1. ticks - 1 \in Int /\ i \in Int /\ i <= m
            OBVIOUS
        <3> QED BY <2>3, <3>1, TimesOrder
    <2>5. PICK a \in Int, b \in Int, c \in Int, f \in Int, g \in Int :
              /\ a = per * e /\ a = e * per
              /\ b = per * (ticks - 1) /\ b = (ticks - 1) * per
              /\ c = per * ticks /\ c = ticks * per
              /\ f = rate * i /\ f = i * rate /\ g = rate * m /\ g = m * rate
        OBVIOUS
    <2>6. U64 \in Int
        BY ArithAssumption
    <2>7. a <= b /\ a <= c /\ f <= g /\ b < f /\ c < U64
        BY <2>1, <2>2, <2>4, <2>5
    <2>8. a < f /\ a < g /\ a < U64
        BY <2>6, <2>7
    <2> QED BY <2>2, <2>5, <2>8
<1>9. PICK t \in Nat : t = e + d * et /\ e <= t
    <2>1. d * et \in Nat
        OBVIOUS
    <2> QED BY <2>1
<1>10. estimate_nanos_within_ms = estimate_nanos_within_ms_from_ticks(rate, nanos, t)
    <2>1. d \in 0 .. n /\ sampled_at \in Int
        <3>1. sampled_at \in 0 .. U64 - 1 /\ U64 \in Nat
            BY InvParts, ArithAssumption DEF TimeOK
        <3>2. sampled_at \in Int
            BY <3>1
        <3>3. d <= n
            BY <1>2 DEF EstimateOf
        <3> QED BY <3>2, <3>3
    <2>2. wrapping_sub(read_counter, sampled_at) = e + d * ElapseTicks
        BY <1>2, <1>3, <2>1, EstimateTicks DEF EstimateOf
    <2> QED BY <1>1, <1>4, <1>5, <1>9, <2>2 DEF estimate_nanos_within_ms
<1>11. PICK est \in 0 .. per - 1 :
           /\ est = estimate_nanos_within_ms
           /\ est <= nanos + ((t * per) \div rate)
           /\ est = per - 1 \/ nanos + ((per * e) \div rate) <= est
    <2>1. PICK est : est = estimate_nanos_within_ms
        OBVIOUS
    <2>2. est = estimate_nanos_within_ms_from_ticks(rate, nanos, t)
          /\ nanos \in 0 .. NANOS_PER_MS - 1 /\ e \in 0 .. t /\ NANOS_PER_MS * e < U64
        BY <1>4, <1>5, <1>8, <1>9, <1>10, <2>1
    <2>3. /\ est \in 0 .. NANOS_PER_MS - 1
          /\ est <= nanos + ((t * NANOS_PER_MS) \div rate)
          /\ est = NANOS_PER_MS - 1 \/ nanos + ((NANOS_PER_MS * e) \div rate) <= est
        BY <2>2, EstimateBounds
    <2> QED BY <1>4, <2>1, <2>3
<1>12. PICK lag \in Nat, since \in Nat :
           /\ lag = k * en /\ since = d * en
           /\ call_wall = sample + lag /\ wall = call_wall + since
    <2>1. k * en \in Nat /\ d * en \in Nat
        OBVIOUS
    <2> QED BY <1>2, <1>4, <2>1 DEF EstimateOf
<1>13. RateNotBelow => last * per + est < wall + m
    <2> SUFFICES ASSUME RateNotBelow PROVE last * per + est < wall + m
        OBVIOUS
    <2>1. per * et <= rate * en
        BY <1>4 DEF RateNotBelow
    <2>2. ((e + d * et) * per) \div rate < m + d * en
        BY <1>8, <2>1, EstimateAhead
    <2>3. PICK gain \in Int : gain = (t * per) \div rate /\ gain < m + since
        <3>1. t * per \in Int
            OBVIOUS
        <3>2. (t * per) \div rate \in Int
            BY <3>1, SplitInt
        <3> QED BY <1>9, <1>12, <2>2, <3>2
    <2>4. PICK x \in Nat : x = last * per /\ x + nanos <= call_wall
        <3>1. last * per \in Nat
            OBVIOUS
        <3> QED BY <1>4, <1>5, <3>1 DEF SampleInv, SampleReading
    <2>5. call_wall \in Int
        BY FractionFacts
    <2> QED BY <1>11, <1>12, <2>3, <2>4, <2>5
<1>14. call_wall - reuse <= last * per + est
    <2>1. PICK v \in Int : v = (per * e) \div rate
        <3>1. per * e \in Int
            OBVIOUS
        <3> QED BY <3>1, SplitInt
    <2>2. k * en - reuse <= v
        <3>1. (2 * m) * (rate * en) <= (reuse + m) * (per * et)
            <4>1. /\ CP!ReuseNanos = ReuseNanos
                  /\ CP!MAX_REFRESH_INTERVAL_NANOS = MAX_REFRESH_INTERVAL_NANOS
                BY SameClock DEF MAX_REFRESH_INTERVAL_NANOS, CP!MAX_REFRESH_INTERVAL_NANOS
            <4>2. ticks_per_ms \in Nat
                BY <1>4
            <4> QED BY <1>4, <1>5, <4>1, <4>2, CP!ReuseCovers, ClockIsGiven DEF ClockGiven
        <3>2. k * et <= 2 * e
            BY <1>2, <1>4 DEF EstimateOf
        <3> QED BY <1>8, <2>1, <3>1, <3>2, EstimateKeepsUp
    <2>3. v < i
        <3>1. per * e \in Int /\ i - 1 \in Int /\ (i - 1) + 1 = i /\ i * rate = rate * i
            OBVIOUS
        <3>2. v <= i - 1
            BY <1>8, <2>1, <3>1, DivBelow
        <3> QED BY <3>2
    <2>4. q * per + s + lag - reuse <= last * per + est
        <3>1. last = q => est = per - 1 \/ s + v <= est
            BY <1>7, <1>11, <2>1
        <3>2. lag - reuse <= v /\ i \in Nat
            BY <1>12, <2>2
        <3> QED BY <1>7, <1>8, <2>3, <3>1, <3>2, ReadingKeepsUp
    <2> QED BY <1>6, <1>12, <2>4
<1> QED
    BY <1>4, <1>5, <1>11, <1>13, <1>14

\* An estimate leaves the thread's time the later of what it was and the estimate.
LEMMA FractionEstimate ==
    ASSUME WithinHalfRange, ClockedInv, LagInv, FractionInv, Estimate
    PROVE  FractionInv'
<1>1. /\ pc = "estimate" /\ pc' = "idle"
      /\ UNCHANGED <<backend, kind, call_wall, wall, ticks_per_ms, sampled_at,
                     next_deadline, sample>>
      /\ T!record_time_sample(last_ms, estimate_nanos_within_ms, FALSE)
    BY DEF Estimate, time_vars, clock_vars, refresh_vars, call_vars
<1>2. PICK per \in Nat \ {0}, m \in Nat \ {0}, reuse \in Nat, last \in Nat :
          /\ per = NANOS_PER_MS /\ m = MAX_REFRESH_INTERVAL_NANOS /\ reuse = ReuseNanos
          /\ last = last_ms
    BY FractionFacts, ReuseIsNat
<1>3. PICK nanos \in 0 .. per - 1, est \in 0 .. per - 1 :
          nanos = last_nanos_within_ms /\ est = estimate_nanos_within_ms
    BY <1>1, <1>2, FractionFacts, EstimateNear DEF FractionInv
<1>4. /\ RateNotBelow => last * per + est < wall + m
      /\ call_wall - reuse <= last * per + est
    BY <1>1, <1>2, <1>3, EstimateNear DEF FractionInv
<1>5. PICK z \in 0 .. per - 1 :
          /\ last_nanos_within_ms' = z /\ z \in {nanos, est} /\ est <= z
    <2>1. last_nanos_within_ms' = (IF nanos > est THEN nanos ELSE est)
        <3>1. ~(last_ms > last_ms)
            BY FractionFacts
        <3> QED BY <1>1, <1>3, <3>1 DEF T!record_time_sample, T!record_later_sample,
                T!kept_nanos, T!Most
    <2> QED BY <1>3, <2>1
<1>6. UNCHANGED <<last_ms, last_sampled_nanos_within_ms>>
    <2>1. ~(last_ms > last_ms)
        BY FractionFacts
    <2> QED BY <1>1, <2>1 DEF T!record_time_sample, T!record_later_sample,
            T!kept_sampled_nanos
<1>7. PICK x \in Nat : x = last * per
    <2>1. last * per \in Nat
        OBVIOUS
    <2> QED BY <2>1
<1>8. /\ Reading' = x + z /\ Reading = x + nanos /\ SampleReading' = SampleReading
    BY <1>2, <1>3, <1>5, <1>6, <1>7 DEF Reading, SampleReading
<1>9. /\ MsOf(sample)' = MsOf(sample) /\ (sample % NANOS_PER_MS)' = sample % NANOS_PER_MS
      /\ (RateNotBelow' <=> RateNotBelow) /\ CP!Interval' = CP!Interval
      /\ CP!wrapping_add(sampled_at, CP!Interval)' = CP!wrapping_add(sampled_at, CP!Interval)
      /\ ReuseNanos' = ReuseNanos
    BY <1>1 DEF MsOf, RateNotBelow, CP!Interval, CP!wrapping_add, ReuseNanos
<1>10. backend = "counter"
    BY <1>1 DEF LagInv, ModeInv, ClockedInv, TypeOK
<1>11. SampleInv'
    BY <1>1, <1>6, <1>8, <1>9 DEF FractionInv, SampleInv
<1>12. AheadInv'
    <2>1. RateNotBelow => x + nanos < wall + m
        BY <1>2, <1>8 DEF FractionInv, AheadInv
    <2>2. RateNotBelow => x + z < wall + m
        BY <1>4, <1>5, <1>7, <2>1
    <2> QED BY <1>1, <1>2, <1>8, <1>9, <1>10, <2>2 DEF AheadInv, Calibrating,
            MAX_REFRESH_INTERVAL_NANOS
<1>13. BehindInv'
    <2>1. call_wall \in Int
        BY FractionFacts
    <2>2. call_wall - reuse <= x + z
        BY <1>4, <1>5, <1>7, <2>1
    <2> QED BY <1>1, <1>2, <1>8, <1>9, <1>10, <2>2 DEF BehindInv
<1>14. Estimating'
    BY <1>1 DEF Estimating
<1> QED
    BY <1>11, <1>12, <1>13, <1>14 DEF FractionInv

\* Time takes the count of an estimate in progress on, and leaves the rest behind.
LEMMA FractionElapse ==
    ASSUME ClockedInv, LagInv, FractionInv, TimePasses
    PROVE  FractionInv'
<1>0. /\ wall \in Nat /\ call_wall \in Nat /\ Reading \in Nat /\ SampleReading \in Nat
      /\ ElapseNanos \in Nat /\ ElapseTicks \in Nat /\ MAX_REFRESH_INTERVAL_NANOS \in Nat
    BY FractionFacts
<1>1. /\ Elapse
      /\ UNCHANGED <<ticks_per_ms, sampled_at, next_deadline, sample, backend, pc, kind,
                     call_wall, last_ms, last_nanos_within_ms,
                     last_sampled_nanos_within_ms>>
    BY DEF TimePasses, clock_vars, refresh_vars, state_vars
<1>2. PICK w \in Nat : w = wall + ElapseNanos /\ wall' = w
    BY <1>0, <1>1 DEF Elapse
<1>3. /\ MsOf(sample)' = MsOf(sample) /\ (sample % NANOS_PER_MS)' = sample % NANOS_PER_MS
      /\ (RateNotBelow' <=> RateNotBelow) /\ CP!Interval' = CP!Interval
      /\ CP!wrapping_add(sampled_at, CP!Interval)' = CP!wrapping_add(sampled_at, CP!Interval)
      /\ ReuseNanos' = ReuseNanos /\ Reading' = Reading /\ SampleReading' = SampleReading
    BY <1>1 DEF MsOf, RateNotBelow, CP!Interval, CP!wrapping_add, ReuseNanos, Reading,
        SampleReading
<1>4. SampleInv'
    <2>1. SampleReading <= w
        BY <1>0, <1>2 DEF FractionInv, SampleInv
    <2> QED BY <1>1, <1>2, <1>3, <2>1 DEF FractionInv, SampleInv
<1>5. AheadInv'
    <2>1. /\ Reading <= wall => Reading <= w
          /\ Reading < wall + MAX_REFRESH_INTERVAL_NANOS
                 => Reading < w + MAX_REFRESH_INTERVAL_NANOS
        BY <1>0, <1>2
    <2> QED BY <1>1, <1>2, <1>3, <2>1 DEF FractionInv, AheadInv, MAX_REFRESH_INTERVAL_NANOS
<1>6. BehindInv'
    BY <1>1, <1>3 DEF FractionInv, BehindInv
<1>7. Estimating'
    <2> SUFFICES ASSUME pc = "estimate" PROVE Estimating'
        BY <1>1 DEF Estimating
    <2>1. PICK n \in Nat, d \in Nat, k \in Nat, e \in Nat : EstimateOf(n, d, k, e)
        BY DEF FractionInv, Estimating
    <2>2. CP!Ran(n + 1)'
        <3>1. CP!Elapse /\ CP!Ran(n)
            BY <1>1, <2>1, SameClock DEF EstimateOf
        <3> QED BY <3>1, CP!RanElapse, ClockIsGiven DEF ClockGiven
    <2>3. d + 1 <= n + 1 /\ n + 1 \in Nat /\ d + 1 \in Nat
        BY <2>1 DEF EstimateOf
    <2>4. PICK x \in Nat, y \in Nat :
              /\ x = d * ElapseNanos /\ (d + 1) * ElapseNanos = x + ElapseNanos
              /\ y = d * ElapseTicks /\ (d + 1) * ElapseTicks = y + ElapseTicks
        BY <1>0
    <2>5. wall' = call_wall + (d + 1) * ElapseNanos
        <3>1. wall = call_wall + x
            BY <2>1, <2>4 DEF EstimateOf
        <3> QED BY <1>0, <1>2, <2>4, <3>1
    <2>6. tsc' = CP!wrapping_add(sampled_at, e + (d + 1) * ElapseTicks)
        <3>1. tsc' = CP!wrapping_add(CP!wrapping_add(sampled_at, e + y), ElapseTicks)
            <4>1. CP!Elapse
                BY <1>1, SameClock
            <4> QED BY <2>1, <2>4, <4>1 DEF EstimateOf, CP!Elapse
        <3>2. sampled_at \in Int
            <4>1. sampled_at \in 0 .. U64 - 1 /\ U64 \in Nat
                BY InvParts, ArithAssumption DEF TimeOK
            <4> QED BY <4>1
        <3>3. e + y \in Int /\ ElapseTicks \in Int
            BY <1>0
        <3>4. CP!wrapping_add(CP!wrapping_add(sampled_at, e + y), ElapseTicks)
                  = CP!wrapping_add(sampled_at, (e + y) + ElapseTicks)
            BY <3>2, <3>3, CP!WrapTwice, ClockIsGiven DEF ClockGiven
        <3>5. (e + y) + ElapseTicks = e + (d + 1) * ElapseTicks
            BY <1>0, <2>4
        <3> QED BY <3>1, <3>4, <3>5
    <2>7. EstimateOf(n + 1, d + 1, k, e)'
        <3>1. /\ call_wall = sample + k * ElapseNanos
              /\ e < CP!Interval /\ k * ElapseTicks <= 2 * e
            BY <2>1 DEF EstimateOf
        <3> QED BY <1>1, <1>3, <2>2, <2>3, <2>5, <2>6, <3>1 DEF EstimateOf, CP!wrapping_add
    <2> QED BY <1>1, <2>3, <2>7 DEF FractionInv, Estimating
<1> QED
    BY <1>4, <1>5, <1>6, <1>7 DEF FractionInv

\* No step takes a thread's time out of its bounds.
LEMMA FractionStep ==
    ASSUME WithinHalfRange, ClockedInv, LagInv, BudgetInv', FractionInv, [Next]_vars
    PROVE  FractionInv'
<1>1. CASE Calibrate
    <2>1. /\ pc \in Calibrating /\ last_ms = 0 /\ pc' # "estimate"
          /\ UNCHANGED <<wall, backend, last_ms, last_nanos_within_ms,
                         last_sampled_nanos_within_ms>>
        BY <1>1 DEF Calibrate, Declare, StartMeasuring, ReadStartTsc, ReadEndTsc,
            EndMeasuring, ThreadUnchanged, state_vars, time_vars, LagInv, ModeInv,
            Calibrating
    <2>2. Reading' = Reading /\ SampleReading' = SampleReading
        BY <2>1 DEF Reading, SampleReading
    <2>3. Reading <= wall /\ Reading < wall + MAX_REFRESH_INTERVAL_NANOS
        <3>1. Reading <= wall
            BY <2>1 DEF FractionInv, AheadInv
        <3> QED BY <3>1, FractionFacts
    <2>4. AheadInv'
        BY <2>1, <2>2, <2>3 DEF AheadInv, MAX_REFRESH_INTERVAL_NANOS
    <2>5. SampleInv' /\ BehindInv' /\ Estimating'
        BY <2>1, <2>2 DEF FractionInv, SampleInv, BehindInv, Estimating
    <2> QED BY <2>4, <2>5 DEF FractionInv
<1>2. CASE \E k \in {"random", "count"} : CallOnCachedMs(k)
    BY <1>2, FractionCached
<1>3. CASE CallEstimating
    BY <1>3, FractionCall
<1>4. CASE Estimate
    BY <1>4, FractionEstimate
<1>5. CASE \/ \E k \in {"random", "sub_ms", "count"} : CallRefreshing(k)
           \/ RefreshBefore \/ RefreshWall
    <2>1. /\ UNCHANGED <<wall, last_ms, last_nanos_within_ms,
                         last_sampled_nanos_within_ms, ticks_per_ms, backend>>
          /\ pc' \notin {"idle", "estimate"} /\ pc' \notin Calibrating
        BY <1>5 DEF CallRefreshing, RefreshBefore, ReadCounterBefore, RefreshWall, ReadWall,
            time_vars, clock_vars, state_vars, Calibrating
    <2> QED BY <2>1, FractionKept
<1>6. CASE RefreshAfter
    BY <1>6, FractionRefresh
<1>7. CASE TimePasses
    BY <1>7, FractionElapse
<1>8. CASE UNCHANGED vars
    <2>1. UNCHANGED <<wall, tsc, ticks_per_ms, sampled_at, next_deadline, sample, backend,
                      pc, kind, call_wall, last_ms, last_nanos_within_ms,
                      last_sampled_nanos_within_ms>>
        BY <1>8 DEF vars, time_vars, clock_vars, refresh_vars, state_vars, call_vars
    <2>2. /\ MsOf(sample)' = MsOf(sample) /\ (sample % NANOS_PER_MS)' = sample % NANOS_PER_MS
          /\ (RateNotBelow' <=> RateNotBelow) /\ CP!Interval' = CP!Interval
          /\ CP!wrapping_add(sampled_at, CP!Interval)'
                 = CP!wrapping_add(sampled_at, CP!Interval)
          /\ ReuseNanos' = ReuseNanos /\ Reading' = Reading /\ SampleReading' = SampleReading
        BY <2>1 DEF MsOf, RateNotBelow, CP!Interval, CP!wrapping_add, ReuseNanos, Reading,
            SampleReading
    <2>3. \A n, d, k, e : EstimateOf(n, d, k, e) => EstimateOf(n, d, k, e)'
        BY <2>1, <2>2 DEF EstimateOf, CP!Ran, CP!wrapping_add
    <2>4. Estimating'
        BY <2>1, <2>3 DEF FractionInv, Estimating
    <2>5. SampleInv' /\ AheadInv' /\ BehindInv'
        BY <2>1, <2>2 DEF FractionInv, SampleInv, AheadInv, BehindInv,
            MAX_REFRESH_INTERVAL_NANOS
    <2> QED BY <2>4, <2>5 DEF FractionInv
<1> QED
    BY <1>1, <1>2, <1>3, <1>4, <1>5, <1>6, <1>7, <1>8 DEF Next

\* Before the first call there is no time to bound.
LEMMA FractionInit ==
    ASSUME Init
    PROVE  FractionInv
<1>1. /\ last_ms = 0 /\ last_nanos_within_ms = 0 /\ last_sampled_nanos_within_ms = 0
      /\ pc \in {"new", "idle"} /\ wall \in Nat
    BY ClockAssumption DEF Init, ClockInit, T!Init
<1>2. Reading = 0 /\ SampleReading = 0
    BY <1>1, ArithAssumption DEF Reading, SampleReading
<1>3. 0 <= wall /\ 0 < wall + MAX_REFRESH_INTERVAL_NANOS
    BY <1>1, FractionFacts, ClockedInvInit
<1> QED
    BY <1>1, <1>2, <1>3 DEF FractionInv, SampleInv, Estimating, AheadInv, BehindInv

\* The window of slots of a fraction holds the thread's time, so its bounds are
\* the window's.
LEMMA FractionBounds ==
    ASSUME ClockedInv, AheadInv, BehindInv
    PROVE  FractionNearCall
<1>0. SUFFICES ASSUME Returned, kind = "sub_ms", NEW slots \in SubMsSlots
               PROVE  /\ backend = "system" =>
                             interval_gap_ns(WindowStart(slots), WindowEnd(slots),
                                             call_wall, wall) = 0
                      /\ call_wall - WindowEnd(slots) <= ReuseNanos
                      /\ RateNotBelow =>
                             WindowStart(slots) - wall < MAX_REFRESH_INTERVAL_NANOS
    BY DEF FractionNearCall, RateNotBelow
<1>1. PICK x \in Nat, nanos \in 0 .. NANOS_PER_MS - 1 :
          /\ x = last_ms * NANOS_PER_MS /\ nanos = last_nanos_within_ms
          /\ Reading = x + nanos
    <2>1. last_ms * NANOS_PER_MS \in Nat
        BY FractionFacts
    <2> QED BY <2>1, FractionFacts DEF Reading
<1>2. PICK a \in Int, b \in Int :
          WindowStart(slots) = x + a /\ WindowEnd(slots) = x + b /\ a <= nanos /\ nanos <= b
    BY <1>1, WindowHolds DEF WindowStart, WindowEnd
<1>3. PICK w \in Nat, c \in Nat, m \in Nat, reuse \in Nat :
          /\ w = wall /\ c = call_wall /\ m = MAX_REFRESH_INTERVAL_NANOS /\ reuse = ReuseNanos
    BY FractionFacts, ReuseIsNat
<1>4. /\ backend = "system" => c <= x + nanos /\ x + nanos <= w
      /\ c - reuse <= x + nanos
      /\ RateNotBelow => x + nanos < w + m
    <2>1. /\ c - (IF backend = "system" THEN 0 ELSE reuse) <= x + nanos
          /\ backend = "system" => x + nanos <= w
          /\ RateNotBelow => x + nanos < w + m
        BY <1>0, <1>1, <1>3 DEF Returned, AheadInv, BehindInv
    <2> QED BY <2>1
<1>5. backend = "system" => Most(0, Most(c - (x + b), (x + a) - w)) = 0
    BY <1>2, <1>4 DEF Most
<1>6. c - (x + b) <= reuse /\ (RateNotBelow => (x + a) - w < m)
    BY <1>2, <1>4
<1> QED
    BY <1>2, <1>3, <1>5, <1>6 DEF interval_gap_ns

\* The window of an id with a fraction lags its call by no more than its
\* millisecond may, and runs ahead of the clock by less than the refresh
\* interval unless the rate is too low; without a counter it holds the call:
\* at any rate, wherever calls are preempted, between estimates and borrowed
\* milliseconds of any number.
THEOREM FractionTheorem ==
    ASSUME WithinHalfRange, WithinBudget
    PROVE  Spec => []FractionNearCall
<1>1. Init => LagInv /\ BudgetInv /\ FractionInv
    <2> SUFFICES ASSUME Init PROVE LagInv /\ BudgetInv /\ FractionInv
        OBVIOUS
    <2> QED BY LagInvInit, FractionInit, BudgetInit
<1>2. ClockedInv /\ LagInv /\ BudgetInv /\ FractionInv /\ [Next]_vars
      => LagInv' /\ BudgetInv' /\ FractionInv'
    BY LagInvStep, BudgetStep, FractionStep
<1>3. ClockedInv /\ FractionInv => FractionNearCall
    BY FractionBounds DEF FractionInv
<1> QED
    BY <1>1, <1>2, <1>3, ClockedInvariant, PTL DEF Spec
=============================================================================
