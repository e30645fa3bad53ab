----------------------- MODULE ClockedSequentialProofs -----------------------
(***************************************************************************)
(* Theorems about ClockedSequential for every rate, step of time, counter  *)
(* start and preemption: how far the timestamps of a generator may be from *)
(* the wall clock, behind it or ahead of it.                               *)
(***************************************************************************)
EXTENDS ClockedSequential, UuidLayoutProofs

GP == INSTANCE SequentialGeneratorProofs

-----------------------------------------------------------------------------
(* The arithmetic of deadlines *)

\* u64 arithmetic stays in u64.
LEMMA WrapRange ==
    ASSUME NEW a \in Int, NEW b \in Int
    PROVE  wrapping_add(a, b) \in 0 .. U64 - 1 /\ wrapping_sub(a, b) \in 0 .. U64 - 1
<1>1. U64 \in Nat \ {0} /\ a + b \in Int /\ a - b \in Int
    BY ArithAssumption
<1> QED
    BY <1>1, SplitInt DEF wrapping_add, wrapping_sub

\* Time added to a counter in two parts.
LEMMA WrapTwice ==
    ASSUME NEW a \in Int, NEW b \in Int, NEW c \in Int
    PROVE  /\ wrapping_add(wrapping_add(a, b), c) = wrapping_add(a, b + c)
           /\ wrapping_sub(wrapping_add(a, b), c) = wrapping_add(a, b - c)
           /\ wrapping_sub(wrapping_add(a, b), a) = b % U64
<1>1. U64 \in Nat \ {0} /\ a + b \in Int /\ -c \in Int /\ -a \in Int
    BY ArithAssumption
<1>2. (((a + b) % U64) + c) % U64 = ((a + b) + c) % U64
    BY <1>1, ModThenAdd
<1>3. (((a + b) % U64) + (-c)) % U64 = ((a + b) + (-c)) % U64
    BY <1>1, ModThenAdd
<1>4. (((a + b) % U64) + (-a)) % U64 = ((a + b) + (-a)) % U64
    BY <1>1, ModThenAdd
<1>5. PICK x \in Int : x = (a + b) % U64
    BY <1>1
<1>6. /\ (a + b) + c = a + (b + c)
      /\ (a + b) + (-c) = a + (b - c) /\ x + (-c) = x - c
      /\ (a + b) + (-a) = b /\ x + (-a) = x - a
    BY <1>5
<1> QED
    BY <1>2, <1>3, <1>4, <1>5, <1>6 DEF wrapping_add, wrapping_sub

\* The two steps of a product that saturates.
LEMMA SaturatedNat ==
    ASSUME NEW a \in Nat, NEW b \in Nat
    PROVE  /\ saturating_mul(a, b) \in Nat /\ saturating_mul(a, b) <= a * b
           /\ saturating_add(a, b) \in Nat /\ saturating_add(a, b) <= a + b
<1>1. a * b \in Nat /\ a + b \in Nat /\ U64 - 1 \in Nat
    BY ArithAssumption
<1> QED
    BY <1>1 DEF saturating_mul, saturating_add, Least

\* A refresh is due within the refresh interval and the millisecond.
LEMMA RefreshNanos ==
    ASSUME NEW nanos \in 0 .. NANOS_PER_MS - 1
    PROVE  /\ NANOS_PER_MS \in Nat \ {0}
           /\ MAX_REFRESH_INTERVAL_NANOS \in Nat
           /\ nanos_until_next_refresh(nanos) \in 1 .. MAX_REFRESH_INTERVAL_NANOS
           /\ nanos_until_next_refresh(nanos) <= NANOS_PER_MS - nanos
           /\ nanos_until_next_refresh(0) = MAX_REFRESH_INTERVAL_NANOS
<1>1. NANOS_PER_MS \in Nat \ {0} /\ NANOS_PER_MS >= 2 /\ nanos \in Nat
    BY ArithAssumption
<1>2. MAX_REFRESH_INTERVAL_NANOS \in 1 .. NANOS_PER_MS
    BY <1>1 DEF MAX_REFRESH_INTERVAL_NANOS
<1>3. nanos % NANOS_PER_MS = nanos /\ 0 % NANOS_PER_MS = 0
    BY <1>1, ModOfSmall
<1> QED
    BY <1>1, <1>2, <1>3 DEF nanos_until_next_refresh, nanos_until_next_ms, Least

\* The ticks of a refresh interval: rounded up by less than one, and never more
\* than those of a sample taken when the millisecond begins.
LEMMA RefreshTicks ==
    ASSUME NEW rate \in Nat \ {0}, NEW nanos \in 0 .. NANOS_PER_MS - 1
    PROVE  /\ ticks_until_next_refresh(rate, nanos) \in Nat \ {0}
           /\ NANOS_PER_MS * (ticks_until_next_refresh(rate, nanos) - 1)
                  < rate * nanos_until_next_refresh(nanos)
           /\ ticks_until_next_refresh(rate, nanos) <= ticks_until_next_refresh(rate, 0)
<1>1. PICK n \in Nat \ {0}, i \in Nat \ {0}, m \in Nat \ {0} :
          /\ n = NANOS_PER_MS /\ i = nanos_until_next_refresh(nanos) /\ i <= m
          /\ m = nanos_until_next_refresh(0)
    <2>1. nanos_until_next_refresh(nanos) \in Nat \ {0}
          /\ MAX_REFRESH_INTERVAL_NANOS \in Nat \ {0}
        BY RefreshNanos
    <2> QED BY <2>1, RefreshNanos
<1>2. PICK p \in Nat \ {0}, r \in Nat : p = rate * i /\ r = rate * m /\ p <= r
    <2>1. PICK j \in Nat : m = i + j
        <3>1. m - i \in Nat /\ m = i + (m - i)
            BY <1>1
        <3> QED BY <3>1
    <2>2. PICK k \in Nat : rate = k + 1
        <3>1. rate - 1 \in Nat /\ rate = (rate - 1) + 1
            OBVIOUS
        <3> QED BY <3>1
    <2>3. PICK x \in Nat, y \in Nat, z \in Nat :
              x = rate * j /\ y = rate * i /\ rate * m = y + x /\ z = k * i /\ y = z + i
        BY <2>1, <2>2
    <2> QED BY <2>3
<1>3. PICK a \in Nat, b \in Nat :
          /\ a = saturating_mul(rate, i) /\ b = saturating_mul(rate, m)
          /\ a <= p /\ a <= b
    <2>1. U64 - 1 \in Nat
        BY ArithAssumption
    <2> QED BY <1>2, <2>1 DEF saturating_mul, Least
<1>4. PICK c \in Nat, d \in Nat :
          /\ c = saturating_add(a, n - 1) /\ d = saturating_add(b, n - 1)
          /\ c <= a + (n - 1) /\ c <= d
    <2>1. U64 - 1 \in Nat
        BY ArithAssumption
    <2> QED BY <1>3, <2>1 DEF saturating_add, Least
<1>5. PICK q \in Nat, s \in 0 .. n - 1, t \in Nat :
          /\ q = c \div n /\ c = q * n + s
          /\ t = d \div n /\ q <= t
    <2>1. c \div n \in Nat /\ c % n \in 0 .. n - 1 /\ c = (c \div n) * n + (c % n)
          /\ d \div n \in Nat
        BY DivMod
    <2>2. c \div n <= d \div n
        BY <1>4, DivMonotone
    <2> QED BY <2>1, <2>2
<1>6. ticks_until_next_refresh(rate, nanos) = Most(1, q)
      /\ ticks_until_next_refresh(rate, 0) = Most(1, t)
    BY <1>1, <1>3, <1>4, <1>5 DEF ticks_until_next_refresh
<1>7. n * (Most(1, q) - 1) < p
    <2>1. CASE q > 1
        <3>1. PICK x \in Nat : x = q * n /\ n * (q - 1) = x - n
            OBVIOUS
        <3> QED BY <1>3, <1>4, <1>5, <2>1, <3>1 DEF Most
    <2>2. CASE ~(q > 1)
        <3>1. Most(1, q) - 1 = 0
            BY <2>2 DEF Most
        <3>2. n * 0 = 0
            OBVIOUS
        <3> QED BY <3>1, <3>2
    <2> QED BY <2>1, <2>2
<1>8. Most(1, q) \in Nat \ {0} /\ Most(1, q) <= Most(1, t)
    BY <1>5 DEF Most
<1> QED
    BY <1>1, <1>2, <1>6, <1>7, <1>8

\* What a deadline may be late by.  k steps have passed since the sample, at
\* most twice the ticks to the deadline and those the counter fell by, since
\* preemption dates the sample half-way through its refresh.  With the time a
\* too fast rate costs taken off, the sampled millisecond is not over yet.
LEMMA DeadlineInTime ==
    ASSUME NEW n \in Nat \ {0}, NEW en \in Nat \ {0}, NEW et \in Nat \ {0},
           NEW rate \in Nat \ {0}, NEW m \in Nat, NEW i \in 1 .. m,
           NEW d \in Nat \ {0}, n * (d - 1) < rate * i,
           NEW j \in Nat, NEW jn \in Nat, jn * et = j * en,
           NEW k \in Nat, k * et <= 2 * ((d - 1) + j),
           NEW reuse \in Nat, (2 * m) * (rate * en) <= (reuse + m) * (n * et)
    PROVE  k * en - reuse - 2 * jn < i
<1>1. PICK p \in Nat \ {0}, y \in Nat \ {0} : p = n * et /\ y = rate * en
    OBVIOUS
<1>2. PICK b \in Nat : b = (d - 1) * (en * n) /\ b < i * y
    <2>1. d - 1 \in Nat /\ en * n \in Nat
        OBVIOUS
    <2>2. PICK b \in Nat : b = (d - 1) * (en * n)
        BY <2>1
    <2>3. PICK u \in Int, v \in Int : u = n * (d - 1) /\ v = rate * i /\ u < v
        OBVIOUS
    <2>4. u * en < v * en
        <3>1. u * en \in Int /\ v * en \in Int
            BY <2>3
        <3>2. ~(v * en <= u * en)
            BY <2>3, TimesOrder
        <3> QED BY <3>1, <3>2
    <2>5. u * en = b /\ v * en = i * y
        <3>1. (n * (d - 1)) * en = (d - 1) * (en * n)
            OBVIOUS
        <3>2. (rate * i) * en = i * (rate * en)
            OBVIOUS
        <3> QED BY <1>1, <2>2, <2>3, <3>1, <3>2
    <2> QED BY <2>2, <2>4, <2>5
<1>3. PICK c \in Nat : c = jn * p /\ c = j * (en * n)
    <2>1. jn * (n * et) = (jn * et) * n /\ j * (en * n) = (j * en) * n
        OBVIOUS
    <2>2. jn * (n * et) \in Nat
        OBVIOUS
    <2> QED BY <1>1, <2>1, <2>2
<1>4. PICK x \in Nat : x = (k * en) * p /\ x <= 2 * b + 2 * c
    <2>1. (k * et) * (en * n) <= (2 * ((d - 1) + j)) * (en * n)
        <3>1. k * et \in Int /\ 2 * ((d - 1) + j) \in Int /\ en * n \in Nat
            OBVIOUS
        <3> QED BY <3>1, TimesOrder
    <2>2. (k * et) * (en * n) = (k * en) * (n * et)
        OBVIOUS
    <2>3. (2 * ((d - 1) + j)) * (en * n) = 2 * ((d - 1) * (en * n)) + 2 * (j * (en * n))
        OBVIOUS
    <2>4. (k * en) * (n * et) \in Nat
        OBVIOUS
    <2> QED BY <1>1, <1>2, <1>3, <2>1, <2>2, <2>3, <2>4
<1>5. PICK r \in Nat, z \in Nat, w \in Nat, v \in Nat :
          /\ r = reuse * p /\ z = i * y /\ w = m * p /\ v = i * p
    BY <1>1
<1>6. 2 * z <= r + v
    <2>1. CASE 2 * y <= p
        <3>1. i * (2 * y) <= i * p
            <4>1. (2 * y) * i <= p * i
                BY <2>1, TimesOrder
            <4> QED BY <4>1
        <3>2. i * (2 * y) = 2 * (i * y)
            OBVIOUS
        <3> QED BY <1>5, <3>1, <3>2
    <2>2. CASE ~(2 * y <= p)
        <3>1. PICK e \in Nat : m = i + e
            <4>1. m - i \in Nat /\ m = i + (m - i)
                OBVIOUS
            <4> QED BY <4>1
        <3>2. PICK f \in Nat, g \in Nat : f = e * y /\ g = e * p /\ g <= 2 * f
            <4>1. p * e <= (2 * y) * e
                BY <2>2, <3>1, TimesOrder
            <4>2. p * e = e * p /\ (2 * y) * e = 2 * (e * y) /\ e * y \in Nat /\ e * p \in Nat
                BY <3>1
            <4> QED BY <4>1, <4>2
        <3>3. (2 * m) * y = 2 * z + 2 * f
            <4>1. (2 * (i + e)) * y = 2 * (i * y) + 2 * (e * y)
                BY <3>1
            <4> QED BY <1>5, <3>1, <3>2, <4>1
        <3>4. (reuse + m) * p = r + v + g
            <4>1. (reuse + (i + e)) * p = reuse * p + i * p + e * p
                BY <3>1
            <4> QED BY <1>5, <3>1, <3>2, <4>1
        <3>5. (2 * m) * y <= (reuse + m) * p
            BY <1>1
        <3> QED BY <1>5, <3>2, <3>3, <3>4, <3>5
    <2> QED BY <2>1, <2>2
<1>7. ~(i * p <= (k * en - reuse - 2 * jn) * p)
    <2>1. (k * en - reuse - 2 * jn) * p = (k * en) * p - reuse * p - 2 * (jn * p)
        OBVIOUS
    <2> QED BY <1>2, <1>3, <1>4, <1>5, <1>6, <2>1
<1>8. k * en - reuse - 2 * jn \in Int
    OBVIOUS
<1> QED
    BY <1>7, <1>8, TimesOrder

\* What ReuseNanos grants covers what the rate costs, rounded up.
LEMMA ReuseCovers ==
    ASSUME ticks_per_ms \in Nat
    PROVE  /\ ReuseNanos \in Nat
           /\ (2 * MAX_REFRESH_INTERVAL_NANOS) * (ticks_per_ms * ElapseNanos)
                  <= (ReuseNanos + MAX_REFRESH_INTERVAL_NANOS) * (NANOS_PER_MS * ElapseTicks)
<1>1. PICK p \in Nat \ {0}, m \in Nat, b \in Nat :
          /\ p = NANOS_PER_MS * ElapseTicks /\ m = MAX_REFRESH_INTERVAL_NANOS
          /\ b = 2 * MAX_REFRESH_INTERVAL_NANOS * ticks_per_ms * ElapseNanos
          /\ b = (2 * MAX_REFRESH_INTERVAL_NANOS) * (ticks_per_ms * ElapseNanos)
    <2>1. /\ NANOS_PER_MS \in Nat \ {0} /\ ElapseTicks \in Nat \ {0}
          /\ ElapseNanos \in Nat /\ MAX_REFRESH_INTERVAL_NANOS \in Nat
        <3>1. NANOS_PER_MS \in Nat \ {0} /\ 0 \in 0 .. NANOS_PER_MS - 1
            BY ArithAssumption
        <3> QED BY <3>1, ClockAssumption, RefreshNanos
    <2>2. ASSUME NEW x \in Nat, NEW y \in Nat, NEW z \in Nat
          PROVE  2 * x * y * z \in Nat /\ 2 * x * y * z = (2 * x) * (y * z)
        OBVIOUS
    <2>3. NANOS_PER_MS * ElapseTicks \in Nat \ {0}
        BY <2>1
    <2> QED BY <2>1, <2>2, <2>3
<1>2. PICK q \in Int, s \in 0 .. p - 1 :
          q = (b + p - 1) \div p /\ b + p - 1 = q * p + s
    <2>1. b + p - 1 \in Int
        OBVIOUS
    <2> QED BY <2>1, SplitInt
<1>3. b <= q * p
    <2>1. q * p \in Int
        OBVIOUS
    <2> QED BY <1>2, <2>1
<1>4. ReuseNanos = Most(0, q - m)
    BY <1>1, <1>2 DEF ReuseNanos
<1>5. ReuseNanos \in Nat /\ q <= ReuseNanos + m
    BY <1>4 DEF Most
<1>6. q * p <= (ReuseNanos + m) * p
    BY <1>5, TimesOrder
<1>7. q * p \in Int /\ (ReuseNanos + m) * p \in Int
    BY <1>5
<1> QED
    BY <1>1, <1>3, <1>5, <1>6, <1>7

-----------------------------------------------------------------------------
(* Type correctness *)

\* Room for the id of the call in progress; the rate is the one taken first.
ClockedInv ==
    /\ TypeOK
    /\ ticks_per_ms \in Rates
    /\ pc # "idle" => ids_in_ms < IdsPerMs

\* The generator in the clock's hands is the one SequentialGeneratorProofs is
\* about.
LEMMA CallsOfGenerator ==
    /\ Generator!UseCachedMs => GP!next_id
    /\ \A ms \in 0 .. MaxMs : Generator!UseReading(ms) => GP!next_id
<1> USE DEF Generator!Advance, GP!Advance, Generator!RollOver, GP!RollOver,
            Generator!Increment, GP!Increment, Generator!seed_counter, GP!seed_counter,
            Generator!counter_exhausted, GP!counter_exhausted,
            Generator!Later, GP!Later
<1>1. ASSUME NEW ts, NEW c, NEW r
      PROVE  Generator!counter_id(ts, c, r) = GP!counter_id(ts, c, r)
    BY DEF Generator!counter_id, GP!counter_id,
       Generator!uuid_v7_from_parts, GP!uuid_v7_from_parts,
       Generator!Pack, GP!Pack, Generator!RandBMod, GP!RandBMod,
       Generator!Version, GP!Version, Generator!Variant, GP!Variant
<1>2. Generator!ReturnId => GP!ReturnId
    BY <1>1 DEF Generator!ReturnId, GP!ReturnId
<1>3. Generator!UseCachedMs => GP!next_id
    BY <1>2 DEF Generator!UseCachedMs, GP!UseCachedMs, GP!next_id
<1>4. ASSUME NEW ms \in 0 .. MaxMs, Generator!UseReading(ms)
      PROVE  GP!next_id
    BY <1>2, <1>4 DEF Generator!UseReading, GP!UseReading, GP!next_id
<1> QED
    BY <1>3, <1>4

\* A call keeps the ranges of the generator's fields.
LEMMA CallType ==
    ASSUME Generator!TypeOK,
           \/ Generator!UseCachedMs
           \/ \E ms \in 0 .. MaxMs : Generator!UseReading(ms)
    PROVE  Generator!TypeOK'
<1>1. GP!next_id /\ GP!TypeOK
    BY CallsOfGenerator DEF Generator!TypeOK, GP!TypeOK
<1>2. GP!TypeOK'
    BY <1>1, LayoutAssumption, ClockedSequentialAssumption, GP!TypeStep DEF GP!Next
<1> QED
    BY <1>2 DEF Generator!TypeOK, GP!TypeOK

\* The sample is a reading the generator can take.
LEMMA SampleMs ==
    ASSUME TypeOK
    PROVE  /\ sample \in 0 .. MaxWall /\ MsOf(sample) \in 0 .. MaxMs
           /\ sample % NANOS_PER_MS \in 0 .. NANOS_PER_MS - 1
<1>1. /\ NANOS_PER_MS \in Nat \ {0} /\ MaxMs \in Nat
      /\ MaxWall \in Nat /\ MaxWall \div NANOS_PER_MS <= MaxMs
    BY ArithAssumption, ClockAssumption, ClockedSequentialAssumption
<1>2. sample \in Nat /\ sample <= MaxWall
    BY <1>1 DEF TypeOK
<1>3. sample \div NANOS_PER_MS <= MaxWall \div NANOS_PER_MS
    BY <1>1, <1>2, DivMonotone
<1>4. /\ sample \div NANOS_PER_MS \in Nat /\ MaxWall \div NANOS_PER_MS \in Nat
      /\ sample % NANOS_PER_MS \in 0 .. NANOS_PER_MS - 1
    BY <1>1, <1>2, DivMod
<1> QED
    BY <1>1, <1>2, <1>3, <1>4 DEF MsOf

\* The ranges of time, clock and caller, TypeOK's parts besides the generator's.
TimeOK ==
    /\ wall \in 0 .. MaxWall
    /\ tsc \in 0 .. U64 - 1 /\ sampled_at \in 0 .. U64 - 1
    /\ next_deadline \in 0 .. U64 - 1 /\ before \in 0 .. U64 - 1
    /\ sample \in 0 .. wall
    /\ call_wall \in 0 .. wall

CallOK ==
    /\ pc \in {"idle", "due", "before", "sampled"}
    /\ ids_in_ms \in 0 .. IdsPerMs
    /\ pc # "idle" => ids_in_ms < IdsPerMs
    /\ ticks_per_ms \in Rates
    /\ pause \in 0 .. RestTicks

\* Time, the call in progress and the generator are separate concerns.
LEMMA InvParts == ClockedInv <=> Generator!TypeOK /\ TimeOK /\ CallOK
BY DEF ClockedInv, TypeOK, TimeOK, CallOK

\* Time goes on, and readings stay readings.
LEMMA TimeStep ==
    ASSUME TimeOK, ticks_per_ms \in Nat \ {0}, [NextMoved]_vars,
           sample % NANOS_PER_MS \in 0 .. NANOS_PER_MS - 1
    PROVE  TimeOK' /\ wall <= wall'
<1>0. U64 \in Nat /\ U64 > 0 /\ wall \in Nat /\ MaxWall \in Nat
    BY ArithAssumption, ClockAssumption DEF TimeOK
<1>1. CASE CallOnCachedMs \/ CallRefreshing
    BY <1>0, <1>1 DEF CallOnCachedMs, CallRefreshing, StartCall, TimeOK,
        time_vars, clock_vars, refresh_vars
<1>2. CASE RefreshBefore
    BY <1>0, <1>2 DEF RefreshBefore, ReadCounterBefore, read_counter, TimeOK,
        time_vars, clock_vars
<1>3. CASE RefreshWall
    BY <1>0, <1>3 DEF RefreshWall, ReadWall, TimeOK, time_vars, clock_vars
<1>4. CASE RefreshAfter
    <2>1. PICK at \in 0 .. U64 - 1 :
              at = wrapping_add(before, wrapping_sub(read_counter, before) \div 2)
        <3>1. tsc \in Int /\ before \in Int
            BY <1>0 DEF TimeOK
        <3>2. wrapping_sub(tsc, before) \in 0 .. U64 - 1
            BY <3>1, WrapRange
        <3>3. wrapping_sub(tsc, before) \div 2 \in Int
            BY <1>0, <3>2
        <3> QED BY <3>1, <3>3, WrapRange DEF read_counter
    <2>2. wrapping_add(at, ticks_until_next_refresh(ticks_per_ms, sample % NANOS_PER_MS))
              \in 0 .. U64 - 1
        <3>1. PICK d \in Int : d = ticks_until_next_refresh(ticks_per_ms, sample % NANOS_PER_MS)
            BY RefreshTicks
        <3>2. at \in Int
            BY <1>0, <2>1
        <3>3. wrapping_add(at, d) \in 0 .. U64 - 1
            BY <3>2, WrapRange
        <3> QED BY <3>1, <3>3
    <2>3. /\ sampled_at' = at
          /\ next_deadline' = wrapping_add(at, ticks_until_next_refresh(
                                       ticks_per_ms, sample % NANOS_PER_MS))
          /\ UNCHANGED <<wall, tsc, before, sample, call_wall>>
        BY <1>4, <2>1 DEF RefreshAfter, ReadCounterAfter, record_sample, time_vars, refresh_vars
    <2> QED BY <1>0, <2>2, <2>3 DEF TimeOK
<1>5. CASE TimePasses
    <2>1. wrapping_add(tsc, ElapseTicks) \in 0 .. U64 - 1
        <3>1. tsc \in Int /\ ElapseTicks \in Int
            BY <1>0, ClockAssumption DEF TimeOK
        <3> QED BY <3>1, WrapRange
    <2>2. wall' \in 0 .. MaxWall /\ wall <= wall'
        BY <1>0, <1>5, ClockAssumption DEF TimePasses, Elapse
    <2>3. /\ tsc' = wrapping_add(tsc, ElapseTicks)
          /\ UNCHANGED <<sampled_at, next_deadline, before, sample, call_wall>>
        BY <1>5 DEF TimePasses, Elapse, clock_vars, refresh_vars
    <2> QED BY <1>0, <2>1, <2>2, <2>3 DEF TimeOK
<1>6. CASE CounterFallsBack
    <2>1. wrapping_sub(tsc, CounterJump) \in 0 .. U64 - 1
        <3>1. tsc \in Int /\ CounterJump \in Int
            BY <1>0, JumpAssumption DEF TimeOK
        <3> QED BY <3>1, WrapRange
    <2>2. /\ tsc' = wrapping_sub(tsc, CounterJump)
          /\ UNCHANGED <<wall, sampled_at, next_deadline, before, sample, call_wall>>
        BY <1>6 DEF CounterFallsBack, clock_vars, refresh_vars, call_vars
    <2> QED BY <1>0, <2>1, <2>2 DEF TimeOK
<1>7. CASE UNCHANGED vars
    BY <1>0, <1>7 DEF vars, TimeOK, time_vars, clock_vars, refresh_vars, call_vars
<1> QED
    BY <1>1, <1>2, <1>3, <1>4, <1>5, <1>6, <1>7 DEF NextMoved, Next

\* The caller keeps to its rate through every step of a call.
LEMMA CallStep ==
    ASSUME CallOK, [NextMoved]_vars
    PROVE  CallOK'
<1>0. /\ IdsPerMs \in Nat /\ ids_in_ms \in 0 .. IdsPerMs
      /\ ticks_per_ms \in Nat \ {0} /\ ElapseTicks \in Nat
    BY ClockedSequentialAssumption, RatesAssumption, ClockAssumption DEF CallOK
<1>1. RestTicks \in Nat
    <2>1. 0 \in 0 .. NANOS_PER_MS - 1
        BY ArithAssumption
    <2> QED BY <1>0, <2>1, RefreshTicks DEF RestTicks
<1>2. ticks_per_ms' = ticks_per_ms /\ RestTicks' = RestTicks
    <2>1. ticks_per_ms' = ticks_per_ms
        BY DEF NextMoved, Next, CallOnCachedMs, CallRefreshing, RefreshBefore,
            ReadCounterBefore, RefreshWall, ReadWall, RefreshAfter, ReadCounterAfter,
            record_sample, TimePasses, CounterFallsBack, clock_vars, vars
    <2> QED BY <2>1 DEF RestTicks
<1>3. CASE CallOnCachedMs \/ CallRefreshing
    BY <1>0, <1>1, <1>2, <1>3 DEF CallOnCachedMs, CallRefreshing, StartCall, ReturnId, CallOK
<1>4. CASE RefreshBefore \/ RefreshWall
    BY <1>2, <1>4 DEF RefreshBefore, RefreshWall, CallOK
<1>5. CASE RefreshAfter
    BY <1>0, <1>1, <1>2, <1>5 DEF RefreshAfter, ReturnId, CallOK
<1>6. CASE TimePasses
    <2>1. pause' \in 0 .. RestTicks
        BY <1>0, <1>1, <1>6 DEF TimePasses, Least, CallOK
    <2>2. pc' = pc /\ (ids_in_ms' = ids_in_ms \/ ids_in_ms' = 0)
        BY <1>6 DEF TimePasses
    <2> QED BY <1>0, <1>2, <2>1, <2>2 DEF CallOK
<1>7. CASE CounterFallsBack
    BY <1>2, <1>7 DEF CounterFallsBack, call_vars, CallOK
<1>8. CASE UNCHANGED vars
    BY <1>2, <1>8 DEF vars, call_vars, CallOK
<1> QED
    BY <1>3, <1>4, <1>5, <1>6, <1>7, <1>8 DEF NextMoved, Next

\* The generator's fields move by its own calls only.
LEMMA GeneratorStep ==
    ASSUME ClockedInv, [NextMoved]_vars
    PROVE  \/ Generator!UseCachedMs /\ CallOnCachedMs
           \/ /\ Generator!UseReading(MsOf(sample)) /\ RefreshAfter
              /\ MsOf(sample) \in 0 .. MaxMs
           \/ UNCHANGED generator_vars /\ ~CallOnCachedMs /\ ~RefreshAfter
           \/ UNCHANGED vars
<1>1. MsOf(sample) \in 0 .. MaxMs
    BY SampleMs DEF ClockedInv
<1>2. CASE CallOnCachedMs \/ RefreshAfter
    BY <1>1, <1>2 DEF CallOnCachedMs, RefreshAfter
<1>3. CASE ~CallOnCachedMs /\ ~RefreshAfter
    BY <1>3 DEF NextMoved, Next, CallRefreshing, RefreshBefore, RefreshWall,
        TimePasses, CounterFallsBack, vars
<1> QED
    BY <1>2, <1>3

\* The generator starts with no call in progress.
LEMMA ClockedInvInit ==
    ASSUME Init
    PROVE  ClockedInv
<1>1. PICK rate \in Rates : ClockInit(rate)
    BY DEF Init
<1>2. Generator!TypeOK
    BY ClockedSequentialAssumption DEF Init, Generator!Init, Generator!TypeOK
<1>3. TimeOK
    BY <1>1, ClockAssumption, ArithAssumption DEF Init, ClockInit, TimeOK
<1>4. CallOK
    <2>1. rate \in Nat \ {0} /\ 0 \in 0 .. NANOS_PER_MS - 1
        BY RatesAssumption, ArithAssumption
    <2>2. RestTicks \in Nat
        BY <1>1, <2>1, RefreshTicks DEF RestTicks, ClockInit
    <2> QED BY <1>1, <2>2, ClockedSequentialAssumption DEF Init, ClockInit, CallOK
<1> QED
    BY <1>2, <1>3, <1>4, InvParts

\* No step, a fall of the counter included, leaves the ranges.
LEMMA ClockedInvStep ==
    ASSUME ClockedInv, [NextMoved]_vars
    PROVE  ClockedInv' /\ wall <= wall'
<1>1. Generator!TypeOK /\ TimeOK /\ CallOK
    BY InvParts
<1>2. TimeOK' /\ wall <= wall'
    <2>1. ticks_per_ms \in Nat \ {0}
        BY RatesAssumption DEF ClockedInv
    <2>2. sample % NANOS_PER_MS \in 0 .. NANOS_PER_MS - 1
        BY SampleMs DEF ClockedInv
    <2> QED BY <1>1, <2>1, <2>2, TimeStep
<1>3. CallOK'
    BY <1>1, CallStep
<1>4. Generator!TypeOK'
    <2>1. CASE Generator!UseCachedMs \/ \E ms \in 0 .. MaxMs : Generator!UseReading(ms)
        BY <1>1, <2>1, CallType
    <2>2. CASE UNCHANGED generator_vars
        BY <1>1, <2>2 DEF generator_vars, Generator!TypeOK
    <2>3. CASE UNCHANGED vars
        BY <1>1, <2>3 DEF vars, generator_vars, Generator!TypeOK
    <2> QED BY <2>1, <2>2, <2>3, GeneratorStep
<1> QED
    BY <1>2, <1>3, <1>4 DEF ClockedInv, TypeOK, TimeOK, CallOK

\* Whether or not the machine is moved, and whenever it is.
LEMMA FewerMoves ==
    /\ Spec => MovedSpec
    /\ MovedBetweenRefreshesSpec => MovedSpec
<1>1. [Next]_vars => [NextMoved]_vars
    BY DEF NextMoved
<1>2. [NextMovedBetweenRefreshes]_vars => [NextMoved]_vars
    BY DEF NextMoved, NextMovedBetweenRefreshes
<1> QED
    BY <1>1, <1>2, PTL DEF Spec, MovedBetweenRefreshesSpec, MovedSpec

\* A call keeps to its ranges however long it is interrupted and however often
\* readings wrap.
THEOREM ClockedInvariant == MovedSpec => []ClockedInv
<1>1. ClockedInv /\ [NextMoved]_vars => ClockedInv'
    BY ClockedInvStep
<1> QED
    BY <1>1, ClockedInvInit, PTL DEF MovedSpec

\* Every variable keeps its range, the deadline and both readings of a refresh
\* among those of u64.
THEOREM TypeCorrect == MovedSpec => []TypeOK
<1>1. ClockedInv => TypeOK
    BY DEF ClockedInv
<1> QED
    BY <1>1, ClockedInvariant, PTL

-----------------------------------------------------------------------------
(* The budget *)

\* The caller keeps to the ids a millisecond has room for, and does not run in
\* the first millisecond of 1970, which the code takes for no time at all.
WithinBudget ==
    /\ IdsPerMs <= COUNTER_MAX - COUNTER_SEED_MASK + 1
    /\ \A w \in WallStarts : w >= NANOS_PER_MS

\* The generator's millisecond, when it is the wall clock's, was taken within
\* it: by a reading or a rollover that came in it, and reseeded the counter.  So
\* its ids are those of the caller in this millisecond, and the counter has
\* moved by as many at most.
BudgetInv ==
    /\ MsOf(wall) > 0
    /\ last_ms <= MsOf(wall)
    /\ last_ms = MsOf(wall) => counter + 1 <= COUNTER_SEED_MASK + ids_in_ms

\* A fresh seed and the first id taken from it.
LEMMA SeedInBudget ==
    ASSUME NEW mask \in Nat, NEW seed \in 0 .. mask, NEW ids \in Nat, ids >= 1
    PROVE  seed + 1 <= mask + ids
OBVIOUS

\* A call within the budget needs no millisecond the wall clock has not reached.
LEMMA BudgetCall ==
    ASSUME WithinBudget, ClockedInv, BudgetInv, UNCHANGED wall,
           ids_in_ms < IdsPerMs, ids_in_ms' = ids_in_ms + 1,
           \/ Generator!UseCachedMs
           \/ \E ms \in 0 .. MsOf(wall) : Generator!UseReading(ms)
    PROVE  BudgetInv'
<1>1. /\ last_ms \in Nat /\ counter \in Nat /\ ids_in_ms \in Nat
      /\ COUNTER_MAX \in Nat /\ COUNTER_SEED_MASK \in Nat /\ IdsPerMs \in Nat
      /\ MaxMs \in Nat
    BY ClockedSequentialAssumption DEF ClockedInv, TypeOK, Generator!TypeOK
<1>2. PICK now \in Nat : now = MsOf(wall) /\ now = MsOf(wall)'
    <2>1. MsOf(wall) \in Int
        BY ArithAssumption, DivMod DEF ClockedInv, TypeOK, MsOf
    <2> QED BY <2>1 DEF BudgetInv, MsOf
<1>3. /\ last_ms <= now /\ now > 0
      /\ last_ms = now => counter + 1 <= COUNTER_SEED_MASK + ids_in_ms
    BY <1>2 DEF BudgetInv
<1>4. ids_in_ms' \in Nat /\ ids_in_ms' >= 1
    BY <1>1
<1>5. ASSUME NEW ms \in 0 .. now, Generator!Advance(ms)
      PROVE  /\ last_ms' <= now
             /\ last_ms' = now => counter' + 1 <= COUNTER_SEED_MASK + ids_in_ms'
    <2>1. last_ms' = ms /\ counter' \in 0 .. COUNTER_SEED_MASK
        BY <1>5 DEF Generator!Advance, Generator!seed_counter
    <2>2. counter' + 1 <= COUNTER_SEED_MASK + ids_in_ms'
        BY <1>1, <1>4, <2>1, SeedInBudget
    <2>3. last_ms' <= now
        BY <2>1
    <2> QED BY <2>2, <2>3
<1>6. ASSUME Generator!RollOver
      PROVE  /\ last_ms' <= now
             /\ last_ms' = now => counter' + 1 <= COUNTER_SEED_MASK + ids_in_ms'
    <2>1. counter >= COUNTER_MAX
        BY <1>6 DEF Generator!RollOver, Generator!counter_exhausted
    <2>2. last_ms + 1 <= now
        BY <1>1, <1>3, <2>1 DEF WithinBudget
    <2>3. last_ms' = last_ms + 1 /\ counter' \in 0 .. COUNTER_SEED_MASK
        BY <1>6 DEF Generator!RollOver, Generator!seed_counter
    <2> QED BY <1>1, <1>4, <2>2, <2>3, SeedInBudget
<1>7. ASSUME Generator!Increment
      PROVE  /\ last_ms' <= now
             /\ last_ms' = now => counter' + 1 <= COUNTER_SEED_MASK + ids_in_ms'
    BY <1>1, <1>3, <1>7 DEF Generator!Increment
<1>8. last_ms' <= now /\ (last_ms' = now => counter' + 1 <= COUNTER_SEED_MASK + ids_in_ms')
    BY <1>2, <1>5, <1>6, <1>7 DEF Generator!UseCachedMs, Generator!UseReading
<1> QED
    BY <1>2, <1>3, <1>8 DEF BudgetInv

\* Time only makes room in the budget.
LEMMA BudgetStep ==
    ASSUME WithinBudget, ClockedInv, BudgetInv, [NextMoved]_vars
    PROVE  BudgetInv'
<1>0. wall \in Nat /\ sample \in 0 .. wall /\ NANOS_PER_MS \in Nat \ {0}
    BY ArithAssumption, ClockAssumption DEF ClockedInv, TypeOK
<1>1. CASE CallOnCachedMs
    <2>1. /\ UNCHANGED wall /\ Generator!UseCachedMs
          /\ ids_in_ms < IdsPerMs /\ ids_in_ms' = ids_in_ms + 1
        BY <1>1 DEF CallOnCachedMs, StartCall, ReturnId, time_vars
    <2> QED BY <2>1, BudgetCall
<1>2. CASE RefreshAfter
    <2>1. /\ UNCHANGED wall /\ Generator!UseReading(MsOf(sample))
          /\ ids_in_ms < IdsPerMs /\ ids_in_ms' = ids_in_ms + 1
        BY <1>2 DEF RefreshAfter, ReadCounterAfter, ReturnId, time_vars, ClockedInv
    <2>2. MsOf(sample) \in 0 .. MsOf(wall)
        <3>1. sample \div NANOS_PER_MS <= wall \div NANOS_PER_MS
            BY <1>0, DivMonotone
        <3>2. sample \div NANOS_PER_MS \in Nat /\ wall \div NANOS_PER_MS \in Nat
            BY <1>0, DivMod
        <3> QED BY <3>1, <3>2 DEF MsOf
    <2> QED BY <2>1, <2>2, BudgetCall
<1>3. CASE TimePasses
    <2>1. wall' \in Nat /\ wall <= wall'
        BY <1>0, <1>3, ClockAssumption DEF TimePasses, Elapse
    <2>2. PICK now \in Nat, next \in Nat :
              now = wall \div NANOS_PER_MS /\ next = wall' \div NANOS_PER_MS /\ now <= next
        <3>1. PICK a \in Nat, b \in Nat : a = wall /\ b = wall' /\ a <= b
            BY <1>0, <2>1
        <3>2. a \div NANOS_PER_MS \in Nat /\ b \div NANOS_PER_MS \in Nat
            BY <1>0, DivMod
        <3>3. a \div NANOS_PER_MS <= b \div NANOS_PER_MS
            <4>1. a \in Int /\ b \in Int /\ a <= b /\ NANOS_PER_MS \in Nat \ {0}
                BY <1>0, <3>1
            <4> QED BY <4>1, DivMonotone
        <3> QED BY <3>1, <3>2, <3>3
    <2>3. /\ last_ms' = last_ms /\ counter' = counter
          /\ next = now => ids_in_ms' = ids_in_ms
        BY <1>3, <2>2 DEF TimePasses, generator_vars, MsOf
    <2>4. last_ms \in Nat
        BY DEF ClockedInv, TypeOK, Generator!TypeOK
    <2> QED BY <2>2, <2>3, <2>4 DEF BudgetInv, MsOf
<1>4. CASE CallRefreshing \/ RefreshBefore \/ RefreshWall \/ CounterFallsBack
    <2>1. UNCHANGED <<wall, last_ms, counter, ids_in_ms>>
        BY <1>4 DEF CallRefreshing, RefreshBefore, ReadCounterBefore, RefreshWall,
            ReadWall, CounterFallsBack, time_vars, generator_vars, call_vars
    <2> QED BY <2>1 DEF BudgetInv, MsOf
<1>5. CASE UNCHANGED vars
    <2>1. UNCHANGED <<wall, last_ms, counter, ids_in_ms>>
        BY <1>5 DEF vars, time_vars, generator_vars, call_vars
    <2> QED BY <2>1 DEF BudgetInv, MsOf
<1> QED
    BY <1>1, <1>2, <1>3, <1>4, <1>5 DEF NextMoved, Next

\* A caller within the budget of ids is never given a timestamp ahead of the
\* wall clock: however late a cached millisecond is given up, wherever refreshes
\* are preempted, and whatever the counter does, a rollover has a millisecond
\* behind the wall clock to leave.
THEOREM BudgetTheorem ==
    ASSUME WithinBudget
    PROVE  MovedSpec => []NeverAheadWithinBudget
<1>1. Init => BudgetInv
    <2> SUFFICES ASSUME Init PROVE BudgetInv
        OBVIOUS
    <2>1. wall \in Nat /\ wall >= NANOS_PER_MS /\ last_ms = 0
        BY ClockAssumption DEF Init, ClockInit, Generator!Init, WithinBudget
    <2>2. NANOS_PER_MS \in Nat \ {0}
        BY ArithAssumption
    <2>3. PICK q \in Nat, r \in 0 .. NANOS_PER_MS - 1 :
              q = wall \div NANOS_PER_MS /\ wall = q * NANOS_PER_MS + r
        BY <2>1, <2>2, DivMod
    <2>4. q # 0
        <3>1. 0 * NANOS_PER_MS = 0
            BY <2>2
        <3> QED BY <2>1, <2>2, <2>3, <3>1
    <2> QED BY <2>1, <2>3, <2>4 DEF BudgetInv, MsOf
<1>2. ClockedInv /\ BudgetInv /\ [NextMoved]_vars => BudgetInv'
    BY BudgetStep
<1>3. BudgetInv => NeverAheadWithinBudget
    BY DEF BudgetInv, NeverAheadWithinBudget
<1> QED
    BY <1>1, <1>2, <1>3, ClockedInvariant, PTL DEF MovedSpec

-----------------------------------------------------------------------------
(* The clock between refreshes *)

\* All of the time there is takes the counter through less than half its range.
WithinHalfRange ==
    \A w \in WallStarts : 2 * ((MaxWall - w) * ElapseTicks) < U64 * ElapseNanos

\* n steps of time have passed.
Ran(n) == \E w \in WallStarts : wall = w + n * ElapseNanos

\* The first reading of the refresh was h steps ago, ...
BeforeRead(n, h) ==
    /\ h \in 0 .. n
    /\ tsc = wrapping_add(before, h * ElapseTicks)

\* ... the wall clock's k steps ago, and after the call.
Sampled(n, h, k) ==
    /\ BeforeRead(n, h)
    /\ k \in 0 .. h
    /\ wall = sample + k * ElapseNanos
    /\ call_wall <= sample

\* The ticks the deadline was set by.
Interval == ticks_until_next_refresh(ticks_per_ms, sample % NANOS_PER_MS)

\* Between refreshes the counter is g ticks past the deadline, or before it when
\* g is negative, as a count that does not wrap: too few to be mistaken for a
\* deadline ahead.  The k steps since the sample are at most twice the ticks
\* since the instant it is dated, of which the counter has lost f.
Dated(n, k, g, f) ==
    /\ wall = sample + k * ElapseNanos
    /\ tsc = wrapping_add(next_deadline, g)
    /\ g <= n * ElapseTicks
    /\ k * ElapseTicks <= 2 * (g + f + Interval)

\* The ranges that the clock's own steps go by.  The lemmas about them suppose
\* nothing of who asks for the time.
ClockOK ==
    /\ wall \in 0 .. MaxWall
    /\ tsc \in 0 .. U64 - 1 /\ next_deadline \in 0 .. U64 - 1 /\ before \in 0 .. U64 - 1
    /\ sample \in 0 .. wall /\ call_wall \in 0 .. wall
    /\ ticks_per_ms \in Nat \ {0}

\* The ranges of what a clock in order is made of.
LEMMA ClockFacts ==
    ASSUME ClockOK
    PROVE  /\ U64 \in Nat \ {0} /\ NANOS_PER_MS \in Nat \ {0}
           /\ ElapseNanos \in Nat \ {0} /\ ElapseTicks \in Nat \ {0}
           /\ MaxWall \in Nat /\ wall \in Nat /\ sample \in Nat /\ call_wall \in Nat
           /\ tsc \in 0 .. U64 - 1 /\ next_deadline \in Int /\ before \in Int
           /\ sample % NANOS_PER_MS \in 0 .. NANOS_PER_MS - 1
           /\ ticks_per_ms \in Nat \ {0} /\ Interval \in Nat \ {0}
<1>1. /\ U64 \in Nat \ {0} /\ NANOS_PER_MS \in Nat \ {0}
      /\ ElapseNanos \in Nat \ {0} /\ ElapseTicks \in Nat \ {0} /\ MaxWall \in Nat
    BY ArithAssumption, ClockAssumption
<1>2. /\ wall \in Nat /\ sample \in Nat /\ call_wall \in Nat
      /\ tsc \in 0 .. U64 - 1 /\ next_deadline \in Int /\ before \in Int
      /\ ticks_per_ms \in Nat \ {0}
    BY <1>1 DEF ClockOK
<1>3. sample % NANOS_PER_MS \in 0 .. NANOS_PER_MS - 1
    BY <1>1, <1>2, DivMod
<1>4. Interval \in Nat \ {0}
    BY <1>2, <1>3, RefreshTicks DEF Interval
<1> QED
    BY <1>1, <1>2, <1>3, <1>4

\* No number of steps that time has room for takes the counter half round.
LEMMA RanTicks ==
    ASSUME WithinHalfRange, ClockOK, NEW n \in Nat, Ran(n)
    PROVE  n * ElapseTicks \in Nat /\ 2 * (n * ElapseTicks) < U64
<1>0. /\ U64 \in Nat /\ ElapseNanos \in Nat \ {0} /\ ElapseTicks \in Nat
      /\ MaxWall \in Nat /\ wall \in 0 .. MaxWall
    BY ClockFacts DEF ClockOK
<1>1. PICK w \in WallStarts : wall = w + n * ElapseNanos
    BY DEF Ran
<1>2. w \in Nat /\ 2 * ((MaxWall - w) * ElapseTicks) < U64 * ElapseNanos
    BY ClockAssumption, <1>1 DEF WithinHalfRange
<1>3. PICK r \in Int, t \in Nat :
          r = MaxWall - w /\ t = n * ElapseNanos /\ t <= r
    <2>1. n * ElapseNanos \in Nat
        BY <1>0
    <2> QED BY <1>0, <1>1, <1>2, <2>1
<1>4. t * ElapseTicks <= r * ElapseTicks
    BY <1>0, <1>3, TimesOrder
<1>5. PICK x \in Nat : x = n * ElapseTicks
    BY <1>0
<1>6. t * ElapseTicks = x * ElapseNanos
    <2>1. (n * ElapseNanos) * ElapseTicks = (n * ElapseTicks) * ElapseNanos
        BY <1>0
    <2> QED BY <1>3, <1>5, <2>1
<1>7. ~(U64 * ElapseNanos <= (2 * x) * ElapseNanos)
    <2>1. PICK a \in Int, b \in Int, c \in Int :
              /\ a = r * ElapseTicks /\ b = x * ElapseNanos /\ c = U64 * ElapseNanos
              /\ (2 * x) * ElapseNanos = 2 * b
        BY <1>0
    <2> QED BY <1>2, <1>3, <1>4, <1>6, <2>1
<1>8. ~(U64 <= 2 * x)
    <2>1. 2 * x \in Int /\ U64 \in Int
        BY <1>0
    <2> QED BY <1>0, <1>7, <2>1, TimesOrder
<1> QED
    BY <1>0, <1>5, <1>8

\* The comparison that wraps finds a deadline reached as soon as it is.
LEMMA NotDueEarly ==
    ASSUME WithinHalfRange, ClockOK, NEW n \in Nat, Ran(n), NEW g \in Int,
           tsc = wrapping_add(next_deadline, g), g <= n * ElapseTicks,
           ~should_refresh
    PROVE  g < 0
<1> SUFFICES ASSUME g >= 0 PROVE FALSE
    OBVIOUS
<1>1. PICK x \in Nat : x = n * ElapseTicks /\ 2 * x < U64
    BY RanTicks
<1>2. g \in 0 .. U64 - 1 /\ 2 * g < U64 /\ U64 \in Nat \ {0}
    BY <1>1, ClockFacts
<1>3. next_deadline \in Int
    BY ClockFacts
<1>4. wrapping_sub(tsc, next_deadline) = g
    <2>1. wrapping_sub(wrapping_add(next_deadline, g), next_deadline) = g % U64
        BY <1>3, WrapTwice
    <2>2. g % U64 = g
        BY <1>2, ModOfSmall
    <2> QED BY <2>1, <2>2
<1> QED
    BY <1>2, <1>4 DEF should_refresh, read_counter, deadline_reached

\* When the deadline has not passed it is less than the reuse, and twice the
\* counter's fall of jn nanoseconds, past the end of the sampled millisecond.
LEMMA CachedInTime ==
    ASSUME WithinHalfRange, ClockOK, NEW n \in Nat, Ran(n),
           NEW k \in Nat, NEW g \in Int, NEW f \in Nat, Dated(n, k, g, f),
           ~should_refresh, NEW jn \in Nat, jn * ElapseTicks = f * ElapseNanos
    PROVE  MsOf(wall - ReuseNanos - 2 * jn) <= MsOf(sample)
<1>0. /\ NANOS_PER_MS \in Nat \ {0} /\ ElapseNanos \in Nat \ {0}
      /\ ElapseTicks \in Nat \ {0} /\ ticks_per_ms \in Nat \ {0}
      /\ wall \in Nat /\ sample \in Nat /\ Interval \in Nat \ {0}
      /\ MAX_REFRESH_INTERVAL_NANOS \in Nat /\ ReuseNanos \in Nat
    BY ClockFacts, RefreshNanos, ReuseCovers
<1>1. PICK q \in Nat, s \in 0 .. NANOS_PER_MS - 1 :
          /\ q = MsOf(sample) /\ s = sample % NANOS_PER_MS
          /\ sample = q * NANOS_PER_MS + s
    <2>1. /\ sample \div NANOS_PER_MS \in Nat
          /\ sample % NANOS_PER_MS \in 0 .. NANOS_PER_MS - 1
          /\ sample = (sample \div NANOS_PER_MS) * NANOS_PER_MS + (sample % NANOS_PER_MS)
        BY <1>0, DivMod
    <2> QED BY <2>1 DEF MsOf
<1>2. PICK i \in 1 .. MAX_REFRESH_INTERVAL_NANOS :
          i = nanos_until_next_refresh(s) /\ i <= NANOS_PER_MS - s
    BY RefreshNanos
<1>3. NANOS_PER_MS * (Interval - 1) < ticks_per_ms * i
    BY <1>0, <1>1, <1>2, RefreshTicks DEF Interval
<1>4. k * ElapseTicks <= 2 * ((Interval - 1) + f)
    <2>1. g < 0
        BY NotDueEarly DEF Dated
    <2>2. PICK x \in Nat : x = k * ElapseTicks
        BY <1>0
    <2> QED BY <1>0, <2>1, <2>2 DEF Dated
<1>5. k * ElapseNanos - ReuseNanos - 2 * jn < i
    <2>1. (2 * MAX_REFRESH_INTERVAL_NANOS) * (ticks_per_ms * ElapseNanos)
              <= (ReuseNanos + MAX_REFRESH_INTERVAL_NANOS) * (NANOS_PER_MS * ElapseTicks)
        BY <1>0, ReuseCovers
    <2> QED BY <1>0, <1>2, <1>3, <1>4, <2>1, DeadlineInTime
<1>6. PICK a \in Int : a = wall - ReuseNanos - 2 * jn
    BY <1>0
<1>7. a < (q + 1) * NANOS_PER_MS
    <2>1. PICK x \in Nat, y \in Nat :
              x = k * ElapseNanos /\ y = q * NANOS_PER_MS
        BY <1>0
    <2>2. (q + 1) * NANOS_PER_MS = y + NANOS_PER_MS
        BY <1>0, <2>1
    <2>3. wall = sample + x
        BY <2>1 DEF Dated
    <2>4. a = y + s + (x - ReuseNanos - 2 * jn)
        <3>1. sample = y + s
            BY <1>1, <2>1
        <3>2. s \in Nat
            BY <1>0
        <3>3. wall = (y + s) + x
            BY <2>3, <3>1
        <3> QED BY <1>0, <1>6, <2>1, <3>2, <3>3
    <2>5. x - ReuseNanos - 2 * jn < NANOS_PER_MS - s
        BY <1>0, <1>2, <1>5, <2>1
    <2> QED BY <1>0, <2>1, <2>2, <2>4, <2>5
<1>8. a \div NANOS_PER_MS <= q
    BY <1>0, <1>7, DivBelow
<1> QED
    BY <1>1, <1>6, <1>8 DEF MsOf

\* A counter that has not fallen lets it be reused no longer than that.
LEMMA CachedUnfallen ==
    ASSUME WithinHalfRange, ClockOK, NEW n \in Nat, Ran(n), ~should_refresh,
           \E k \in Nat, g \in Int : Dated(n, k, g, 0)
    PROVE  MsOf(wall - ReuseNanos) <= MsOf(sample)
<1>1. PICK k \in Nat, g \in Int : Dated(n, k, g, 0)
    OBVIOUS
<1>2. 0 * ElapseTicks = 0 * ElapseNanos
    BY ClockFacts
<1>3. MsOf(wall - ReuseNanos - 2 * 0) <= MsOf(sample)
    BY <1>1, <1>2, CachedInTime
<1>4. ReuseNanos \in Nat /\ wall \in Nat
    BY ClockFacts, ReuseCovers
<1>5. wall - ReuseNanos - 2 * 0 = wall - ReuseNanos
    BY <1>4
<1> QED
    BY <1>3, <1>5

\* A refresh dates its sample half-way between its readings of the counter, and
\* the deadline by that.
LEMMA RefreshDates ==
    ASSUME WithinHalfRange, ClockOK, NEW n \in Nat, Ran(n), NEW f \in Nat,
           NEW h \in Nat, NEW k \in Nat, Sampled(n, h, k), ReadCounterAfter
    PROVE  \E g \in Int : Dated(n, k, g, f)' /\ 0 <= g + f + Interval
<1>0. /\ U64 \in Nat \ {0} /\ ElapseTicks \in Nat \ {0} /\ Interval \in Nat \ {0}
      /\ before \in Int /\ tsc \in Int
    BY ClockFacts
<1>1. PICK x \in Nat, y \in Nat, z \in Nat :
          /\ x = h * ElapseTicks /\ y = n * ElapseTicks /\ z = k * ElapseTicks
          /\ z <= x /\ x <= y /\ 2 * y < U64
    <2>1. h <= n /\ k <= h
        BY DEF Sampled, BeforeRead
    <2>2. k * ElapseTicks <= h * ElapseTicks /\ h * ElapseTicks <= n * ElapseTicks
        BY <1>0, <2>1, TimesOrder
    <2>3. h * ElapseTicks \in Nat /\ n * ElapseTicks \in Nat /\ k * ElapseTicks \in Nat
        BY <1>0
    <2> QED BY <2>2, <2>3, RanTicks
<1>2. tsc = wrapping_add(before, x)
    BY <1>1 DEF Sampled, BeforeRead
<1>3. wrapping_sub(tsc, before) = x
    <2>1. wrapping_sub(tsc, before) = x % U64
        BY <1>0, <1>2, WrapTwice
    <2>2. x \in 0 .. U64 - 1
        BY <1>0, <1>1
    <2> QED BY <1>0, <2>1, <2>2, ModOfSmall
<1>4. PICK half \in Nat : half = x \div 2 /\ 2 * half <= x
    OBVIOUS
<1>5. next_deadline' = wrapping_add(before, half + Interval)
    <2>1. next_deadline' = wrapping_add(wrapping_add(before, half), Interval)
        BY <1>3, <1>4 DEF ReadCounterAfter, record_sample, read_counter, Interval
    <2> QED BY <1>0, <2>1, WrapTwice
<1>6. PICK g \in Int : g = x - half - Interval
    BY <1>0
<1>7. tsc = wrapping_add(next_deadline', g)
    <2>1. half + Interval \in Int /\ (half + Interval) + g = x
        BY <1>0, <1>6
    <2>2. wrapping_add(wrapping_add(before, half + Interval), g)
              = wrapping_add(before, (half + Interval) + g)
        BY <1>0, <2>1, WrapTwice
    <2> QED BY <1>2, <1>5, <2>1, <2>2
<1>8. g <= y /\ z <= 2 * (g + f + Interval) /\ 0 <= g + f + Interval
    BY <1>0, <1>1, <1>4, <1>6
<1>9. /\ UNCHANGED <<wall, tsc, sample, ticks_per_ms>>
      /\ Interval' = Interval
    <2>1. UNCHANGED <<wall, tsc, sample, ticks_per_ms>>
        BY DEF ReadCounterAfter, record_sample, time_vars, refresh_vars
    <2> QED BY <2>1 DEF Interval
<1>10. Dated(n, k, g, f)'
    <2>1. wall = sample + k * ElapseNanos
        BY DEF Sampled
    <2>2. k * ElapseTicks <= 2 * (g + f + Interval) /\ g <= n * ElapseTicks
        BY <1>1, <1>8
    <2> QED BY <1>7, <1>8, <1>9, <2>1, <2>2 DEF Dated, MsOf
<1> QED
    BY <1>8, <1>10

\* Time takes the counts on: the steps so far, ...
LEMMA RanElapse ==
    ASSUME NEW n \in Nat, Ran(n), Elapse
    PROVE  Ran(n + 1)'
<1>1. PICK w \in WallStarts : wall = w + n * ElapseNanos
    BY DEF Ran
<1>2. w \in Nat /\ ElapseNanos \in Nat
    BY ClockAssumption
<1>3. PICK x \in Nat : x = n * ElapseNanos /\ (n + 1) * ElapseNanos = x + ElapseNanos
    BY <1>2
<1>4. wall + ElapseNanos = w + (n + 1) * ElapseNanos
    BY <1>1, <1>2, <1>3
<1>5. wall' = w + (n + 1) * ElapseNanos
    BY <1>4 DEF Elapse
<1> QED
    BY <1>5 DEF Ran

\* ... those of the refresh in progress, ...
LEMMA BeforeReadElapse ==
    ASSUME ClockOK, NEW n \in Nat, NEW h \in Nat, BeforeRead(n, h),
           Elapse, before' = before
    PROVE  BeforeRead(n + 1, h + 1)'
<1>1. ElapseTicks \in Nat /\ before \in Int
    BY ClockFacts
<1>2. PICK x \in Nat : x = h * ElapseTicks /\ (h + 1) * ElapseTicks = x + ElapseTicks
    BY <1>1
<1>3. wrapping_add(wrapping_add(before, x), ElapseTicks)
          = wrapping_add(before, x + ElapseTicks)
    BY <1>1, WrapTwice
<1>4. h + 1 \in 0 .. n + 1
    BY DEF BeforeRead
<1> QED
    BY <1>2, <1>3, <1>4 DEF BeforeRead, Elapse

\* ... those since its sample, ...
LEMMA SampledElapse ==
    ASSUME ClockOK, NEW n \in Nat, NEW h \in Nat, NEW k \in Nat, Sampled(n, h, k),
           Elapse, UNCHANGED <<refresh_vars, call_wall>>
    PROVE  Sampled(n + 1, h + 1, k + 1)'
<1>1. /\ ElapseNanos \in Nat /\ wall \in Nat /\ sample \in Nat
      /\ wall' = wall + ElapseNanos /\ UNCHANGED <<before, sample, call_wall>>
    BY ClockFacts DEF Elapse, refresh_vars
<1>2. PICK x \in Nat : x = k * ElapseNanos /\ (k + 1) * ElapseNanos = x + ElapseNanos
    BY <1>1
<1>3. wall + ElapseNanos = sample + (k + 1) * ElapseNanos
    BY <1>1, <1>2 DEF Sampled
<1>4. k + 1 \in 0 .. h + 1
    BY DEF Sampled
<1>5. BeforeRead(n + 1, h + 1)'
    BY <1>1, BeforeReadElapse DEF Sampled
<1>6. call_wall' <= sample'
    BY <1>1 DEF Sampled
<1> QED
    BY <1>1, <1>3, <1>4, <1>5, <1>6 DEF Sampled

\* ... and those since the last one.
LEMMA DatedElapse ==
    ASSUME ClockOK, NEW n \in Nat, NEW k \in Nat, NEW g \in Int, NEW f \in Nat,
           Dated(n, k, g, f), Elapse, UNCHANGED <<clock_vars, refresh_vars>>
    PROVE  Dated(n + 1, k + 1, g + ElapseTicks, f)'
<1>0. /\ ElapseTicks \in Nat \ {0} /\ ElapseNanos \in Nat \ {0} /\ Interval \in Nat
      /\ next_deadline \in Int /\ wall \in Nat /\ sample \in Nat
    BY ClockFacts
<1>1. /\ wall' = wall + ElapseNanos /\ tsc' = wrapping_add(tsc, ElapseTicks)
      /\ UNCHANGED <<sample, next_deadline>> /\ Interval' = Interval
    BY DEF Elapse, clock_vars, refresh_vars, Interval
<1>2. PICK x \in Nat, y \in Nat, z \in Nat :
          /\ x = k * ElapseNanos /\ (k + 1) * ElapseNanos = x + ElapseNanos
          /\ y = k * ElapseTicks /\ (k + 1) * ElapseTicks = y + ElapseTicks
          /\ z = n * ElapseTicks /\ (n + 1) * ElapseTicks = z + ElapseTicks
    BY <1>0
<1>3. wall + ElapseNanos = sample + (x + ElapseNanos)
    BY <1>0, <1>2 DEF Dated
<1>4. wrapping_add(tsc, ElapseTicks) = wrapping_add(next_deadline, g + ElapseTicks)
    BY <1>0, WrapTwice DEF Dated
<1>5. /\ g + ElapseTicks <= z + ElapseTicks
      /\ y + ElapseTicks <= 2 * ((g + ElapseTicks) + f + Interval)
    BY <1>0, <1>2 DEF Dated
<1> QED
    BY <1>1, <1>2, <1>3, <1>4, <1>5 DEF Dated

\* The readings of a refresh start its counts.
LEMMA BeforeReadStart ==
    ASSUME ClockOK, NEW n \in Nat, ReadCounterBefore
    PROVE  BeforeRead(n, 0)'
<1>1. before' = tsc /\ tsc' = tsc
    BY DEF ReadCounterBefore, read_counter, time_vars
<1>2. 0 * ElapseTicks = 0 /\ tsc \in 0 .. U64 - 1 /\ U64 \in Nat \ {0}
    BY ClockFacts
<1>3. tsc + 0 = tsc /\ tsc % U64 = tsc
    BY <1>2, ModOfSmall
<1>4. tsc = wrapping_add(tsc, 0 * ElapseTicks)
    BY <1>2, <1>3 DEF wrapping_add
<1> QED
    BY <1>1, <1>4 DEF BeforeRead

\* The wall clock's reading starts the count since the sample.
LEMMA SampledStart ==
    ASSUME ClockOK, NEW n \in Nat, NEW h \in Nat, BeforeRead(n, h),
           ReadWall, call_wall' = call_wall
    PROVE  Sampled(n, h, 0)'
<1>1. sample' = wall /\ UNCHANGED <<wall, tsc, before, call_wall>>
    BY DEF ReadWall, time_vars
<1>2. 0 \in 0 .. h /\ wall = wall + 0 * ElapseNanos /\ call_wall <= wall
    <2>1. wall \in Nat /\ call_wall \in 0 .. wall /\ ElapseNanos \in Nat
        BY ClockFacts DEF ClockOK
    <2> QED BY <2>1
<1> QED
    BY <1>1, <1>2 DEF Sampled, BeforeRead

-----------------------------------------------------------------------------
(* The lag *)

\* The ticks the counter has fallen by.
Fall == IF jumped THEN CounterJump ELSE 0

\* The caller has not rested for longer than that, nor gone back from the sample.
Followed(n, k, g) ==
    /\ Dated(n, k, g, Fall)
    /\ pause <= g + Fall + Interval
    /\ last_ms >= MsOf(sample)

Timed(n) ==
    /\ Ran(n)
    /\ pc = "before" => \E h \in Nat : BeforeRead(n, h)
    /\ pc = "sampled" => \E h, k \in Nat : Sampled(n, h, k)
    /\ pc \in {"idle", "due"} /\ last_ms # 0 =>
           \E k \in Nat, g \in Int : Followed(n, k, g)

LagInv == \E n \in Nat : Timed(n)

\* The ranges that the steps of the lag's proof go by.
LEMMA TimeFacts ==
    ASSUME ClockedInv
    PROVE  /\ ClockOK
           /\ U64 \in Nat \ {0} /\ NANOS_PER_MS \in Nat \ {0}
           /\ ElapseNanos \in Nat \ {0} /\ ElapseTicks \in Nat \ {0}
           /\ MaxWall \in Nat /\ wall \in 0 .. MaxWall
           /\ tsc \in 0 .. U64 - 1 /\ next_deadline \in 0 .. U64 - 1
           /\ before \in 0 .. U64 - 1
           /\ sample \in 0 .. wall /\ call_wall \in 0 .. wall
           /\ sample % NANOS_PER_MS \in 0 .. NANOS_PER_MS - 1
           /\ ticks_per_ms \in Nat \ {0}
           /\ Interval \in Nat \ {0} /\ Interval <= RestTicks
           /\ Fall \in Nat /\ CounterJump \in Nat
           /\ last_ms \in Nat
<1>1. TimeOK /\ CallOK /\ Generator!TypeOK
    BY InvParts
<1>2. /\ U64 \in Nat \ {0} /\ NANOS_PER_MS \in Nat \ {0}
      /\ ElapseNanos \in Nat \ {0} /\ ElapseTicks \in Nat \ {0} /\ MaxWall \in Nat
    BY ArithAssumption, ClockAssumption
<1>3. ticks_per_ms \in Nat \ {0} /\ CounterJump \in Nat
    BY <1>1, RatesAssumption, JumpAssumption DEF CallOK
<1>4. sample % NANOS_PER_MS \in 0 .. NANOS_PER_MS - 1
    BY SampleMs DEF ClockedInv
<1>5. Interval \in Nat \ {0} /\ Interval <= RestTicks
    BY <1>3, <1>4, RefreshTicks DEF Interval, RestTicks
<1>6. last_ms \in Nat
    BY <1>1 DEF Generator!TypeOK
<1>7. ClockOK
    BY <1>1, <1>3 DEF TimeOK, ClockOK
<1> QED
    BY <1>1, <1>2, <1>3, <1>4, <1>5, <1>6, <1>7 DEF TimeOK, Fall

\* What the counter fell by, in ticks and in nanoseconds.
LEMMA FallNanos ==
    ASSUME ClockedInv
    PROVE  JumpNanos \in Nat /\ JumpNanos * ElapseTicks = Fall * ElapseNanos
<1>1. /\ ElapseNanos \in Nat /\ ElapseTicks \in Nat \ {0} /\ CounterJump \in Nat
      /\ (CounterJump * ElapseNanos) % ElapseTicks = 0
    BY TimeFacts, JumpAssumption
<1>2. PICK x \in Nat : x = CounterJump * ElapseNanos
    BY <1>1
<1>3. x \div ElapseTicks \in Nat /\ x = (x \div ElapseTicks) * ElapseTicks + (x % ElapseTicks)
    BY <1>1, DivMod
<1>4. x \div ElapseTicks \in Nat /\ (x \div ElapseTicks) * ElapseTicks = x
    <2>1. PICK y \in Nat : y = (x \div ElapseTicks) * ElapseTicks
        BY <1>1, <1>3
    <2> QED BY <1>1, <1>2, <1>3, <2>1
<1>5. 0 * ElapseTicks = 0 /\ 0 * ElapseNanos = 0
    BY <1>1
<1> QED
    BY <1>2, <1>4, <1>5 DEF JumpNanos, Fall

\* Time takes the caller's rest on with the counter.
LEMMA FollowedElapse ==
    ASSUME ClockedInv, NEW n \in Nat, NEW k \in Nat, NEW g \in Int,
           Followed(n, k, g), TimePasses
    PROVE  Followed(n + 1, k + 1, g + ElapseTicks)'
<1>0. ElapseTicks \in Nat /\ Interval \in Nat
    BY TimeFacts
<1>1. PICK f \in Nat : f = Fall
    BY TimeFacts
<1>2. /\ Elapse /\ UNCHANGED <<clock_vars, refresh_vars>>
      /\ Interval' = Interval /\ Fall' = f
      /\ last_ms' = last_ms /\ MsOf(sample)' = MsOf(sample)
    BY <1>1 DEF TimePasses, clock_vars, refresh_vars, generator_vars, Interval, Fall, MsOf
<1>3. Dated(n + 1, k + 1, g + ElapseTicks, f)'
    BY <1>1, <1>2, TimeFacts, DatedElapse DEF Followed
<1>4. pause \in Nat /\ RestTicks \in Nat
    <2>1. RestTicks \in Nat
        <3>1. ticks_per_ms \in Nat \ {0} /\ 0 \in 0 .. NANOS_PER_MS - 1
            BY TimeFacts
        <3> QED BY <3>1, RefreshTicks DEF RestTicks
    <2> QED BY <2>1 DEF ClockedInv, TypeOK
<1>5. PICK b \in Nat : b = pause' /\ b <= pause + ElapseTicks
    BY <1>0, <1>4 DEF TimePasses, Least
<1>6. pause <= g + f + Interval /\ last_ms >= MsOf(sample)
    BY <1>1 DEF Followed
<1>7. b <= (g + ElapseTicks) + f + Interval
    BY <1>0, <1>4, <1>5, <1>6
<1> QED
    BY <1>2, <1>3, <1>5, <1>6, <1>7 DEF Followed

\* A fall of the counter takes it back from the deadline by as much.
LEMMA FollowedFall ==
    ASSUME ClockedInv, NEW n \in Nat, NEW k \in Nat, NEW g \in Int,
           Followed(n, k, g), CounterFallsBack
    PROVE  Followed(n, k, g - CounterJump)'
<1>0. /\ CounterJump \in Nat /\ Interval \in Nat /\ next_deadline \in Int
    BY TimeFacts
<1>1. /\ Fall = 0 /\ Fall' = CounterJump /\ Interval' = Interval
      /\ tsc' = wrapping_sub(tsc, CounterJump)
      /\ UNCHANGED <<wall, sample, next_deadline, last_ms, pause>>
    BY DEF CounterFallsBack, clock_vars, refresh_vars, generator_vars, call_vars,
        Fall, Interval
<1>2. tsc' = wrapping_add(next_deadline, g - CounterJump)
    <2>1. wrapping_sub(wrapping_add(next_deadline, g), CounterJump)
              = wrapping_add(next_deadline, g - CounterJump)
        BY <1>0, WrapTwice
    <2> QED BY <1>1, <2>1 DEF Followed, Dated
<1>3. (g - CounterJump) + CounterJump + Interval = g + 0 + Interval
    BY <1>0
<1>4. n * ElapseTicks \in Nat
    BY ClockAssumption
<1>5. g - CounterJump <= n * ElapseTicks
    BY <1>0, <1>4 DEF Followed, Dated
<1> QED
    BY <1>1, <1>2, <1>3, <1>5 DEF Followed, Dated, MsOf

\* A call leaves last_ms no earlier than it was, and than the reading it took.
LEMMA CallMovesOn ==
    ASSUME ClockedInv
    PROVE  /\ Generator!UseCachedMs => last_ms' \in Nat /\ last_ms' >= last_ms
           /\ \A ms \in 0 .. MaxMs :
                  Generator!UseReading(ms) => last_ms' \in Nat /\ last_ms' >= ms
<1>1. last_ms \in Nat /\ MaxMs \in Nat
    BY TimeFacts, ClockedSequentialAssumption
<1>2. Generator!RollOver \/ Generator!Increment => last_ms' \in Nat /\ last_ms' >= last_ms
    BY <1>1 DEF Generator!RollOver, Generator!Increment
<1>3. ASSUME NEW ms \in 0 .. MaxMs, Generator!UseReading(ms)
      PROVE  last_ms' \in Nat /\ last_ms' >= ms
    <2>1. CASE Generator!Advance(ms)
        BY <1>1, <2>1 DEF Generator!Advance
    <2>2. CASE ms <= last_ms /\ (Generator!RollOver \/ Generator!Increment)
        BY <1>1, <1>2, <2>2
    <2> QED BY <1>3, <2>1, <2>2 DEF Generator!UseReading
<1> QED
    BY <1>2, <1>3 DEF Generator!UseCachedMs

\* While no time passes the number of steps stands.
LEMMA RanKept ==
    ASSUME NEW n \in Nat, Ran(n), UNCHANGED wall
    PROVE  Ran(n)'
BY DEF Ran

\* A call on the cached millisecond leaves the clock as it was.
LEMMA CachedCallTimed ==
    ASSUME ClockedInv, NEW n \in Nat, Timed(n), CallOnCachedMs
    PROVE  Timed(n)'
<1>1. pc = "idle" /\ pc' = "idle" /\ last_ms # 0
    BY DEF CallOnCachedMs, StartCall, refresh_due
<1>2. PICK k \in Nat, g \in Int : Followed(n, k, g)
    BY <1>1 DEF Timed
<1>3. /\ UNCHANGED <<wall, tsc, next_deadline, sample, ticks_per_ms, jumped>>
      /\ Interval' = Interval /\ Fall' = Fall /\ pause' = 0
    <2>1. UNCHANGED <<wall, tsc, next_deadline, sample, ticks_per_ms, jumped>> /\ pause' = 0
        BY DEF CallOnCachedMs, ReturnId, time_vars, clock_vars, refresh_vars
    <2> QED BY <2>1 DEF Interval, Fall
<1>4. 0 <= g + Fall + Interval
    <2>1. PICK x \in Nat : x = k * ElapseTicks
        BY ClockAssumption
    <2> QED BY <2>1, TimeFacts, <1>2 DEF Followed, Dated
<1>5. last_ms' >= MsOf(sample)
    <2>1. last_ms' \in Nat /\ last_ms' >= last_ms /\ last_ms \in Nat
        BY CallMovesOn, TimeFacts DEF CallOnCachedMs
    <2>2. MsOf(sample) \in Nat /\ last_ms >= MsOf(sample)
        BY SampleMs, <1>2 DEF ClockedInv, Followed
    <2> QED BY <2>1, <2>2
<1>6. Followed(n, k, g)'
    BY <1>2, <1>3, <1>4, <1>5 DEF Followed, Dated, MsOf
<1> QED
    BY <1>1, <1>3, <1>6, RanKept DEF Timed

\* The three readings of a refresh take over from one another, and then from the
\* deadline they replace.
LEMMA RefreshTimed ==
    ASSUME WithinHalfRange, ClockedInv, NEW n \in Nat, Timed(n),
           CallRefreshing \/ RefreshBefore \/ RefreshWall \/ RefreshAfter
    PROVE  Timed(n)'
<1>0. UNCHANGED wall
    BY DEF CallRefreshing, RefreshBefore, ReadCounterBefore, RefreshWall, ReadWall,
        RefreshAfter, ReadCounterAfter, time_vars
<1>1. Ran(n)'
    BY <1>0, RanKept DEF Timed
<1>2. CASE CallRefreshing
    <2>1. /\ pc = "idle" /\ pc' = "due"
          /\ UNCHANGED <<wall, tsc, next_deadline, sample, ticks_per_ms, jumped,
                         pause, last_ms>>
        BY <1>2 DEF CallRefreshing, StartCall, time_vars, clock_vars, refresh_vars,
            generator_vars
    <2>2. ASSUME NEW k \in Nat, NEW g \in Int, Followed(n, k, g)
          PROVE  Followed(n, k, g)'
        BY <2>1, <2>2 DEF Followed, Dated, MsOf, Interval, Fall
    <2> QED BY <1>1, <2>1, <2>2 DEF Timed
<1>3. CASE RefreshBefore
    <2>1. pc' = "before" /\ BeforeRead(n, 0)'
        BY <1>3, TimeFacts, BeforeReadStart DEF RefreshBefore
    <2> QED BY <1>1, <2>1 DEF Timed
<1>4. CASE RefreshWall
    <2>1. pc = "before" /\ pc' = "sampled" /\ ReadWall /\ call_wall' = call_wall
        BY <1>4 DEF RefreshWall
    <2>2. PICK h \in Nat : BeforeRead(n, h)
        BY <2>1 DEF Timed
    <2>3. Sampled(n, h, 0)'
        BY <2>1, <2>2, TimeFacts, SampledStart
    <2> QED BY <1>1, <2>1, <2>3 DEF Timed
<1>5. CASE RefreshAfter
    <2>1. /\ pc = "sampled" /\ pc' = "idle" /\ pause' = 0 /\ jumped' = jumped
          /\ ReadCounterAfter /\ Generator!UseReading(MsOf(sample))
        BY <1>5 DEF RefreshAfter, ReturnId
    <2>2. PICK h \in Nat, k \in Nat : Sampled(n, h, k)
        BY <2>1 DEF Timed
    <2>3. last_ms' \in Nat /\ last_ms' >= MsOf(sample)
        BY <2>1, CallMovesOn, SampleMs DEF ClockedInv
    <2>4. PICK f \in Nat : f = Fall
        BY TimeFacts
    <2>5. PICK g \in Int : Dated(n, k, g, f)' /\ 0 <= g + f + Interval
        BY <2>1, <2>2, TimeFacts, RefreshDates DEF Timed
    <2>6. Fall' = f /\ Interval' = Interval /\ MsOf(sample)' = MsOf(sample)
        BY <2>1, <2>4 DEF Fall, Interval, MsOf, ReadCounterAfter, record_sample, refresh_vars
    <2>7. Followed(n, k, g)'
        BY <2>1, <2>3, <2>5, <2>6 DEF Followed
    <2> QED BY <1>1, <2>1, <2>7 DEF Timed
<1> QED
    BY <1>2, <1>3, <1>4, <1>5

\* A step of time goes on whatever count is under way.
LEMMA ElapseTimed ==
    ASSUME ClockedInv, NEW n \in Nat, Timed(n), TimePasses
    PROVE  Timed(n + 1)'
<1>0. /\ ClockOK /\ Elapse /\ UNCHANGED <<clock_vars, refresh_vars, call_wall>>
      /\ UNCHANGED <<pc, before, last_ms>>
    BY TimeFacts DEF TimePasses, generator_vars, refresh_vars
<1>1. Ran(n + 1)'
    BY <1>0, RanElapse DEF Timed
<1>2. pc' = "before" => \E h \in Nat : BeforeRead(n + 1, h)'
    <2> SUFFICES ASSUME NEW h \in Nat, BeforeRead(n, h)
                 PROVE  \E i \in Nat : BeforeRead(n + 1, i)'
        BY <1>0 DEF Timed
    <2>1. BeforeRead(n + 1, h + 1)' /\ h + 1 \in Nat
        BY <1>0, BeforeReadElapse
    <2> QED BY <2>1
<1>3. pc' = "sampled" => \E h, k \in Nat : Sampled(n + 1, h, k)'
    <2> SUFFICES ASSUME NEW h \in Nat, NEW k \in Nat, Sampled(n, h, k)
                 PROVE  \E i, j \in Nat : Sampled(n + 1, i, j)'
        BY <1>0 DEF Timed
    <2>1. Sampled(n + 1, h + 1, k + 1)' /\ h + 1 \in Nat /\ k + 1 \in Nat
        BY <1>0, SampledElapse
    <2> QED BY <2>1
<1>4. pc' \in {"idle", "due"} /\ last_ms' # 0 =>
          \E k \in Nat, g \in Int : Followed(n + 1, k, g)'
    <2> SUFFICES ASSUME NEW k \in Nat, NEW g \in Int, Followed(n, k, g)
                 PROVE  \E j \in Nat, i \in Int : Followed(n + 1, j, i)'
        BY <1>0 DEF Timed
    <2>1. Followed(n + 1, k + 1, g + ElapseTicks)'
        BY FollowedElapse
    <2>2. k + 1 \in Nat /\ g + ElapseTicks \in Int
        BY TimeFacts
    <2> QED BY <2>1, <2>2
<1> QED
    BY <1>1, <1>2, <1>3, <1>4 DEF Timed

\* The counts outlast every step, and a fall of the counter between refreshes.
LEMMA LagInvStep ==
    ASSUME WithinHalfRange, ClockedInv, LagInv, [NextMovedBetweenRefreshes]_vars
    PROVE  LagInv'
<1>0. PICK n \in Nat : Timed(n)
    BY DEF LagInv
<1>1. CASE CallOnCachedMs \/ CallRefreshing \/ RefreshBefore \/ RefreshWall \/ RefreshAfter
    <2>1. Timed(n)'
        BY <1>0, <1>1, CachedCallTimed, RefreshTimed
    <2> QED BY <2>1 DEF LagInv
<1>2. CASE TimePasses
    <2>1. Timed(n + 1)' /\ n + 1 \in Nat
        BY <1>0, <1>2, ElapseTimed
    <2> QED BY <2>1 DEF LagInv
<1>3. CASE pc \in {"idle", "due"} /\ CounterFallsBack
    <2>1. UNCHANGED <<wall, pc, last_ms>>
        BY <1>3 DEF CounterFallsBack, generator_vars, call_vars
    <2>2. CASE last_ms = 0
        <3>1. Timed(n)'
            BY <1>0, <1>3, <2>1, <2>2, RanKept DEF Timed
        <3> QED BY <3>1 DEF LagInv
    <2>3. CASE last_ms # 0
        <3>1. PICK k \in Nat, g \in Int : Followed(n, k, g)
            BY <1>0, <1>3, <2>3 DEF Timed
        <3>2. Followed(n, k, g - CounterJump)'
            BY <1>3, <3>1, FollowedFall
        <3>3. g - CounterJump \in Int
            BY JumpAssumption
        <3>4. Timed(n)'
            BY <1>0, <1>3, <2>1, <3>2, <3>3, RanKept DEF Timed
        <3> QED BY <3>4 DEF LagInv
    <2> QED BY <2>2, <2>3
<1>4. CASE UNCHANGED vars
    <2>1. UNCHANGED <<wall, tsc, next_deadline, before, sample, ticks_per_ms, jumped,
                      pause, last_ms, pc, call_wall>>
        BY <1>4 DEF vars, time_vars, clock_vars, refresh_vars, generator_vars, call_vars
    <2>2. Timed(n)'
        BY <1>0, <2>1 DEF Timed, Ran, BeforeRead, Sampled, Followed, Dated, MsOf, Interval, Fall
    <2> QED BY <2>2 DEF LagInv
<1> QED
    BY <1>1, <1>2, <1>3, <1>4 DEF NextMovedBetweenRefreshes, Next

\* Nothing is counted before the first refresh.
LEMMA LagInvInit ==
    ASSUME Init
    PROVE  LagInv
<1>1. wall \in WallStarts /\ pc = "idle" /\ last_ms = 0
    BY DEF Init, ClockInit, Generator!Init
<1>2. wall = wall + 0 * ElapseNanos
    BY <1>1, ClockAssumption
<1>3. Timed(0)
    BY <1>1, <1>2 DEF Timed, Ran
<1> QED
    BY <1>3 DEF LagInv

\* A later clock, more reuse or a greater fall only lower the bound.
LEMMA BoundBelow ==
    ASSUME NEW a \in Nat, NEW b \in Nat, a <= b, NEW r \in Nat, NEW j \in Nat
    PROVE  MsOf(a - r - 2 * j) <= MsOf(b) /\ MsOf(a - r - 2 * j) \in Int
<1>1. NANOS_PER_MS \in Nat \ {0}
    BY ArithAssumption
<1>2. PICK x \in Int : x = a - r - 2 * j /\ x <= b
    OBVIOUS
<1>3. x \div NANOS_PER_MS <= b \div NANOS_PER_MS
    BY <1>1, <1>2, DivMonotone
<1>4. x \div NANOS_PER_MS \in Int
    BY <1>1, SplitInt
<1> QED
    BY <1>2, <1>3, <1>4 DEF MsOf

\* The bound on the lag holds after every step that ends a call, and no other
\* makes an id older than its call.
LEMMA LagStep ==
    ASSUME WithinHalfRange, ClockedInv, LagInv, LagUnderRefreshInterval,
           [NextMovedBetweenRefreshes]_vars
    PROVE  LagUnderRefreshInterval'
<1>0. /\ ReuseNanos \in Nat /\ JumpNanos \in Nat /\ ticks_per_ms \in Nat
      /\ wall \in Nat /\ call_wall \in Nat /\ sample \in Nat /\ last_ms \in Nat
    BY ReuseCovers, FallNanos, TimeFacts
<1>1. PICK n \in Nat : Timed(n)
    BY DEF LagInv
<1>2. CASE CallOnCachedMs
    <2>1. /\ pc = "idle" /\ last_ms # 0 /\ ~should_refresh /\ call_wall' = wall
          /\ UNCHANGED <<ticks_per_ms, jumped>> /\ Generator!UseCachedMs
        BY <1>2 DEF CallOnCachedMs, StartCall, refresh_due, clock_vars
    <2>2. PICK k \in Nat, g \in Int : Followed(n, k, g)
        BY <1>1, <2>1 DEF Timed
    <2>3. MsOf(wall - ReuseNanos - 2 * JumpNanos) <= MsOf(sample) /\ last_ms >= MsOf(sample)
        <3>1. PICK f \in Nat : f = Fall
            BY TimeFacts
        <3>2. Dated(n, k, g, f) /\ last_ms >= MsOf(sample)
            BY <2>2, <3>1 DEF Followed
        <3>3. JumpNanos \in Nat /\ JumpNanos * ElapseTicks = f * ElapseNanos
            BY <3>1, FallNanos
        <3> QED BY <1>1, <2>1, <3>2, <3>3, TimeFacts, CachedInTime DEF Timed
    <2>4. last_ms' \in Nat /\ last_ms' >= last_ms
        BY <2>1, CallMovesOn
    <2>5. MsOf(wall - ReuseNanos - 2 * JumpNanos) \in Int
        <3>1. wall <= wall
            BY <1>0
        <3> QED BY <1>0, <3>1, BoundBelow
    <2>6. last_ms' >= MsOf(wall - ReuseNanos - 2 * JumpNanos)
        <3>1. MsOf(sample) \in Nat
            BY SampleMs DEF ClockedInv
        <3> QED BY <1>0, <2>3, <2>4, <2>5, <3>1
    <2>7. ReuseNanos' = ReuseNanos /\ JumpNanos' = JumpNanos
        BY <2>1 DEF ReuseNanos, JumpNanos
    <2> QED BY <2>1, <2>6, <2>7 DEF LagUnderRefreshInterval, MsOf
<1>3. CASE RefreshAfter
    <2>1. /\ pc = "sampled" /\ UNCHANGED <<call_wall, ticks_per_ms, jumped>>
          /\ Generator!UseReading(MsOf(sample))
        BY <1>3 DEF RefreshAfter, ReadCounterAfter, record_sample
    <2>2. call_wall <= sample
        BY <1>1, <2>1 DEF Timed, Sampled
    <2>3. last_ms' \in Nat /\ last_ms' >= MsOf(sample) /\ MsOf(sample) \in Nat
        BY <2>1, CallMovesOn, SampleMs DEF ClockedInv
    <2>4. /\ MsOf(call_wall - ReuseNanos - 2 * JumpNanos) <= MsOf(sample)
          /\ MsOf(call_wall - ReuseNanos - 2 * JumpNanos) \in Int
        BY <1>0, <2>2, BoundBelow
    <2>5. last_ms' >= MsOf(call_wall - ReuseNanos - 2 * JumpNanos)
        BY <2>3, <2>4
    <2>6. ReuseNanos' = ReuseNanos /\ JumpNanos' = JumpNanos
        BY <2>1 DEF ReuseNanos, JumpNanos
    <2> QED BY <2>1, <2>5, <2>6 DEF LagUnderRefreshInterval, MsOf
<1>4. CASE CallRefreshing \/ RefreshBefore \/ RefreshWall
    BY <1>4 DEF CallRefreshing, RefreshBefore, RefreshWall, LagUnderRefreshInterval, Returned
<1>5. CASE TimePasses \/ UNCHANGED vars
    <2>1. UNCHANGED <<pc, last_ms, last_id, call_wall, ticks_per_ms, jumped>>
        BY <1>5 DEF TimePasses, vars, clock_vars, generator_vars, call_vars
    <2> QED
        BY <2>1 DEF LagUnderRefreshInterval, Returned, ReuseNanos, JumpNanos, MsOf
<1>6. CASE CounterFallsBack
    <2>1. /\ UNCHANGED <<pc, last_ms, last_id, call_wall, ticks_per_ms>>
          /\ ~jumped /\ jumped'
        BY <1>6 DEF CounterFallsBack, clock_vars, generator_vars, call_vars
    <2>2. PICK j \in Nat : j = JumpNanos'
        <3>1. (CounterJump * ElapseNanos) \div ElapseTicks \in Nat
            <4>1. CounterJump * ElapseNanos \in Nat /\ ElapseTicks \in Nat \ {0}
                BY JumpAssumption, ClockAssumption
            <4> QED BY <4>1, DivMod
        <3> QED BY <2>1, <3>1 DEF JumpNanos
    <2>3. JumpNanos = 0
        BY <2>1 DEF JumpNanos
    <2>4. PICK a \in Int, b \in Int :
              /\ a = call_wall - ReuseNanos - 2 * JumpNanos
              /\ b = call_wall - ReuseNanos - 2 * j /\ b <= a
        BY <1>0, <2>3
    <2>5. MsOf(b) <= MsOf(a) /\ MsOf(a) \in Int /\ MsOf(b) \in Int
        <3>1. NANOS_PER_MS \in Nat \ {0}
            BY TimeFacts
        <3>2. b \div NANOS_PER_MS <= a \div NANOS_PER_MS
            BY <2>4, <3>1, DivMonotone
        <3>3. a \div NANOS_PER_MS \in Int /\ b \div NANOS_PER_MS \in Int
            BY <3>1, SplitInt
        <3> QED BY <3>2, <3>3 DEF MsOf
    <2>6. Returned => last_ms >= MsOf(b)
        <3>1. Returned => last_ms >= MsOf(a)
            BY <2>4 DEF LagUnderRefreshInterval
        <3> QED BY <1>0, <2>5, <3>1
    <2>7. ReuseNanos' = ReuseNanos /\ Returned' = Returned
        BY <2>1 DEF ReuseNanos, Returned
    <2> QED
        BY <2>1, <2>2, <2>4, <2>6, <2>7 DEF LagUnderRefreshInterval, MsOf
<1> QED
    BY <1>2, <1>3, <1>4, <1>5, <1>6 DEF NextMovedBetweenRefreshes, Next

\* Between refreshes the deadline is as far off as the code takes it to be, and
\* the sample no older than preemption makes it.
THEOREM LagInvariant ==
    ASSUME WithinHalfRange
    PROVE  MovedBetweenRefreshesSpec => []LagInv
<1>1. ClockedInv /\ LagInv /\ [NextMovedBetweenRefreshes]_vars => LagInv'
    BY LagInvStep
<1> QED
    BY <1>1, LagInvInit, FewerMoves, ClockedInvariant, PTL DEF MovedBetweenRefreshesSpec

\* No id is older than its call by the refresh interval, wherever a refresh is
\* preempted and for how long, in proportion longer with a rate that is too
\* fast, and by twice its fall when the counter falls back between refreshes.
THEOREM LagTheorem ==
    ASSUME WithinHalfRange
    PROVE  MovedBetweenRefreshesSpec => []LagUnderRefreshInterval
<1>1. Init => LagUnderRefreshInterval
    BY DEF Init, Generator!Init, LagUnderRefreshInterval, Returned
<1>2. /\ ClockedInv /\ LagInv /\ LagUnderRefreshInterval
      /\ [NextMovedBetweenRefreshes]_vars
      => LagUnderRefreshInterval'
    BY LagStep
<1> QED
    BY <1>1, <1>2, LagInvariant, FewerMoves, ClockedInvariant, PTL
    DEF MovedBetweenRefreshesSpec

\* A call that rested for the refresh interval does not find its deadline ahead,
\* unless the counter fell.
LEMMA CatchUpStep ==
    ASSUME WithinHalfRange, ClockedInv, LagInv, [NextMovedBetweenRefreshes]_vars,
           last_id' # last_id, pause = RestTicks, ~jumped, last_ms < MsOf(call_wall')
    PROVE  last_ms' \in MsOf(call_wall') .. MsOf(wall')
<1>0. PICK n \in Nat : Timed(n)
    BY DEF LagInv
<1>1. CASE CallOnCachedMs
    <2>1. pc = "idle" /\ last_ms # 0 /\ ~should_refresh
        BY <1>1 DEF CallOnCachedMs, StartCall, refresh_due
    <2>2. PICK k \in Nat, g \in Int : Followed(n, k, g)
        BY <1>0, <2>1 DEF Timed
    <2>3. g < 0
        BY <1>0, <2>1, <2>2, TimeFacts, NotDueEarly DEF Followed, Dated, Timed
    <2>4. Fall = 0
        BY DEF Fall
    <2>5. /\ Interval \in Nat /\ Interval <= RestTicks
          /\ pause <= g + 0 + Interval /\ pause \in 0 .. RestTicks
        BY <2>2, <2>4, TimeFacts DEF Followed, Dated, ClockedInv, TypeOK
    <2> QED BY <2>3, <2>5
<1>2. CASE RefreshAfter
    <2>1. /\ pc = "sampled" /\ call_wall' = call_wall /\ wall' = wall
          /\ Generator!UseReading(MsOf(sample))
        BY <1>2 DEF RefreshAfter, ReadCounterAfter, time_vars
    <2>2. call_wall <= sample /\ sample <= wall
          /\ call_wall \in Nat /\ sample \in Nat /\ wall \in Nat /\ last_ms \in Nat
        BY <1>0, <2>1, TimeFacts DEF Timed, Sampled
    <2>3. MsOf(call_wall) <= MsOf(sample) /\ MsOf(sample) <= MsOf(wall)
          /\ MsOf(call_wall) \in Nat /\ MsOf(sample) \in Nat /\ MsOf(wall) \in Nat
        <3>1. NANOS_PER_MS \in Nat \ {0}
            BY TimeFacts
        <3>2. /\ call_wall \div NANOS_PER_MS <= sample \div NANOS_PER_MS
              /\ sample \div NANOS_PER_MS <= wall \div NANOS_PER_MS
            BY <2>2, <3>1, DivMonotone
        <3>3. /\ call_wall \div NANOS_PER_MS \in Nat /\ sample \div NANOS_PER_MS \in Nat
              /\ wall \div NANOS_PER_MS \in Nat
            BY <2>2, <3>1, DivMod
        <3> QED BY <3>2, <3>3 DEF MsOf
    <2>4. last_ms < MsOf(call_wall)
        BY <2>1
    <2>5. ~(MsOf(sample) <= last_ms)
        BY <2>2, <2>3, <2>4
    <2>6. last_ms' = MsOf(sample)
        BY <2>1, <2>5 DEF Generator!UseReading, Generator!Advance
    <2>7. MsOf(sample) \in MsOf(call_wall) .. MsOf(wall)
        BY <2>3
    <2> QED BY <2>1, <2>6, <2>7
<1>3. CASE ~CallOnCachedMs /\ ~RefreshAfter
    BY <1>3 DEF NextMovedBetweenRefreshes, Next, CallRefreshing, RefreshBefore,
        RefreshWall, TimePasses, CounterFallsBack, generator_vars, vars
<1> QED
    BY <1>1, <1>2, <1>3

\* A lead the clock has not passed does not grow, but by a counter used up.
LEMMA LeadStep ==
    ASSUME ClockedInv, LagInv, [NextMovedBetweenRefreshes]_vars, last_id' # last_id
    PROVE  \/ last_ms' = last_ms
           \/ last_ms' \in last_ms .. MsOf(wall')
           \/ counter >= COUNTER_MAX /\ last_ms' = last_ms + 1
<1>0. PICK n \in Nat : Timed(n)
    BY DEF LagInv
<1>1. Generator!RollOver \/ Generator!Increment
      => \/ last_ms' = last_ms
         \/ counter >= COUNTER_MAX /\ last_ms' = last_ms + 1
    BY DEF Generator!RollOver, Generator!Increment, Generator!counter_exhausted
<1>2. CASE CallOnCachedMs
    BY <1>1, <1>2 DEF CallOnCachedMs, Generator!UseCachedMs
<1>3. CASE RefreshAfter
    <2>1. pc = "sampled" /\ wall' = wall /\ Generator!UseReading(MsOf(sample))
        BY <1>3 DEF RefreshAfter, ReadCounterAfter, time_vars
    <2>2. sample \in Nat /\ wall \in Nat /\ sample <= wall /\ last_ms \in Nat
        BY <1>0, <2>1, TimeFacts DEF Timed, Sampled
    <2>3. MsOf(sample) <= MsOf(wall) /\ MsOf(sample) \in Nat /\ MsOf(wall) \in Nat
        <3>1. NANOS_PER_MS \in Nat \ {0}
            BY TimeFacts
        <3>2. sample \div NANOS_PER_MS <= wall \div NANOS_PER_MS
            BY <2>2, <3>1, DivMonotone
        <3>3. sample \div NANOS_PER_MS \in Nat /\ wall \div NANOS_PER_MS \in Nat
            BY <2>2, <3>1, DivMod
        <3> QED BY <3>2, <3>3 DEF MsOf
    <2>4. CASE Generator!Advance(MsOf(sample))
        <3>1. last_ms' = MsOf(sample) /\ MsOf(sample) > last_ms
            BY <2>4 DEF Generator!Advance
        <3>2. last_ms' \in last_ms .. MsOf(wall)
            BY <2>2, <2>3, <3>1
        <3> QED BY <2>1, <3>2
    <2>5. CASE Generator!RollOver \/ Generator!Increment
        BY <1>1, <2>5
    <2> QED BY <2>1, <2>4, <2>5 DEF Generator!UseReading
<1>4. CASE ~CallOnCachedMs /\ ~RefreshAfter
    BY <1>4 DEF NextMovedBetweenRefreshes, Next, CallRefreshing, RefreshBefore,
        RefreshWall, TimePasses, CounterFallsBack, generator_vars, vars
<1> QED
    BY <1>2, <1>3, <1>4

\* "It catches up again as soon as generation pauses": after a pause of a
\* refresh interval, an id asked for once the wall clock has passed the timestamp
\* gets a millisecond of its own call; a lead not passed yet is not added to.
THEOREM CatchUpTheorem ==
    ASSUME WithinHalfRange
    PROVE  MovedBetweenRefreshesSpec => CatchesUp
<1>1. ClockedInv /\ LagInv /\ [NextMovedBetweenRefreshes]_vars
      => [/\ last_id' # last_id
          /\ pause = RestTicks
          /\ ~jumped
          => IF last_ms < MsOf(call_wall')
             THEN last_ms' \in MsOf(call_wall') .. MsOf(wall')
             ELSE \/ last_ms' = last_ms
                  \/ last_ms' \in last_ms .. MsOf(wall')
                  \/ counter >= COUNTER_MAX /\ last_ms' = last_ms + 1]_vars
    BY CatchUpStep, LeadStep
<1> QED
    BY <1>1, LagInvariant, FewerMoves, ClockedInvariant, PTL
    DEF MovedBetweenRefreshesSpec, CatchesUp
=============================================================================
