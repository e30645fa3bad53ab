# fast-uuid-v7 in TLA+

A verification development of the Rust crate `fast-uuid-v7` (sources under
`src/`): TLA+ modules of its generators and its clock, TLC runs over small
instances, and TLAPS proofs for every value of the parameters.

## 1. Inventory of the system

The crate makes 128-bit UUID v7 ids: 48 bits of Unix milliseconds, version,
12 bits `rand_a`, variant, 62 bits `rand_b`.  It is fast because it keeps a
millisecond and asks a CPU counter, not the wall clock, whether that millisecond
is still good.

| Component | Source | State | Operations |
|---|---|---|---|
| id layout | `src/src/lib.rs` 232-256 | none | `uuid_v7_from_parts`, `compose_rand_a` |
| thread-local state | `src/src/lib.rs` 68-229 | `last_ms`, `last_nanos_within_ms`, `last_sampled_nanos_within_ms`, `counter`, `rng`, a clock | `get_time`, `sample_time`, `get_time_and_counter`, `record_time_sample`, `reseed` |
| free functions | `src/src/lib.rs` 270-388, 749-774 | the calling thread's state | `gen_id`, `gen_id_with_sub_ms_4/8/12`, `gen_id_with_count`, their string forms |
| `RandomGenerator` | `src/src/lib.rs` 284-313 | a thread state of its own | `next_id`, `reseed` |
| `SequentialGenerator` | `src/src/sequential.rs` | `last_ms`, `counter`, `rng`, a clock | `next_id` and its string and iterator forms |
| clock | `src/src/clock.rs` | `ticks_per_ms`, `sampled_at`, `next_deadline` | `should_refresh`, `refresh_timestamp`, `estimated_timestamp` |
| calibration | `src/src/clock.rs` 156-239 | a process-wide `OnceLock` | `counter_ticks_per_ms` |
| text formatting | `src/src/lib.rs` 27-55, 390-747 | a cached CPU feature | `format_uuid`, `format_uuid_hex` (scalar, SSSE3, NEON) |
| Python module | `src/python/src/lib.rs` | a process-wide generator and a cached `UUID` object, both behind the GIL; the free functions' thread state; `SequentialGenerator` objects with PyO3's borrow flag | `uuid7...`, `gen_id...`, `UUID` and its getters, `SequentialGenerator`, `reseed` in forked children |
| diagnostic example | `src/examples/sub_ms_diagnostic.rs` | none | decodes the window a fraction stands for and measures its gap to the call |

How they interact.  Every generator owns a clock and calls it directly.  A call
asks `should_refresh`; if the deadline has passed it reads counter, wall clock
and counter, and hands the sample to `record_time_sample` (or the same lines of
`next_id`), which keeps only later milliseconds and reseeds the counter for each.
All free functions of a thread share one state, so each call finds what the
other kinds of call have left.  Threads share nothing but the calibrated rate
and the cached CPU feature.  The Python module adds shared objects under the GIL
and a fork hook.

What is hard here:

* the wall clock may go back, repeat a millisecond, or stand before 1970;
* a call may be preempted between any two of the three readings of a refresh;
* the CPU counter wraps, and deadlines are compared across the wrap;
* nanoseconds are extrapolated between refreshes and may overshoot the next one;
* the counter's rate is measured once, by a thread that may be preempted;
* a counter of 18 bits can be used up within a millisecond;
* random, sub-millisecond and counter ids are mixed on one state;
* `fork()` copies random state, and a lock another thread may hold;
* Python objects are overwritten in place when nobody else holds them;
* Python threads may share a generator, and its calls may overlap or fail.

What correctness means, component by component:

* layout: an id orders as its (timestamp, counter) pair, whatever its random bits;
* `SequentialGenerator`: strictly increasing ids on every clock, and a timestamp
  that never falls behind a reading and leads the clock only for want of counters;
* thread state: `gen_id_with_count` strictly increases, ids with a fraction never
  sort backwards, timestamps never decrease, under any mix of calls;
* clock: an id is dated at most half a millisecond before its call, never ahead
  of the clock within the budget of ids; after a pause it is current once the
  clock has passed the generator's timestamp, and until then a lead does not grow; a
  fraction lags its call no more than its millisecond may, and runs ahead by less
  than the refresh interval; a measured rate is never too fast;
* formatting: the text orders as the number, all formatters agree, and parser
  and getters read back what was packed;
* Python: an object somebody holds never changes; a forked child repeats no bits;
  the ids of a shared generator increase in the order its calls end.

## 2. Modules

    UuidLayout ─────┬── SequentialGenerator ── (refines) IncreasingSource
                    │        └── PySequential ──── (refines) IncreasingSource
                    └── ThreadState ────────── (refines) IncreasingSource
    ClockArith ───── CounterClock ─┬─ ClockedSequential (with SequentialGenerator)
                                   └─ Calibration ── ClockedThread (with ThreadState)

    UuidFields ── UuidText        ForkReseed        UuidCache

The theorems about a module `M` are in `MProofs`, those about `UuidCache` and
`UuidText` in `UuidObjectProofs`: the two share no name, so that one module can
extend both (which is why `UuidText` has `TextInit`, `stage` and `arg` where the
others have `Init`, `pc` and `id`).  Those of `UuidLayoutProofs`
are used by all that make or date ids; `PySequentialProofs` and
`ClockedSequentialProofs` cite `SequentialGeneratorProofs` for what a call does to
a generator, and `ClockedThreadProofs` cites `ThreadStateProofs` for a thread and
`ClockedSequentialProofs` for the clock.

| Module | Models |
|---|---|
| `UuidLayout` | the bit layout as positional arithmetic: a field of n bits is a digit of base 2^n, and the bases are constants |
| `IncreasingSource` | the abstract promise: each id issued is greater than the last |
| `SequentialGenerator` | `sequential.rs`: one action per call, in its two forms (refreshing or not) |
| `ClockArith` | the arithmetic of `clock.rs` with the widths of u32 and u64 as constants |
| `ThreadState` | the shared state of a thread and the three kinds of id made from it |
| `CounterClock` | the CPU-counter backend and the environment: wall clock and counter advanced by time |
| `ClockedSequential` | a generator on that clock, a call split where it can be preempted |
| `Calibration` | where the clock's rate comes from: declared by the CPU, or measured reading by reading |
| `ClockedThread` | a thread's state and the three kinds of call on that clock, calibration and estimate included, or on the system clock |
| `PySequential` | a Python `SequentialGenerator` shared by threads: the borrow flag, the GIL, failed calls, fork |
| `ForkReseed` | random streams, the calibration `OnceLock` and the reseed hook of forking processes |
| `UuidCache` | the Python module's cached `UUID` object and the references to it |
| `UuidFields` | the layout in bytes at its real widths, and the getters of the Python `UUID` |
| `UuidText` | the three formatters, the race to choose one, and the parser |
| `UuidLayoutProofs`, `SequentialGeneratorProofs`, `ThreadStateProofs`, `ClockedSequentialProofs`, `ClockedThreadProofs`, `PySequentialProofs`, `ForkReseedProofs`, `UuidObjectProofs` | theorems, section 5 |

### How the models correspond to the code

`SequentialGenerator`.  `last_ms` and `counter` are the fields.  A call is one
action, since it holds `&mut self`.  `UseReading(ms)` is the call that refreshes
and reads `ms`: `Advance` is the branch `sample.ms > last_ms`, otherwise the
counter moves by `RollOver` or `Increment`.  `UseCachedMs` is the call whose
deadline has not passed.  The clock is left out on purpose: a refresh reads any
millisecond at all, so what is shown holds on every clock.  `last_id`,
`clock_max` and `since` are history variables that the code does not have.
`clock_max` is the latest millisecond read and `since` the ids returned since
the clock last moved `last_ms`.

`ThreadState`.  The four fields are the variables.  `record_time_sample` is
written as its two outcomes; `get_time`, `sample_time` and
`get_time_and_counter` as their branches.  In `get_time_and_counter` a refresh
that brings no later millisecond is followed by the counter's turn: `Increment`
contains it, and `RollOver` overwrites everything such a refresh can have
changed.  The estimate of the nanosecond is any value from the last sample to the
end of the millisecond, which is what `estimate_nanos_within_ms_from_ticks`
clamps it to (the sample itself is what a backend with no estimate yields).
`count_id`, `sub_ms_id`, `sub_ms_slots` and `last_ts` are history variables.

`CounterClock` and `ClockedSequential`.  `sampled_at` and `next_deadline` are
the fields of the code's `CounterClock`; `before` and `sample` the locals of a
refresh, `pc` where it stands.  `TimePasses` moves the wall clock and the counter
in a fixed proportion and may happen between any two steps, which is preemption.
`ticks_per_ms` is what the code takes the rate for, any of `Rates`, right or
wrong.  The counter is read once per step, and it wraps at `U64`.  The caller
takes at most `IdsPerMs` ids per wall-clock millisecond.  `pause` is a history
variable: how long the caller has rested since the last id, up to a refresh
interval.  Two more specifications let the counter fall back once: between
refreshes, or at any time.

`Calibration` and `ClockedThread`.  A thread starts at `pc = "new"`, where
`CounterClock::new` takes its rate: CPUID (`Rates`) or CNTFRQ_EL0 (`CounterHz`)
declares it, or it is measured by four readings, each a step (`StartInstant`,
`StartTsc`, `EndTsc`, `EndInstant`).  The monotonic clock is the wall clock, from
which it differs by a constant here.  A call that needs no refresh is one step,
but one with a fraction has a second, `Estimate`, where the counter is read again.
A refresh is the three steps of `ClockedSequential`; `UseSample` is
`record_time_sample` and, for counter ids, the counter's turn.  `backend =
"system"` is a build without a CPU counter, where every call samples.  Variables
keep no id: `ThreadState` makes it of the fields, and the module instantiates
`ThreadState` with the ids left out.

Randomness is a nondeterministic choice in all of these, so `reseed` changes
nothing in them.

`ForkReseed`.  Here a random generator is a stream, a pair of a seed and the
number of draws made from it; an id is one draw.  `rng[p]` holds the streams of
process `p`: one per thread (`STATE`) and one for the Python module's `GENERATOR`.
`made` is the half-built state inside `ThreadState::new`, which has its seed and
waits for its clock; `cached` is the `OnceLock` in `calibrated_ticks_per_ms`.
`Fork` copies streams and lock into a process with one thread, whose first call is
`reseed`, as the hook has it.  `Gil` says whether calls and forks hold the GIL
throughout.  `drawn` and `ids` are history variables.  The operating system never
runs out of seeds.

`PySequential`.  The generator is an instance of `SequentialGenerator`; around
its `next_id` a call enters, borrows the object or is refused, makes its id,
converts and gives the object back.  A conversion may fail for want of memory:
PyO3 unwinds the call, and the id is lost.  With a GIL a call holds it from
entering to leaving.  A fork is followed into the child, which has the object as
it was and one thread.  `issued`, `calls` and `refused` are history variables.

`UuidCache`.  `refcnt` and `content` are what the heap holds, `cache` is
`UUID_CACHE`, and `held` says which object each variable of Python code refers to;
variables are names, frames and lists alike, and all threads share them.
A call of `uuid7_with_cache_id` is three or four steps, the test of the reference count
and the write apart, all of them under the GIL, as the code's comments demand:
nothing in between runs Python code.  (Allocating a `UUID` starts no garbage
collection, because the class takes no part in it.)

`UuidFields` and `UuidText`.  An id is its 16 bytes, a text a sequence of character codes.  The
vector instructions are operators on 16 bytes that do what the instructions do,
the 16-bit shift included.  The parser's loop is a recursive function,
`DigitsRead`, of one turn, `ParseByte`.  The choice of a formatter is the state machine:
`X86_FORMATTER` is read, and if empty the CPU is asked and the answer stored.
`ran` is a history variable: which of the bodies made a thread's text.

## 3. Runs

| Run | Configuration | Shows |
|---|---|---|
| `seq_any_clock` | `SequentialGenerator.cfg` | order, drift bound and types of one generator on every clock |
| `thread_state` | `ThreadState.cfg` | order of each kind of id under every mix of calls, on every clock |
| `clocked` | `ClockedSequential.cfg` | lag under half a millisecond and twice the fall of the counter, no lead within the budget, current after a pause once the clock has passed the last timestamp |
| `clocked_rates` | `ClockedSequentialRates.cfg` | the lag in proportion to a wrong rate, with deadlines that round up to a tick of two nanoseconds; a caller over the budget, whose lead does not grow in a pause and ends with the first call after it that finds the clock past it |
| `clocked_thread` | `ClockedThread.cfg` | the free functions on the real clock: it is one `ThreadState` allows, measured rates are never too fast, timestamps and fractions are near their call |
| `calibration_preempted` | `ClockedThreadMeasured.cfg` | violation: the accuracy the comment states does not survive preemption |
| `counter_jump` | `ClockedSequentialJump.cfg` | violation: the documented bound of 1 ms does not hold |
| `fork_gil` | `ForkReseed.cfg` | on a GIL build no draw is repeated after a fork and the reseed hook returns |
| `fork_unlocked` | `ForkReseedUnlocked.cfg` | violation: in a threaded program `reseed` may wait for ever |
| `uuid_cache` | `UuidCache.cfg` | an object somebody holds never changes; reference counts are exact |
| `uuid_text` | `UuidText.cfg` | each thread runs the formatter its CPU has, texts order as ids do, the parser inverts them and is exact, the getters agree with text and packing |
| `py_sequential` | `PySequential.cfg` | a shared generator keeps its order and is given back; under the GIL no call is refused |

Fairness is assumed in `ForkReseed` and `PySequential`: weak fairness of the steps
inside a call, one thread at a time.  It stands for an operating system that runs
every thread and a busy-wait that ends; nothing makes a thread call, fork or
return to its caller's loop, nor a conversion succeed rather than fail.  The other
runs check safety only: a caller may stop asking at any time.  How a generator ahead
of the clock recovers is stated without fairness as well, as what the next id
after a pause must be (`CatchesUp`).  `src/src/sequential.rs:32` says "as soon as
generation pauses"; a pause shorter than the lead cannot end it, since ids must
not go back.  The property says what a pause does: an id after it is current if
the clock has passed the timestamp by then, and otherwise the lead is not added
to, except by the millisecond a used-up counter takes.  `CHECK_DEADLOCK FALSE`
is set because callers do stop and because the bound on time, timestamps or ids
ends every behaviour.

### Bounds and why they suffice

* Field widths.  Two values of each random field distinguish "random" from
  "ordered"; `RandAMod` 4 and `CtrLowMod` 2 make a counter cross the boundary
  between `rand_a` and `rand_b`.  `MaxMs` is `TsMod - 1`, so that timestamps
  reach the last value 48 bits would hold.  That they do not pass it is an
  assumption (2^48 ms is the year 10889); it bounds `RollOver` too.
* Counter.  `COUNTER_MAX` 7 with a seed up to 3 (3 with 1 elsewhere): several
  ids below, at and after exhaustion, and a reseed both below and at the mask.
* `ThreadState`: 5 nanoseconds per millisecond with 2 and 4 fraction slots, so
  that slots do not divide the millisecond, and `U32` is 20, exactly what
  the widest product needs, as 2^32 nearly is in the code.
* `ClockedSequential`: 6 nanoseconds per millisecond, refresh interval 3.
  `MaxWall` leaves room for a refresh preempted for more than a millisecond,
  then a stale call, then the next refresh.  `U64` 64 is several times the
  longest interval, as half of 2^64 ticks is of any real one.  Counter starts
  are chosen on both sides of the wrap and of the half range, and so that a
  deadline falls on exactly 0.  `IdsPerMs` 3 is the whole budget of
  `COUNTER_MAX - COUNTER_SEED_MASK + 1`; with one more id per millisecond
  `NeverAheadWithinBudget` fails, so the budget is tight, and `clocked_rates`
  takes that one more so that there is a lead to catch up.  The counter falls by
  one millisecond's worth.  Rates go from two thirds of the true one to twice.
* `ClockedThread`: 6 nanoseconds per millisecond, a measurement of 3, windows of 2
  and 4 slots.  One counter id less per millisecond is within the budget than in
  `ClockedSequential`, since a call of another kind may have used up the seed.
  The bounds of `FractionNearCall` are tight: a fraction does lag by all that its
  millisecond may, which a counter of several ticks per nanosecond brings about,
  and does run ahead by one nanosecond less than the refresh interval.  Without
  the condition on the rate the second fails: an estimate at too low a rate runs to
  the end of its millisecond.  A measurement without a single tick falls back
  to a guess, which `MeasuredNotTooFast` exempts and the configuration takes to be
  right, as nothing is claimed of a wrong guess.
* `PySequential`: three threads are a borrower, one that is refused and one that
  comes after; five calls roll the counter over twice after the last reading.
* `ForkReseed`: two processes and two threads are a parent that may be measuring
  in one thread while the other forks, and a child.  Four ids are enough for
  parent and child to draw twice each from every kind of stream they share.  The
  parent may fork before, between and after its first calls.
* `UuidCache`: three objects are the one in the cache, the one that replaces it
  and one that only Python code holds; four ids let the cached object be
  allocated, reused and replaced.  Four variables hold each object, and one of
  them twice; more references differ in nothing that the count of 1 is compared
  with.
* `UuidText`: two bytes vary, the first after a dash and the first of the upper
  half of the vector, which is also the variant, over three values whose nibbles
  lie on both sides of the step from `9` to `a`, with the variant of RFC 4122 and
  without; the neighbours of a byte reach
  the shift between lanes.  Two threads order every pair of ids under every pair
  of formatters a build has.

Every property of a passing run has a mutant, an operator beside the one it
replaces with a plausible slip: the seed's mask left out, exhaustion noticed one
id late, a reading of the same millisecond counted as later, a borrowed
millisecond not stored, an estimate overwritten by a smaller sample, the sample
dated at the end of the refresh, the longer of two intervals, counters
compared without wrapping, the process-wide generator not reseeded, a reference
not counted, two nibbles exchanged, an estimate that starts from the last estimate,
the busy-wait's nominal length taken for its real one, the clock asked only when
the counter is used up, an object not marked as borrowed.  TLC finds the property violated under each.

## 4. What was found

`counter_jump`.  `src/README.md:133` says that extreme edge cases such as VM
migration might cause a 1 ms timestamp lag.  A refresh computes
`before + (after - before) / 2` in wrapping arithmetic.  If the counter falls
back by even one tick between the two readings, the difference is just under
2^64, half of it puts `sampled_at` 2^63 ticks ahead, and the deadline with it.
A call within the next refresh interval still sees the deadline as reached and
repairs it; a caller that pauses for longer finds `deadline_reached` false until
the counter has passed through half its range, and its timestamps stand still
until then.  A fall between two refreshes is milder, and the run `clocked` bounds
it: the lag grows by at most twice the fall.  Twice, because a preempted refresh
dates its sample up to half its own length late.

`fork_unlocked`.  `src/src/lib.rs:218-220` recommends `reseed` in a forked child
because only the calling thread survives.  On an x86-64 CPU that does not declare
its rate (CPUID leaf 0x16), the first generator of the process measures it inside
a `OnceLock` for 200 µs.  A fork from another thread within that time leaves the
child with a lock that is being initialised by a thread it does not have.  If the
forking thread had a generator already, its `reseed` returns; otherwise `reseed`
makes one, waits for the measurement, and never returns, nor does any other first
use.  Under the GIL this cannot happen, since the measuring thread holds it:
`fork_gil` checks the same property, and `MeasuringHasOwner` is the reason.

`calibration_preempted`.  `src/src/clock.rs:187-188` says of the measurement that
200 µs are "giving sub-percent accuracy against the ~1 ns monotonic-clock
resolution".  `Instant::now()` and the counter are read one after the other, at
the start and at the end.  A thread preempted between the two sets few ticks
against a long time; at the start the wait is then over at once.  The rate comes
out too low by any factor, and the process keeps it: the refresh
interval is a few ticks, so that almost every call asks the operating system, and
what few fractions are still estimated run ahead of the time, to the end of their
millisecond at the worst.  Order,
timestamps and the lag bound do not suffer, as `clocked_thread` shows, because the
order of the readings can only make the rate too low.

## 5. Proofs

All theorems hold for every value of the constants that the named assumptions
admit: `LayoutAssumption`, `ArithAssumption`, `CounterAssumption`,
`ThreadAssumption`, `SlotsAssumption`, `ClockAssumption`, `RatesAssumption`,
`JumpAssumption`, `CalibrationAssumption`, `ClockedSequentialAssumption`,
`ClockedThreadAssumption`, `ForkAssumption`, `CacheAssumption`,
`TextAssumption` and `PyAssumption`.  TLC evaluates them on the constants of each run.  What some
theorems need beyond them stands in the theorem: `WithinHalfRange`,
`WithinBudget`, `DeclaredRight`, `Gil`.  Every run that checks the property of
such a theorem satisfies them.

* `UuidLayoutProofs`.  Positional arithmetic: a `Pack` is decoded by division and
  remainder (`PackHigh`, `PackLow`), packs order lexicographically, and
  `CounterSplit` puts a counter together again from its two fields.
  `CounterIdOrder`: a later (timestamp, counter) pair makes a greater id, and the
  same timestamp is read back from it.  The facts about remainders
  (`ModPlusMultiple`, `ModThenAdd`) are what wrapping counters rest on.
* `SequentialGeneratorProofs`.  `TypeCorrect`; `ImplementsIncreasingSource` by
  the invariant `IdInv`, that the last id is the one made from the current
  timestamp and counter (or 0 at the start), which no property mentions and
  without which the last id could be anything; `DriftTheorem` by `DriftInv`,
  which counts the ids of the current millisecond from the counter: a rollover
  only happens after a whole budget.
* `ThreadStateProofs`.  `TypeCorrect`; `TimestampsTheorem` from `last_ts <=
  last_ms`; `CountTheorem` by `CountInv`: the last counter id was made at an
  earlier millisecond, or in this one from the present counter; `SubMsTheorem` by
  `SubMsInv`: the fraction of the last such id is at most that of the present
  nanosecond, whatever width is asked for next.  `SlotsAssumption` says that
  fractions nest and that their product fits 32 bits.
* `ClockedSequentialProofs`.  `TypeCorrect`, for a counter that may fall back at
  any time.  `LagTheorem` and `CatchUpTheorem` (with `LeadStep` for a lead
  that remains) by `LagInv`, which counts time in
  steps and the counter without wrapping: between refreshes the counter is `g`
  ticks past the deadline (before it if negative), the sample is `k` steps old,
  and those `k` steps are at most twice the ticks since the instant the sample is
  dated, because it is dated half-way through its refresh.  A call that does
  not refresh has `g < 0` (`NotDueEarly`, where the comparison that wraps is shown
  right), so `k` is under twice the interval, and `DeadlineInTime` turns ticks
  into nanoseconds, rounding and a wrong rate included.  `WithinHalfRange` says that
  the time modelled takes the counter through less than half its range: 97
  years at 3 GHz.  `BudgetTheorem` by `BudgetInv`: a timestamp equal to the wall
  clock's millisecond was taken within it, so the counter has grown by no more
  than the ids of this millisecond.  It needs no clock at all, only a caller
  `WithinBudget` that does not run in the first millisecond of 1970.
* `ClockedThreadProofs`.  `TypeCorrect`; `ClockTheorem`, that what any step on the
  real clock does to a thread's fields `ThreadState` allows (the estimate is never
  before the sample nor past the millisecond); and `MovesOnTheorem`, which draws
  on `ThreadStateProofs` for such steps.  `MeasuredTheorem` by `MeasureInv`: at each
  of the four readings the ticks counted so far fit the time passed since the
  first.  `DeclaredRight` says that the rates a CPU declares, which the code takes
  unmeasured, are not above the true one.  `TimestampTheorem` puts the two arguments
  of `ClockedSequentialProofs` together for a thread: what is shown there of the
  clock alone is instantiated as `CP`, with a counter that does not fall, and
  `NearCall` carries the bound from the moment a call on a counter finds the
  deadline ahead, which for an estimate is a step before it ends.  `ModeInv` keeps
  the three kinds of clock apart: one being calibrated, which has given no timestamp
  yet; a counter; and none, where every call reads the wall clock itself.  The
  thread's `BudgetInv` counts the counter ids alone, since the others take no
  millisecond that was not read.  `FractionTheorem` needs the instant a thread's
  nanosecond stands for, and has it from `FractionInv`: the last sample is not
  after now, and whatever was estimated since began again from it (`SampleInv`);
  an estimate under way is of a call that found the counter before the deadline,
  so it adds what the ticks since the sample's date are worth, the date being at
  most half a refresh off (`Estimating`); a nanosecond given out is ahead of now by
  less than the interval (`AheadInv`), which later calls inherit because a
  thread's time never goes back; and one given to an id with a fraction lags by no
  more than `ReuseNanos` (`BehindInv`).  The window of a fraction contains its
  nanosecond, so both bounds pass to it.  It takes `WithinHalfRange` for the
  comparison that wraps and `WithinBudget` for milliseconds borrowed by counter
  ids, which would put a fraction ahead of the clock.  The condition on the rate
  is part of the property, because a thread may measure a rate that is too low.
* `PySequentialProofs`.  `IncreasingTheorem` by `Outstanding`: the id a thread
  brings back is the generator's last and not given out yet, so the order in which
  calls end is the order in which ids were made; `NeverRefusedTheorem` by `GilInv`:
  the thread in a call has the GIL and what is borrowed is borrowed by that
  thread.
* `ForkReseedProofs`.  `NoReplayTheorem` by `ForkInv`: the streams that may still be
  drawn from (a thread's, unless its process is a child that has not reseeded; the
  module's, unless a reseed is under way) have seeds of their own and have come
  past every draw made.  A copied stream has its parent's seed, so the property
  alone says nothing of the next draw.  `MeasuringTheorem` needs the `Gil`; run
  `fork_unlocked` shows why.
* `UuidObjectProofs`, the cache.  `CountsTheorem` by `CacheInv`, which adds to the
  exact counts what a call knows at each of its steps; from it `HeldTheorem`: an
  object with a count of 1 is referred to by the cache alone when it is
  overwritten.
* `UuidObjectProofs`, texts, for every id (`Bytes16`), not those of a run alone.
  `HexText` and `DashText` say what a text should be, digit by digit.
  `FormattersAgree`: all three bodies make them, the vector ones although their
  nibbles are shifted in 16-bit lanes and interleaved.  Texts sort as ids do
  (`HexSorts`, `DashSorts`) because the digits ascend in ASCII, two of them
  compare as their byte does, and the dashes stand at the same places in both.
  The parser's loop runs over texts of any length, so what it computes takes an
  induction.  The library's induction theorems have a predicate for a parameter;
  `SetInduction` has a set instead and follows from the well-foundedness of `<`.
  With it `ReadsOn` shows that `DigitsRead` meets its own equation, `ParserInverts`
  that the parser reads an id back from any text of it, and `ParserAccepts` which
  texts it takes, of all sequences of numbers: 32 hexadecimal digits, with dashes
  anywhere.  `PartsRead` and `HexOfPart` do the same for the getters.  What is left
  to the state machine is `TextInv`: a thread that is done has `HexText` or
  `DashText` of its argument, whatever the build, the CPU and the order in which
  threads fill `X86_FORMATTER`; the filled value is the CPU's, and so is the body
  that ran (`FormatterTheorem`).  From it the six properties of the run follow, for any number of threads.

Model-checked only: the liveness properties, `ReseedReturns` and `ComesFree`.
Liveness under fairness and `ENABLED` are outside what the prover can do.  Every
safety property of a passing run is a theorem.

## 6. Not modelled, and the plan

Left out for good: benchmarks, the rest of the diagnostic example, packaging and
CI (no state of the system); the wording of strings and errors; `__hash__`,
`__repr__` and `urn`, which fold or frame the number; a failing OS random source,
on which the code panics; wall clocks that jump while timestamps are compared
with them (`SequentialGenerator` and `ThreadState` have them, for order).  A
`SequentialGenerator` or `RandomGenerator` that crosses a fork repeats its
parent's bits, as `src/src/lib.rs:225-227` says; `ForkReseed` has only the
generators that `reseed` covers.

Every component with behaviour has its module, and every safety property the
runs check is proved.
