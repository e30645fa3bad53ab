----------------------------- MODULE ForkReseed -----------------------------
(***************************************************************************)
(* What fork() does to the generators.  A generator draws its random bits  *)
(* from a stream seeded by the OS; fork() copies the stream, so the child  *)
(* would replay its parent, and reseed() gives it a stream of its own.  A  *)
(* new generator also needs the counter's rate, which on a CPU that does   *)
(* not declare it the process measures once, behind a OnceLock: fork()     *)
(* copies that lock too, but not the thread that may hold it.              *)
(*                                                                         *)
(* src/src/lib.rs has a generator per thread; the Python module has one    *)
(* more per process, behind the GIL, and reseeds both from a fork hook.    *)
(***************************************************************************)
EXTENDS Integers, FiniteSets

CONSTANTS
    Procs,      \* processes, the first and those it may fork
    Root,       \* the first process
    Threads,
    Global,     \* stands for the Python module's GENERATOR among the streams
    Asked,      \* what the program calls: "gen_id" (per thread), "next_id" (GENERATOR)
    Gil,        \* TRUE: calls and forks hold the GIL throughout
    NoRng,      \* a generator that has not been made
    MaxIds      \* bound: no call starts once so many ids were made

ASSUME ForkAssumption ==
    /\ Root \in Procs
    /\ Global \notin Threads
    /\ Asked \subseteq {"gen_id", "next_id"}
    /\ Gil \in BOOLEAN
    /\ "next_id" \in Asked => Gil      \* other builds have no GENERATOR
    /\ NoRng \notin Nat \X Nat
    /\ MaxIds \in Nat

VARIABLES
    pc,      \* where thread t of process p is; "gone" if p has no such thread
    task,    \* the call it is in
    made,    \* local of a call: the stream of the generator it is making
    rng,     \* streams of each process, by thread and for GENERATOR
    cached,  \* CACHED, the OnceLock of calibrated_ticks_per_ms
    seeds,   \* seeds the OS has given out
    drawn,   \* history: random draws of all ids
    ids      \* history: ids made

vars == <<pc, task, made, rng, cached, seeds, drawn, ids>>

Streams == Threads \cup {Global}

\* The stream a call of thread t works on.
stream(t, call) == IF call = "next_id" THEN Global ELSE t

\* A stream is a seed and how many draws were made from it.
os_seeded_rng == <<seeds + 1, 0>>

Inside(p, t) == pc[p][t] \notin {"idle", "gone"}

\* The GIL is free: no thread of p is inside a call.
GilFree(p) == \A t \in Threads : ~Inside(p, t)

Init ==
    /\ pc = [p \in Procs |-> [t \in Threads |-> IF p = Root THEN "idle" ELSE "gone"]]
    /\ task = [p \in Procs |-> [t \in Threads |-> "none"]]
    /\ made = [p \in Procs |-> [t \in Threads |-> NoRng]]
    /\ rng = [p \in Procs |-> [s \in Streams |-> NoRng]]
    /\ cached = [p \in Procs |-> "incomplete"]
    /\ seeds = 0
    /\ drawn = {}
    /\ ids = 0

GoTo(p, t, place) == pc' = [pc EXCEPT ![p][t] = place]

Return(p, t) ==
    /\ GoTo(p, t, "idle")
    /\ task' = [task EXCEPT ![p][t] = "none"]

-----------------------------------------------------------------------------
(* The generators *)

Call(p, t, call) ==
    /\ pc[p][t] = "idle"
    /\ Gil => GilFree(p)
    /\ ids < MaxIds
    /\ GoTo(p, t, "called")
    /\ task' = [task EXCEPT ![p][t] = call]
    /\ UNCHANGED <<made, rng, cached, seeds, drawn, ids>>

FindState(p, t) ==
    /\ pc[p][t] = "called"
    /\ rng[p][stream(t, task[p][t])] # NoRng
    /\ GoTo(p, t, "ready")
    /\ UNCHANGED <<task, made, rng, cached, seeds, drawn, ids>>

\* ThreadState::new takes its seed first and its clock last.
NewState(p, t) ==
    /\ pc[p][t] = "called"
    /\ rng[p][stream(t, task[p][t])] = NoRng
    /\ made' = [made EXCEPT ![p][t] = os_seeded_rng]
    /\ seeds' = seeds + 1
    /\ GoTo(p, t, "clock")
    /\ UNCHANGED <<task, rng, cached, drawn, ids>>

\* get_or_init runs the measurement in one thread ...
StartMeasuring(p, t) ==
    /\ pc[p][t] = "clock"
    /\ cached[p] = "incomplete"
    /\ cached' = [cached EXCEPT ![p] = "running"]
    /\ GoTo(p, t, "measuring")
    /\ UNCHANGED <<task, made, rng, seeds, drawn, ids>>

\* Mutant of EndMeasuring: the result is used but not stored.
EndMeasuringUnstored(p, t) ==
    /\ pc[p][t] = "measuring"
    /\ GoTo(p, t, "clock")
    /\ UNCHANGED <<task, made, rng, cached, seeds, drawn, ids>>

EndMeasuring(p, t) ==
    /\ pc[p][t] = "measuring"
    /\ cached' = [cached EXCEPT ![p] = "complete"]
    /\ GoTo(p, t, "clock")
    /\ UNCHANGED <<task, made, rng, seeds, drawn, ids>>

\* Mutant of TakeRate: a clock that is made without a rate.
TakeRateEarly(p, t) ==
    /\ pc[p][t] = "clock"
    /\ rng' = [rng EXCEPT ![p][stream(t, task[p][t])] = made[p][t]]
    /\ made' = [made EXCEPT ![p][t] = NoRng]
    /\ GoTo(p, t, "ready")
    /\ UNCHANGED <<task, cached, seeds, drawn, ids>>

\* ... and every other thread waits for it here.
TakeRate(p, t) ==
    /\ pc[p][t] = "clock"
    /\ cached[p] = "complete"
    /\ rng' = [rng EXCEPT ![p][stream(t, task[p][t])] = made[p][t]]
    /\ made' = [made EXCEPT ![p][t] = NoRng]
    /\ GoTo(p, t, "ready")
    /\ UNCHANGED <<task, cached, seeds, drawn, ids>>

\* next_random_id takes its random bits.
MakeId(p, t) ==
    /\ pc[p][t] = "ready"
    /\ task[p][t] # "reseed"
    /\ LET s == stream(t, task[p][t])
       IN  /\ drawn' = drawn \cup {rng[p][s]}
           /\ rng' = [rng EXCEPT ![p][s][2] = @ + 1]
    /\ ids' = ids + 1
    /\ Return(p, t)
    /\ UNCHANGED <<made, cached, seeds>>

-----------------------------------------------------------------------------
(* fork and reseed *)

\* Mutant of ReseedThread: the process-wide generator is forgotten.
ReseedThreadOnly(p, t) ==
    /\ pc[p][t] = "ready"
    /\ task[p][t] = "reseed"
    /\ rng' = [rng EXCEPT ![p][t] = os_seeded_rng]
    /\ seeds' = seeds + 1
    /\ Return(p, t)
    /\ UNCHANGED <<made, cached, drawn, ids>>

\* The core crate's reseed; the Python module goes on to GENERATOR, if there
\* is one.
ReseedThread(p, t) ==
    /\ pc[p][t] = "ready"
    /\ task[p][t] = "reseed"
    /\ rng' = [rng EXCEPT ![p][t] = os_seeded_rng]
    /\ seeds' = seeds + 1
    /\ \/ rng[p][Global] = NoRng /\ Return(p, t)
       \/ rng[p][Global] # NoRng /\ GoTo(p, t, "generator") /\ UNCHANGED task
    /\ UNCHANGED <<made, cached, drawn, ids>>

ReseedGenerator(p, t) ==
    /\ pc[p][t] = "generator"
    /\ rng' = [rng EXCEPT ![p][Global] = os_seeded_rng]
    /\ seeds' = seeds + 1
    /\ Return(p, t)
    /\ UNCHANGED <<made, cached, drawn, ids>>

\* Memory is copied and one thread with it; the child's first call is reseed.
Child(p, t, q) ==
    /\ pc' = [pc EXCEPT ![q][t] = "called"]
    /\ task' = [task EXCEPT ![q][t] = "reseed"]
    /\ rng' = [rng EXCEPT ![q] = rng[p]]
    /\ cached' = [cached EXCEPT ![q] = cached[p]]
    /\ UNCHANGED <<made, seeds, drawn, ids>>

\* Mutant of Fork: it does not take the GIL.
ForkWithoutGil(p, t, q) ==
    /\ pc[p][t] = "idle"
    /\ \A u \in Threads : pc[q][u] = "gone"
    /\ Child(p, t, q)

Fork(p, t, q) ==
    /\ pc[p][t] = "idle"
    /\ Gil => GilFree(p)
    /\ \A u \in Threads : pc[q][u] = "gone"
    /\ Child(p, t, q)

-----------------------------------------------------------------------------

\* What a thread does inside a call.
Step(p, t) ==
    \/ FindState(p, t)
    \/ NewState(p, t)
    \/ StartMeasuring(p, t)
    \/ EndMeasuring(p, t)
    \/ TakeRate(p, t)
    \/ MakeId(p, t)
    \/ ReseedThread(p, t)
    \/ ReseedGenerator(p, t)

Next ==
    \E p \in Procs, t \in Threads :
        \/ \E call \in Asked : Call(p, t, call)
        \/ Step(p, t)
        \/ \E q \in Procs : Fork(p, t, q)

\* The OS runs every thread; whether it calls or forks is its own affair.
Fairness == \A p \in Procs, t \in Threads : WF_vars(Step(p, t))

Spec == Init /\ [][Next]_vars /\ Fairness

-----------------------------------------------------------------------------
(* Properties *)

\* Streams come from seeds that were given out, and no generator exists
\* without the rate its clock needs.
TypeOK ==
    /\ pc \in [Procs -> [Threads -> {"gone", "idle", "called", "clock",
                                     "measuring", "ready", "generator"}]]
    /\ task \in [Procs -> [Threads -> Asked \cup {"none", "reseed"}]]
    /\ made \in [Procs -> [Threads -> (1 .. seeds) \X {0} \cup {NoRng}]]
    /\ rng \in [Procs -> [Streams -> (1 .. seeds) \X (0 .. ids) \cup {NoRng}]]
    /\ cached \in [Procs -> {"incomplete", "running", "complete"}]
    /\ seeds \in Nat
    /\ ids \in Nat
    /\ drawn \subseteq (1 .. seeds) \X (0 .. ids)
    /\ \A p \in Procs, s \in Streams : rng[p][s] # NoRng => cached[p] = "complete"

\* "A forked worker does not replay the random bits of its parent", nor does
\* anyone else: no draw is made twice, in whatever process or generator.
NoReplay == Cardinality(drawn) = ids

\* A measurement under way is some thread's of the same process: under the
\* GIL no child inherits one that nobody will finish.
MeasuringHasOwner ==
    \A p \in Procs :
        cached[p] = "running" => \E t \in Threads : pc[p][t] = "measuring"

Reseeding(p, t) == task[p][t] = "reseed"

\* "Call this in the child after forking": reseed() returns.
ReseedReturns ==
    \A p \in Procs, t \in Threads : Reseeding(p, t) ~> ~Reseeding(p, t)
=============================================================================
