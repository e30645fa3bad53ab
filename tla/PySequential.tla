---------------------------- MODULE PySequential ----------------------------
(***************************************************************************)
(* src/python/src/lib.rs: one SequentialGenerator object shared by Python  *)
(* threads.  Its methods take the object mutably, so PyO3 borrows it for   *)
(* the length of a call and refuses a call that finds it borrowed.  With a *)
(* GIL a call runs alone; without one, calls of several threads overlap.   *)
(* next_id, next_id_str, next_id_bytes and next_uuid differ in what they   *)
(* convert the id to, which may fail for want of memory.                   *)
(*                                                                         *)
(* A fork is followed into the child, which has the object as it was but   *)
(* only the thread that forked.                                            *)
(***************************************************************************)
EXTENDS UuidLayout

CONSTANTS
    COUNTER_MAX,
    COUNTER_SEED_MASK,
    MaxMs,        \* bound: the largest timestamp
    MaxReading,   \* bound: the largest millisecond the clock reads
    Threads,
    None,         \* no thread
    MaxCalls      \* bound: calls

ASSUME PyAssumption ==
    /\ COUNTER_MAX \in Nat
    /\ COUNTER_MAX < RandAMod * CtrLowMod
    /\ COUNTER_SEED_MASK \in Nat \ {0}
    /\ COUNTER_SEED_MASK < COUNTER_MAX
    /\ MaxMs \in Nat
    /\ MaxMs < TsMod
    /\ MaxReading \in 0 .. MaxMs
    /\ None \notin Threads
    /\ MaxCalls \in Nat

VARIABLES
    last_ms, counter, last_id, clock_max, since,   \* SequentialGenerator.inner
    build,      \* "gil" or "free_threaded"
    gil,        \* the thread that has the GIL
    borrower,   \* the thread that has the object borrowed
    pc,         \* where each thread is in a call; "gone" if a fork lost it
    made,       \* local: the id of the call
    calls,      \* history: calls so far
    issued,     \* history: the id of the last call to give the object back
    refused     \* history: a call has raised RuntimeError

generator_vars == <<last_ms, counter, last_id, clock_max, since>>
vars == <<generator_vars, build, gil, borrower, pc, made, calls, issued, refused>>

Generator == INSTANCE SequentialGenerator

Init ==
    /\ Generator!Init
    /\ build \in {"gil", "free_threaded"}
    /\ gil = None
    /\ borrower = None
    /\ pc = [t \in Threads |-> "idle"]
    /\ made = [t \in Threads |-> 0]
    /\ calls = 0
    /\ issued = 0
    /\ refused = FALSE

\* Mutant of EnterCall: calls do not wait for one another.
EnterCallWithoutGil(t) ==
    /\ pc[t] = "idle"
    /\ calls < MaxCalls
    /\ calls' = calls + 1
    /\ pc' = [pc EXCEPT ![t] = "entered"]
    /\ UNCHANGED <<generator_vars, build, gil, borrower, made, issued, refused>>

\* Python calls a method; with a GIL it has it from here to the end.
EnterCall(t) ==
    /\ pc[t] = "idle"
    /\ calls < MaxCalls
    /\ gil = None
    /\ gil' = IF build = "gil" THEN t ELSE None
    /\ calls' = calls + 1
    /\ pc' = [pc EXCEPT ![t] = "entered"]
    /\ UNCHANGED <<generator_vars, build, borrower, made, issued, refused>>

\* Back in Python.
LeaveCall(t) ==
    /\ pc' = [pc EXCEPT ![t] = "idle"]
    /\ gil' = None

\* Mutant of Borrow: the object is not marked, as for a method that shares it.
BorrowShared(t) ==
    /\ pc[t] = "entered"
    /\ pc' = [pc EXCEPT ![t] = "borrowed"]
    /\ UNCHANGED <<generator_vars, build, gil, borrower, made, calls, issued, refused>>

\* PyRefMut: &mut self
Borrow(t) ==
    /\ pc[t] = "entered"
    /\ borrower = None
    /\ borrower' = t
    /\ pc' = [pc EXCEPT ![t] = "borrowed"]
    /\ UNCHANGED <<generator_vars, build, gil, made, calls, issued, refused>>

\* RuntimeError: already borrowed
Refuse(t) ==
    /\ pc[t] = "entered"
    /\ borrower # None
    /\ refused' = TRUE
    /\ LeaveCall(t)
    /\ UNCHANGED <<generator_vars, build, borrower, made, calls, issued>>

\* self.inner.next_id()
MakeId(t) ==
    /\ pc[t] = "borrowed"
    /\ \/ Generator!UseCachedMs
       \/ \E ms \in 0 .. MaxReading : Generator!UseReading(ms)
    /\ made' = [made EXCEPT ![t] = last_id']
    /\ pc' = [pc EXCEPT ![t] = "made"]
    /\ UNCHANGED <<build, gil, borrower, calls, issued, refused>>

Return(t) ==
    /\ pc[t] = "made"
    /\ borrower' = None
    /\ issued' = made[t]
    /\ made' = [made EXCEPT ![t] = 0]
    /\ LeaveCall(t)
    /\ UNCHANGED <<generator_vars, build, calls, refused>>

\* Mutant of FailToConvert: what unwinds does not give the object back.
FailBorrowed(t) ==
    /\ pc[t] = "made"
    /\ made' = [made EXCEPT ![t] = 0]
    /\ LeaveCall(t)
    /\ UNCHANGED <<generator_vars, build, borrower, calls, issued, refused>>

\* The conversion panics, and PyO3 unwinds the call; the id is lost.
FailToConvert(t) ==
    /\ pc[t] = "made"
    /\ borrower' = None
    /\ made' = [made EXCEPT ![t] = 0]
    /\ LeaveCall(t)
    /\ UNCHANGED <<generator_vars, build, calls, issued, refused>>

\* os.fork(): with a GIL, the thread that forks has it.
Fork(t) ==
    /\ pc[t] = "idle"
    /\ gil = None
    /\ pc' = [u \in Threads |-> IF u = t THEN "idle" ELSE "gone"]
    /\ UNCHANGED <<generator_vars, build, gil, borrower, made, calls, issued, refused>>

InCall(t) ==
    \/ Borrow(t)
    \/ Refuse(t)
    \/ MakeId(t)
    \/ Return(t)
    \/ FailToConvert(t)

Next == \E t \in Threads : EnterCall(t) \/ InCall(t) \/ Fork(t)

\* A thread inside a call gets on with it, whatever the others do.
Fairness == \A t \in Threads : WF_vars(InCall(t))

Spec == Init /\ [][Next]_vars /\ Fairness

-----------------------------------------------------------------------------
(* Properties *)

\* Every variable keeps its range, and a thread between borrowing the object
\* and giving it back is its borrower.
TypeOK ==
    /\ Generator!TypeOK
    /\ build \in {"gil", "free_threaded"}
    /\ gil \in Threads \cup {None}
    /\ borrower \in Threads \cup {None}
    /\ pc \in [Threads -> {"idle", "entered", "borrowed", "made", "gone"}]
    /\ made \in [Threads -> Nat]
    /\ calls \in 0 .. MaxCalls
    /\ issued \in Nat
    /\ refused \in BOOLEAN
    /\ \A t \in Threads : pc[t] \in {"borrowed", "made"} => borrower = t

\* "An instance may be handed from one thread to another and keeps its ordering
\* guarantee": the ids of all threads increase in the order the calls end,
\* through calls refused, and calls that fail after the id was made.
HandOver == INSTANCE IncreasingSource WITH last <- issued
IncreasingAcrossThreads == HandOver!Spec

\* With a GIL no call overlaps another, so none is refused; nor is one in the
\* child of a fork, which cannot come while the object is borrowed.
NeverRefusedUnderGil == build = "gil" => ~refused

\* An object borrowed is given back, whether the call succeeds or panics, so no
\* thread is refused for ever; unless there is no GIL, and a fork loses the
\* borrower from the child.
ComesFree ==
    \A t \in Threads :
        borrower = t ~> borrower # t \/ (build = "free_threaded" /\ pc[t] = "gone")
=============================================================================
