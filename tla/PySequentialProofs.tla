------------------------ MODULE PySequentialProofs ------------------------
(***************************************************************************)
(* Theorems about PySequential for any number of threads and calls: ids    *)
(* that several Python threads draw from one object increase in the order  *)
(* the calls end, and under the GIL no call is refused.  What one call     *)
(* does to the generator is SequentialGeneratorProofs'.                    *)
(***************************************************************************)
EXTENDS PySequential, TLAPS

GP == INSTANCE SequentialGeneratorProofs

-----------------------------------------------------------------------------
(* The invariant *)

\* The id a thread brings back is the generator's last and not given out yet.
Outstanding ==
    /\ issued <= last_id
    /\ \A t \in Threads :
           pc[t] = "made" => made[t] = last_id /\ issued < last_id

InCallNow(t) == pc[t] \in {"entered", "borrowed", "made"}

\* Under the GIL the thread in a call has it, and an object that is borrowed is
\* borrowed by that thread.
GilInv ==
    build = "gil" =>
        /\ ~refused
        /\ \A t \in Threads : InCallNow(t) <=> gil = t
        /\ borrower # None => borrower = gil /\ pc[borrower] \in {"borrowed", "made"}

PyInv == TypeOK /\ GP!IdInv /\ Outstanding /\ GilInv

-----------------------------------------------------------------------------
(* The generator of the object *)

\* The object's generator is the one SequentialGeneratorProofs is about.
LEMMA SameCounterId ==
    ASSUME NEW ts, NEW c, NEW r
    PROVE  Generator!counter_id(ts, c, r) = GP!counter_id(ts, c, r)
BY DEF Generator!counter_id, GP!counter_id,
       Generator!uuid_v7_from_parts, GP!uuid_v7_from_parts,
       Generator!Pack, GP!Pack, Generator!RandBMod, GP!RandBMod,
       Generator!Version, GP!Version, Generator!Variant, GP!Variant

\* So are the ids it returns ...
LEMMA SameReturnId == Generator!ReturnId => GP!ReturnId
BY SameCounterId DEF Generator!ReturnId, GP!ReturnId

\* ... and the ranges of its fields.
LEMMA SameType == Generator!TypeOK <=> GP!TypeOK
BY DEF Generator!TypeOK, GP!TypeOK

\* What MakeId does to the object is a call of the generator.
LEMMA MakeIdCalls ==
    ASSUME NEW t \in Threads, MakeId(t)
    PROVE  GP!next_id
<1> USE DEF Generator!Advance, GP!Advance, Generator!RollOver, GP!RollOver,
            Generator!Increment, GP!Increment, Generator!seed_counter, GP!seed_counter,
            Generator!counter_exhausted, GP!counter_exhausted,
            Generator!Later, GP!Later
<1>1. CASE Generator!UseCachedMs
    BY <1>1, SameReturnId DEF Generator!UseCachedMs, GP!UseCachedMs, GP!next_id
<1>2. ASSUME NEW ms \in 0 .. MaxReading, Generator!UseReading(ms)
      PROVE  GP!next_id
    <2>1. ms \in 0 .. MaxMs
        BY PyAssumption
    <2> QED
        BY <1>2, <2>1, SameReturnId DEF Generator!UseReading, GP!UseReading, GP!next_id
<1> QED
    BY <1>1, <1>2 DEF MakeId

\* A call moves the object's last id up and keeps what its fields say of it.
LEMMA CallGrows ==
    ASSUME TypeOK, GP!IdInv, NEW t \in Threads, MakeId(t)
    PROVE  /\ Generator!TypeOK' /\ GP!IdInv'
           /\ last_id' \in Nat /\ last_id' > last_id
<1>1. GP!next_id /\ GP!TypeOK
    BY MakeIdCalls, SameType DEF TypeOK
<1>2. last_id' \in Nat /\ last_id' > last_id
    BY <1>1, LayoutAssumption, PyAssumption, GP!IdGrows
<1>3. GP!TypeOK'
    BY <1>1, LayoutAssumption, PyAssumption, GP!TypeStep DEF GP!Next
<1>4. GP!IdInv'
    BY <1>1 DEF GP!IdInv, GP!next_id, GP!UseReading, GP!UseCachedMs, GP!ReturnId
<1> QED
    BY <1>2, <1>3, <1>4 DEF Generator!TypeOK, GP!TypeOK

-----------------------------------------------------------------------------
(* Type correctness *)

\* The types hold of a new generator, ...
LEMMA TypeInit ==
    ASSUME Init
    PROVE  TypeOK
<1>1. Generator!TypeOK
    BY PyAssumption DEF Init, Generator!Init, Generator!TypeOK
<1>2. /\ pc \in [Threads -> {"idle", "entered", "borrowed", "made", "gone"}]
      /\ made \in [Threads -> Nat]
      /\ \A t \in Threads : pc[t] \notin {"borrowed", "made"}
    BY DEF Init
<1>3. calls \in 0 .. MaxCalls /\ issued \in Nat
    BY PyAssumption DEF Init
<1>4. refused \in BOOLEAN /\ build \in {"gil", "free_threaded"}
    BY DEF Init
<1>5. gil \in Threads \cup {None} /\ borrower \in Threads \cup {None}
    BY DEF Init
<1> QED
    BY <1>1, <1>2, <1>3, <1>4, <1>5 DEF TypeOK

\* ... and every step of its callers keeps them.
LEMMA TypeStep ==
    ASSUME TypeOK, GP!IdInv, [Next]_vars
    PROVE  TypeOK'
<1>1. ASSUME UNCHANGED generator_vars
      PROVE  Generator!TypeOK'
    BY <1>1 DEF generator_vars, TypeOK, Generator!TypeOK
<1>2. ASSUME NEW t \in Threads, EnterCall(t)
      PROVE  TypeOK'
    BY <1>1, <1>2, PyAssumption DEF EnterCall, TypeOK
<1>3. ASSUME NEW t \in Threads, Borrow(t)
      PROVE  TypeOK'
    BY <1>1, <1>3, PyAssumption DEF Borrow, TypeOK
<1>4. ASSUME NEW t \in Threads, Refuse(t)
      PROVE  TypeOK'
    BY <1>1, <1>4 DEF Refuse, LeaveCall, TypeOK
<1>5. ASSUME NEW t \in Threads, MakeId(t)
      PROVE  TypeOK'
    BY <1>5, CallGrows DEF MakeId, TypeOK
<1>6. ASSUME NEW t \in Threads, Return(t) \/ FailToConvert(t)
      PROVE  TypeOK'
    <2>1. UNCHANGED generator_vars
        BY <1>6 DEF Return, FailToConvert
    <2>2. \A u \in Threads : u # t => pc[u] \notin {"borrowed", "made"}
        BY <1>6, PyAssumption DEF Return, FailToConvert, TypeOK
    <2> QED
        BY <1>1, <1>6, <2>1, <2>2 DEF Return, FailToConvert, LeaveCall, TypeOK
<1>7. ASSUME NEW t \in Threads, Fork(t)
      PROVE  TypeOK'
    BY <1>1, <1>7 DEF Fork, TypeOK
<1>8. CASE UNCHANGED vars
    BY <1>1, <1>8 DEF vars, TypeOK
<1> QED
    BY <1>2, <1>3, <1>4, <1>5, <1>6, <1>7, <1>8 DEF Next, InCall

-----------------------------------------------------------------------------
(* Order *)

\* What happens to the object's id outside a call of the generator.
LEMMA IdKept ==
    ASSUME GP!IdInv, UNCHANGED generator_vars
    PROVE  GP!IdInv'
BY DEF GP!IdInv, generator_vars

\* Every step keeps what is outstanding above what was given out.
LEMMA OrderStep ==
    ASSUME TypeOK, GP!IdInv, Outstanding, [Next]_vars
    PROVE  /\ GP!IdInv' /\ Outstanding'
           /\ issued' # issued => issued' \in Nat /\ issued' > issued
<1>0. issued \in Nat /\ last_id \in Nat
    BY DEF TypeOK, Generator!TypeOK
<1>1. ASSUME UNCHANGED <<generator_vars, issued>>,
             \A u \in Threads : pc'[u] = "made" => pc[u] = "made" /\ made'[u] = made[u]
      PROVE  GP!IdInv' /\ Outstanding' /\ issued' = issued
    BY <1>1, IdKept DEF Outstanding, generator_vars
<1>2. ASSUME NEW t \in Threads, EnterCall(t) \/ Borrow(t) \/ Refuse(t) \/ Fork(t)
      PROVE  GP!IdInv' /\ Outstanding' /\ issued' = issued
    BY <1>1, <1>2 DEF EnterCall, Borrow, Refuse, Fork, LeaveCall, TypeOK
<1>3. ASSUME NEW t \in Threads, MakeId(t)
      PROVE  GP!IdInv' /\ Outstanding' /\ issued' = issued
    <2>1. /\ GP!IdInv' /\ last_id' \in Nat /\ last_id' > last_id
          /\ UNCHANGED issued
        BY <1>3, CallGrows DEF MakeId
    <2>2. \A u \in Threads : pc'[u] = "made" => u = t
        BY <1>3, PyAssumption DEF MakeId, TypeOK
    <2>3. made'[t] = last_id'
        BY <1>3 DEF MakeId, TypeOK
    <2> QED
        BY <1>0, <2>1, <2>2, <2>3 DEF Outstanding
<1>4. ASSUME NEW t \in Threads, Return(t)
      PROVE  GP!IdInv' /\ Outstanding' /\ issued' \in Nat /\ issued' > issued
    <2>1. made[t] = last_id /\ issued < last_id
        BY <1>4 DEF Return, Outstanding
    <2>2. issued' = last_id /\ last_id' = last_id /\ GP!IdInv'
        BY <1>4, <2>1, IdKept DEF Return, generator_vars
    <2>3. \A u \in Threads : pc'[u] # "made"
        BY <1>4, PyAssumption DEF Return, LeaveCall, TypeOK
    <2> QED
        BY <1>0, <2>1, <2>2, <2>3 DEF Outstanding
<1>5. ASSUME NEW t \in Threads, FailToConvert(t)
      PROVE  GP!IdInv' /\ Outstanding' /\ issued' = issued
    BY <1>1, <1>5 DEF FailToConvert, LeaveCall, TypeOK
<1>6. CASE UNCHANGED vars
    BY <1>1, <1>6 DEF vars
<1> QED
    BY <1>2, <1>3, <1>4, <1>5, <1>6 DEF Next, InCall

-----------------------------------------------------------------------------
(* The GIL *)

\* Under the GIL every step keeps calls and borrow to the thread that has it.
LEMMA GilStep ==
    ASSUME TypeOK, GilInv, [Next]_vars
    PROVE  GilInv'
<1> SUFFICES ASSUME build' = "gil"
             PROVE  /\ ~refused'
                    /\ \A u \in Threads : InCallNow(u)' <=> gil' = u
                    /\ borrower' # None =>
                           borrower' = gil' /\ pc'[borrower'] \in {"borrowed", "made"}
    BY DEF GilInv
<1>0. /\ build = "gil" /\ ~refused
      /\ \A u \in Threads : InCallNow(u) <=> gil = u
      /\ borrower # None => borrower = gil /\ pc[borrower] \in {"borrowed", "made"}
    BY DEF GilInv, Next, InCall, EnterCall, Borrow, Refuse, MakeId, Return,
           FailToConvert, Fork, vars
<1>1. /\ pc \in [Threads -> {"idle", "entered", "borrowed", "made", "gone"}]
      /\ borrower \in Threads \cup {None} /\ gil \in Threads \cup {None}
      /\ None \notin Threads
    BY PyAssumption DEF TypeOK
<1> USE DEF InCallNow
<1>2. ASSUME NEW t \in Threads, EnterCall(t)
      PROVE  GilInv'
    BY <1>0, <1>1, <1>2 DEF EnterCall, GilInv
<1>3. ASSUME NEW t \in Threads, Borrow(t)
      PROVE  GilInv'
    BY <1>0, <1>1, <1>3 DEF Borrow, GilInv
<1>4. ASSUME NEW t \in Threads, Refuse(t)
      PROVE  FALSE
    BY <1>0, <1>1, <1>4 DEF Refuse
<1>5. ASSUME NEW t \in Threads, MakeId(t)
      PROVE  GilInv'
    <2>1. /\ pc[t] = "borrowed" /\ pc' = [pc EXCEPT ![t] = "made"]
          /\ UNCHANGED <<gil, borrower, refused>>
        BY <1>5 DEF MakeId
    <2> QED BY <1>0, <1>1, <2>1 DEF GilInv
<1>6. ASSUME NEW t \in Threads, Return(t) \/ FailToConvert(t)
      PROVE  GilInv'
    BY <1>0, <1>1, <1>6 DEF Return, FailToConvert, LeaveCall, GilInv
<1>7. ASSUME NEW t \in Threads, Fork(t)
      PROVE  GilInv'
    BY <1>0, <1>1, <1>7 DEF Fork, GilInv
<1>8. CASE UNCHANGED vars
    BY <1>0, <1>8 DEF vars
<1> QED
    BY <1>2, <1>3, <1>4, <1>5, <1>6, <1>7, <1>8 DEF Next, InCall, GilInv

-----------------------------------------------------------------------------
(* Theorems *)

\* Whatever the threads do, the id a thread brings back is newer than any that
\* was given out, and under the GIL the object is its holder's alone.
THEOREM PyInvariant == Spec => []PyInv
<1>1. Init => PyInv
    <2> SUFFICES ASSUME Init PROVE PyInv
        OBVIOUS
    <2>1. GP!IdInv /\ Outstanding
        BY DEF Init, Generator!Init, GP!IdInv, Outstanding
    <2>2. GilInv
        BY PyAssumption DEF Init, GilInv, InCallNow
    <2> QED BY <2>1, <2>2, TypeInit DEF PyInv
<1>2. PyInv /\ [Next]_vars => PyInv'
    BY TypeStep, OrderStep, GilStep DEF PyInv
<1> QED
    BY <1>1, <1>2, PTL DEF Spec

\* The object keeps its ranges, and a thread between borrowing it and giving it
\* back is its borrower.
THEOREM TypeCorrect == Spec => []TypeOK
<1>1. PyInv => TypeOK
    BY DEF PyInv
<1> QED
    BY <1>1, PyInvariant, PTL

\* "An instance may be handed from one thread to another and keeps its ordering
\* guarantee": the calls of all threads together are one increasing source,
\* with a GIL or without, through refusals, failed conversions and forks.
THEOREM IncreasingTheorem == Spec => IncreasingAcrossThreads
<1>1. Init => HandOver!Init
    BY DEF Init, HandOver!Init
<1>2. PyInv /\ [Next]_vars => [HandOver!Next]_issued
    BY OrderStep DEF PyInv, HandOver!Next, HandOver!Issue
<1> QED
    BY <1>1, <1>2, PyInvariant, PTL DEF Spec, IncreasingAcrossThreads, HandOver!Spec

\* Under the GIL no call finds the object borrowed, in the child of a fork
\* neither.
THEOREM NeverRefusedTheorem == Spec => []NeverRefusedUnderGil
<1>1. PyInv => NeverRefusedUnderGil
    BY DEF PyInv, GilInv, NeverRefusedUnderGil
<1> QED
    BY <1>1, PyInvariant, PTL
=============================================================================
