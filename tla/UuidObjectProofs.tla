-------------------------- MODULE UuidObjectProofs --------------------------
(***************************************************************************)
(* Theorems about UUID objects: the cache of the Python module, for any    *)
(* number of threads, objects and variables, and the text of an id, for    *)
(* every id and any number of threads.  UuidCache and UuidText share no    *)
(* name.  Reference counts are exact, and no object that a variable refers *)
(* to is ever overwritten; every formatter makes the same text, which      *)
(* sorts as the id does and which the parser reads back.                   *)
(***************************************************************************)
EXTENDS UuidCache, UuidText, FiniteSetTheorems, SequenceTheorems,
        WellFoundedInduction, TLAPS

-----------------------------------------------------------------------------
(* Counting the places an object is referred to from *)

\* Where the references are, as a function: every step that moves references
\* changes it at one, two or three places.
Where == [place \in Places |-> In(place)]

\* The places at which w refers to o.
Pointing(w, o) == {place \in DOMAIN w : w[place] = o}

\* u is w with b stored at one place.
Stored(w, place, b, u) ==
    /\ DOMAIN u = DOMAIN w
    /\ \A p \in DOMAIN w : u[p] = IF p = place THEN b ELSE w[p]

\* Storing b at a place costs what the place referred to before one reference
\* and gives b one.
LEMMA PointingMoves ==
    ASSUME NEW w, IsFiniteSet(DOMAIN w), NEW place \in DOMAIN w, NEW b, NEW u,
           Stored(w, place, b, u), NEW o
    PROVE  /\ Cardinality(Pointing(w, o)) \in Nat
           /\ Cardinality(Pointing(u, o)) \in Nat
           /\ Cardinality(Pointing(u, o)) =
                  Cardinality(Pointing(w, o)) - (IF w[place] = o THEN 1 ELSE 0)
                                              + (IF b = o THEN 1 ELSE 0)
<1> DEFINE A == Pointing(w, o)
           B == Pointing(u, o)
<1>1. A \subseteq DOMAIN w /\ IsFiniteSet(A) /\ Cardinality(A) \in Nat
    BY FS_Subset, FS_CardinalityType DEF Pointing
<1>2. B = IF b = o THEN A \cup {place} ELSE A \ {place}
    BY DEF Pointing, Stored
<1>3. place \in A <=> w[place] = o
    BY DEF Pointing
<1> HIDE DEF A, B
<1>4. /\ IsFiniteSet(A \cup {place})
      /\ Cardinality(A \cup {place}) =
             IF place \in A THEN Cardinality(A) ELSE Cardinality(A) + 1
    BY <1>1, FS_AddElement
<1>5. /\ IsFiniteSet(A \ {place})
      /\ Cardinality(A \ {place}) =
             IF place \in A THEN Cardinality(A) - 1 ELSE Cardinality(A)
    BY <1>1, FS_RemoveElement
<1>6. Cardinality(B) \in Nat
    BY <1>2, <1>4, <1>5, FS_CardinalityType
<1>7. Cardinality(B) = Cardinality(A) - (IF w[place] = o THEN 1 ELSE 0)
                                      + (IF b = o THEN 1 ELSE 0)
    BY <1>1, <1>2, <1>3, <1>4, <1>5
<1> QED
    BY <1>1, <1>6, <1>7 DEF A, B

\* An object with no reference is referred to from nowhere, one with a single
\* reference from nowhere else.
LEMMA PointingFew ==
    ASSUME NEW w, IsFiniteSet(DOMAIN w), NEW o, NEW p1 \in DOMAIN w, w[p1] = o
    PROVE  /\ Cardinality(Pointing(w, o)) # 0
           /\ Cardinality(Pointing(w, o)) = 1 =>
                  \A p2 \in DOMAIN w : w[p2] = o => p2 = p1
<1>1. IsFiniteSet(Pointing(w, o))
    BY FS_Subset DEF Pointing
<1>2. p1 \in Pointing(w, o)
    BY DEF Pointing
<1>3. Cardinality(Pointing(w, o)) # 0
    BY <1>1, <1>2, FS_EmptySet
<1>4. ASSUME Cardinality(Pointing(w, o)) = 1, NEW p2 \in DOMAIN w, w[p2] = o
      PROVE  p2 = p1
    <2>1. PICK x : Pointing(w, o) = {x}
        BY <1>1, <1>4, FS_Singleton
    <2>2. p2 \in Pointing(w, o)
        BY <1>4 DEF Pointing
    <2> QED BY <1>2, <2>1, <2>2
<1> QED
    BY <1>3, <1>4
-----------------------------------------------------------------------------
(* The invariant *)

\* What the steps of a call know: the new object is one while it is being
\* handed over, the replaced one is known until it is dropped, and an object
\* found to have a single owner still has one when it is written.
Control ==
    /\ new # None <=> pc \in {"new", "replaced"}
    /\ previous # None => pc = "replaced"
    /\ pc = "sole" => sole_owner

CacheInv == TypeOK /\ CountsExact /\ Control

\* There are finitely many places.
LEMMA PlacesFinite == IsFiniteSet(Places)
<1>1. Places = ((Variables \cup {"cache"}) \cup {"new"}) \cup {"previous"}
    BY DEF Places
<1> QED
    BY <1>1, CacheAssumption, FS_AddElement

Referents == Objects \cup {None}

\* The function by places, place by place.
LEMMA WhereIs ==
    ASSUME TypeOK
    PROVE  /\ Where \in [Places -> Referents]
           /\ Where["cache"] = cache
           /\ Where["new"] = new
           /\ Where["previous"] = previous
           /\ \A v \in Variables : Where[v] = held[v]
           /\ \A v \in Variables : v \in Places /\ v \notin {"cache", "new", "previous"}
           /\ {"cache", "new", "previous"} \subseteq Places
<1>1. \A v \in Variables : v \notin {"cache", "new", "previous"}
    BY CacheAssumption
<1> QED
    BY <1>1 DEF Where, In, Places, Referents, TypeOK

\* Exact counts, said of the places.
LEMMA CountsWhere == CountsExact <=>
    \A o \in Objects : refcnt[o] = Cardinality(Pointing(Where, o))
BY DEF CountsExact, References, Pointing, Where

-----------------------------------------------------------------------------
(* The steps *)

\* A reference more at one place, where no object was referred to.
LEMMA OneMore ==
    ASSUME CacheInv, NEW place \in Places, Where[place] = None,
           NEW o \in Objects, Stored(Where, place, o, Where'),
           refcnt' = [refcnt EXCEPT ![o] = @ + 1]
    PROVE  CountsExact' /\ refcnt' \in [Objects -> Nat]
<1>1. ASSUME NEW p \in Objects
      PROVE  refcnt'[p] = Cardinality(Pointing(Where', p))
    <2>1. /\ DOMAIN Where = Places /\ p # None
          /\ refcnt \in [Objects -> Nat]
          /\ refcnt[p] = Cardinality(Pointing(Where, p))
        BY WhereIs, CacheAssumption, CountsWhere DEF CacheInv, TypeOK
    <2>2. Cardinality(Pointing(Where', p)) =
              Cardinality(Pointing(Where, p)) + (IF o = p THEN 1 ELSE 0)
        BY <2>1, PlacesFinite, PointingMoves
    <2> QED
        BY <2>1, <2>2
<1>2. refcnt' \in [Objects -> Nat]
    BY DEF CacheInv, TypeOK
<1> QED
    BY <1>1, <1>2 DEF CountsExact, References, Pointing, Where

\* A reference less.
LEMMA OneLess ==
    ASSUME CacheInv, NEW place \in Places, NEW o \in Objects, Where[place] = o,
           Stored(Where, place, None, Where'),
           refcnt' = [refcnt EXCEPT ![o] = @ - 1]
    PROVE  CountsExact' /\ refcnt' \in [Objects -> Nat]
<1>1. ASSUME NEW p \in Objects
      PROVE  refcnt'[p] = Cardinality(Pointing(Where', p)) /\ refcnt'[p] \in Nat
    <2>1. /\ DOMAIN Where = Places /\ p # None
          /\ refcnt \in [Objects -> Nat]
          /\ refcnt[p] = Cardinality(Pointing(Where, p))
        BY WhereIs, CacheAssumption, CountsWhere DEF CacheInv, TypeOK
    <2>2. /\ Cardinality(Pointing(Where', p)) =
                 Cardinality(Pointing(Where, p)) - (IF o = p THEN 1 ELSE 0)
          /\ Cardinality(Pointing(Where', p)) \in Nat
        BY <2>1, PlacesFinite, PointingMoves
    <2> QED
        BY <2>1, <2>2
<1>2. refcnt' \in [Objects -> Nat]
    BY <1>1 DEF CacheInv, TypeOK
<1> QED
    BY <1>1, <1>2 DEF CountsExact, References, Pointing, Where
\* Python code gives a variable another value.
LEMMA VariableStored ==
    ASSUME TypeOK, UNCHANGED <<cache, new, previous>>,
           NEW v \in Variables, NEW b, held' = [held EXCEPT ![v] = b]
    PROVE  Stored(Where, v, b, Where') /\ v \in Places /\ Where[v] = held[v]
<1>1. \A p \in Variables : p \notin {"cache", "new", "previous"}
    BY CacheAssumption
<1> QED
    BY <1>1 DEF Stored, Where, In, Places, TypeOK

\* A result that is given to a variable is referred to once more.
LEMMA StoreStep ==
    ASSUME CacheInv, UNCHANGED <<cache, new, previous>>, NEW o \in Objects, Store(o),
           refcnt' = [refcnt EXCEPT ![o] = @ + 1]
    PROVE  /\ CountsExact' /\ refcnt' \in [Objects -> Nat]
           /\ held' \in [Variables -> Objects \cup {None}]
<1>1. PICK v \in Variables : held[v] = None /\ held' = [held EXCEPT ![v] = o]
    BY DEF Store
<1>2. Stored(Where, v, o, Where') /\ v \in Places /\ Where[v] = None
    BY <1>1, VariableStored DEF CacheInv
<1> QED
    BY <1>1, <1>2, OneMore DEF CacheInv, TypeOK

\* The cached object is written while it has a single owner, which is the cache.
LEMMA ReuseStep ==
    ASSUME CacheInv, NEW t \in Threads, Reuse(t)
    PROVE  CacheInv'
<1>1. cache \in Objects
    BY DEF CacheInv, Control, Reuse, TypeOK, sole_owner
<1>2. /\ CountsExact' /\ refcnt' \in [Objects -> Nat]
      /\ held' \in [Variables -> Objects \cup {None}]
    BY <1>1, StoreStep DEF Reuse, locals
<1> QED
    BY <1>1, <1>2, CacheAssumption DEF CacheInv, TypeOK, Control, Reuse, locals

\* A new object has the reference of the code that made it.
LEMMA AllocateStep ==
    ASSUME CacheInv, NEW t \in Threads, Allocate(t)
    PROVE  CacheInv'
<1>1. PICK o \in Objects :
          /\ refcnt[o] = 0
          /\ refcnt' = [refcnt EXCEPT ![o] = 1]
          /\ content' = [content EXCEPT ![o] = id]
          /\ new' = o
    BY DEF Allocate
<1>2. refcnt' = [refcnt EXCEPT ![o] = @ + 1]
    BY <1>1 DEF CacheInv, TypeOK
<1>3. Where["new"] = None /\ "new" \in Places
    BY WhereIs DEF CacheInv, Control, Allocate
<1>4. Stored(Where, "new", o, Where')
    BY <1>1 DEF Stored, Where, In, Places, Allocate
<1>5. CountsExact' /\ refcnt' \in [Objects -> Nat]
    BY <1>2, <1>3, <1>4, OneMore
<1> QED
    BY <1>1, <1>5, CacheAssumption DEF CacheInv, TypeOK, Control, Allocate

\* What the cache referred to moves to the local the code drops later.
LEMMA ReplaceStep ==
    ASSUME CacheInv, NEW t \in Threads, Replace(t)
    PROVE  CacheInv'
<1>1. new \in Objects /\ previous = None
    BY DEF CacheInv, Control, TypeOK, Replace
<1> DEFINE mid == [place \in Places |-> IF place = "previous" THEN cache ELSE Where[place]]
<1>2. /\ Stored(Where, "previous", cache, mid) /\ Stored(mid, "cache", new, Where')
      /\ Where["previous"] = None /\ mid["cache"] = cache
      /\ "previous" \in Places /\ "cache" \in Places
    BY <1>1, WhereIs DEF CacheInv, Stored, Where, In, Places, Replace
<1>3. DOMAIN Where = Places /\ DOMAIN mid = Places
    BY DEF Where
<1> HIDE DEF mid
<1>4. ASSUME NEW p \in Objects
      PROVE  refcnt'[p] = Cardinality(Pointing(Where', p))
    <2>1. /\ p # None /\ refcnt \in [Objects -> Nat]
          /\ refcnt[p] = Cardinality(Pointing(Where, p))
        BY CacheAssumption, CountsWhere DEF CacheInv, TypeOK
    <2>2. /\ Cardinality(Pointing(mid, p)) =
                 Cardinality(Pointing(Where, p)) + (IF cache = p THEN 1 ELSE 0)
          /\ Cardinality(Pointing(mid, p)) \in Nat
        BY <1>2, <1>3, <2>1, PlacesFinite, PointingMoves
    <2>3. Cardinality(Pointing(Where', p)) =
              Cardinality(Pointing(mid, p)) - (IF cache = p THEN 1 ELSE 0)
                                            + (IF new = p THEN 1 ELSE 0)
        BY <1>2, <1>3, PlacesFinite, PointingMoves
    <2> QED
        BY <1>1, <2>1, <2>2, <2>3 DEF Replace
<1>5. CountsExact'
    BY <1>4 DEF CountsExact, References, Pointing, Where
<1> QED
    BY <1>1, <1>5, CacheAssumption DEF CacheInv, TypeOK, Control, Replace
\* The caller gets the reference the call has held, and the replaced object
\* loses the one the cache had.
LEMMA ReturnNewStep ==
    ASSUME CacheInv, NEW t \in Threads, ReturnNew(t)
    PROVE  CacheInv'
<1>1. new \in Objects /\ previous \in Objects \cup {None}
    BY DEF CacheInv, Control, TypeOK, ReturnNew
<1>2. PICK v \in Variables : held[v] = None /\ held' = [held EXCEPT ![v] = new]
    BY DEF ReturnNew, Store
<1> DEFINE dropped == [place \in Places |->
                           IF place = "previous" THEN None ELSE Where[place]]
           taken == [place \in Places |->
                         IF place = "new" THEN None ELSE dropped[place]]
<1>3. /\ Where["previous"] = previous /\ dropped["new"] = new /\ taken[v] = None
      /\ {"previous", "new", v} \subseteq Places
    BY <1>2, WhereIs DEF CacheInv
<1>4. /\ Stored(Where, "previous", None, dropped)
      /\ Stored(dropped, "new", None, taken)
    BY DEF Stored, Where
<1>5. Stored(taken, v, new, Where')
    <2>1. \A u \in Variables : u \notin {"cache", "new", "previous"}
        BY CacheAssumption
    <2> QED
        BY <1>2, <2>1 DEF Stored, Where, In, Places, ReturnNew, CacheInv, TypeOK
<1>6. DOMAIN Where = Places /\ DOMAIN dropped = Places /\ DOMAIN taken = Places
    BY DEF Where
<1> HIDE DEF dropped, taken
<1>7. ASSUME NEW p \in Objects
      PROVE  refcnt'[p] = Cardinality(Pointing(Where', p)) /\ refcnt'[p] \in Nat
    <2>1. /\ p # None /\ refcnt \in [Objects -> Nat]
          /\ refcnt[p] = Cardinality(Pointing(Where, p))
        BY CacheAssumption, CountsWhere DEF CacheInv, TypeOK
    <2>2. /\ Cardinality(Pointing(dropped, p)) =
                 Cardinality(Pointing(Where, p)) - (IF previous = p THEN 1 ELSE 0)
          /\ Cardinality(Pointing(dropped, p)) \in Nat
        BY <1>3, <1>4, <1>6, <2>1, PlacesFinite, PointingMoves
    <2>3. /\ Cardinality(Pointing(taken, p)) =
                 Cardinality(Pointing(dropped, p)) - (IF new = p THEN 1 ELSE 0)
          /\ Cardinality(Pointing(taken, p)) \in Nat
        BY <1>3, <1>4, <1>6, <2>1, PlacesFinite, PointingMoves
    <2>4. /\ Cardinality(Pointing(Where', p)) =
                 Cardinality(Pointing(taken, p)) + (IF new = p THEN 1 ELSE 0)
          /\ Cardinality(Pointing(Where', p)) \in Nat
        BY <1>3, <1>5, <1>6, <2>1, PlacesFinite, PointingMoves
    <2> QED
        BY <1>1, <2>1, <2>2, <2>3, <2>4 DEF ReturnNew
<1>8. CountsExact'
    BY <1>7 DEF CountsExact, References, Pointing, Where
<1>9. refcnt' \in [Objects -> Nat]
    BY <1>7 DEF ReturnNew
<1> QED
    BY <1>1, <1>2, <1>8, <1>9, CacheAssumption DEF CacheInv, TypeOK, Control, ReturnNew

\* Neither the draw nor the test of the reference count moves a reference.
LEMMA LookingStep ==
    ASSUME CacheInv, NEW t \in Threads, DrawId(t) \/ FindSoleOwner(t)
    PROVE  CacheInv'
<1>1. UNCHANGED <<refcnt, content, cache, new, previous, held>>
    BY DEF DrawId, FindSoleOwner, locals
<1>2. CountsExact'
    BY <1>1 DEF CacheInv, CountsExact, References, Places, In
<1>3. CASE DrawId(t)
    BY <1>2, <1>3, CacheAssumption DEF CacheInv, TypeOK, Control, DrawId
<1>4. CASE FindSoleOwner(t)
    BY <1>2, <1>4 DEF CacheInv, TypeOK, Control, FindSoleOwner, locals, sole_owner
<1> QED
    BY <1>3, <1>4

\* The reset drops the reference of the cache, and the counts stay exact.
LEMMA ResetStep ==
    ASSUME CacheInv, reset_uuid_cache
    PROVE  CacheInv'
<1>1. cache \in Objects
    BY DEF CacheInv, TypeOK, reset_uuid_cache
<1>2. Where["cache"] = cache /\ "cache" \in Places
    BY WhereIs DEF CacheInv
<1>3. Stored(Where, "cache", None, Where')
    BY DEF Stored, Where, In, Places, reset_uuid_cache, locals
<1>4. CountsExact' /\ refcnt' \in [Objects -> Nat]
    BY <1>1, <1>2, <1>3, OneLess DEF reset_uuid_cache
<1> QED
    BY <1>4 DEF CacheInv, TypeOK, Control, reset_uuid_cache, locals

\* What Python code does between calls.
LEMMA PythonStep ==
    ASSUME CacheInv, py_new \/ \E v \in Variables : CopyReference(v) \/ DropReference(v)
    PROVE  CacheInv'
<1>1. CASE py_new
    <2>1. PICK o \in Objects, value \in 1 .. drawn :
              /\ refcnt[o] = 0
              /\ refcnt' = [refcnt EXCEPT ![o] = 1]
              /\ content' = [content EXCEPT ![o] = value]
              /\ Store(o)
        BY <1>1 DEF py_new
    <2>2. refcnt' = [refcnt EXCEPT ![o] = @ + 1]
        BY <2>1 DEF CacheInv, TypeOK
    <2>3. /\ CountsExact' /\ refcnt' \in [Objects -> Nat]
          /\ held' \in [Variables -> Objects \cup {None}]
        BY <1>1, <2>1, <2>2, StoreStep DEF py_new, locals
    <2> QED
        BY <1>1, <2>1, <2>3 DEF CacheInv, TypeOK, Control, py_new, locals
<1>2. ASSUME NEW v \in Variables, CopyReference(v)
      PROVE  CacheInv'
    <2>1. held[v] \in Objects
        BY <1>2 DEF CopyReference, CacheInv, TypeOK
    <2>2. /\ CountsExact' /\ refcnt' \in [Objects -> Nat]
          /\ held' \in [Variables -> Objects \cup {None}]
        BY <1>2, <2>1, StoreStep DEF CopyReference, locals
    <2> QED
        BY <1>2, <2>2 DEF CacheInv, TypeOK, Control, CopyReference, locals
<1>3. ASSUME NEW v \in Variables, DropReference(v)
      PROVE  CacheInv'
    <2>1. held[v] \in Objects
        BY <1>3 DEF DropReference, CacheInv, TypeOK
    <2>2. Stored(Where, v, None, Where') /\ v \in Places /\ Where[v] = held[v]
        BY <1>3, VariableStored DEF DropReference, CacheInv, locals
    <2>3. CountsExact' /\ refcnt' \in [Objects -> Nat]
        BY <1>3, <2>1, <2>2, OneLess DEF DropReference
    <2> QED
        BY <1>3, <2>3 DEF CacheInv, TypeOK, Control, DropReference, locals
<1> QED
    BY <1>1, <1>2, <1>3

\* The invariant holds of an empty cache, ...
LEMMA CacheInvInit ==
    ASSUME Init
    PROVE  CacheInv
<1>1. ASSUME NEW o \in Objects
      PROVE  References(o) = {}
    BY CacheAssumption DEF Init, References, Places, In
<1>2. CountsExact
    BY <1>1, FS_EmptySet DEF CountsExact, Init
<1> QED
    BY <1>2, CacheAssumption DEF CacheInv, TypeOK, Control, Init

\* ... and every step keeps it.
LEMMA CacheInvStep ==
    ASSUME CacheInv, [Next]_vars
    PROVE  CacheInv'
<1>1. ASSUME NEW t \in Threads, uuid7(t)
      PROVE  CacheInv'
    BY <1>1, ReuseStep, AllocateStep, ReplaceStep, ReturnNewStep, LookingStep DEF uuid7
<1>2. CASE UNCHANGED vars
    BY <1>2 DEF vars, locals, CacheInv, TypeOK, Control, sole_owner,
                CountsExact, References, Places, In
<1> QED
    BY <1>1, <1>2, ResetStep, PythonStep DEF Next

\* The invariant holds whatever calls of any thread are mixed with whatever
\* Python code does in between.
THEOREM CacheInvariant == Spec => []CacheInv
<1>1. Init => CacheInv
    BY CacheInvInit
<1>2. CacheInv /\ [Next]_vars => CacheInv'
    BY CacheInvStep
<1> QED
    BY <1>1, <1>2, PTL DEF Spec

\* Every variable keeps its range, and only a call in progress has the GIL.
THEOREM TypeCorrect == Spec => []TypeOK
<1>1. CacheInv => TypeOK
    BY DEF CacheInv
<1> QED
    BY <1>1, CacheInvariant, PTL

\* No object is freed while somebody refers to it, and none is leaked, however
\* many objects, variables and threads there are.
THEOREM CountsTheorem == Spec => []CountsExact
<1>1. CacheInv => CountsExact
    BY DEF CacheInv
<1> QED
    BY <1>1, CacheInvariant, PTL

-----------------------------------------------------------------------------
(* What is written *)

\* The objects a step writes are no variable's: a free one has no reference,
\* and of the cached one the cache has the only reference.
LEMMA WrittenUnheld ==
    ASSUME CacheInv, NEW v \in Variables, held[v] # None
    PROVE  /\ refcnt[held[v]] # 0
           /\ pc = "sole" => held[v] # cache
<1>1. /\ DOMAIN Where = Places /\ Where["cache"] = cache /\ Where[v] = held[v]
      /\ v \in Places /\ "cache" \in Places /\ v # "cache"
    BY WhereIs DEF CacheInv
<1>2. held[v] \in Objects
    BY DEF CacheInv, TypeOK
<1>3. refcnt[held[v]] = Cardinality(Pointing(Where, held[v]))
    BY <1>2, CountsWhere DEF CacheInv
<1>4. refcnt[held[v]] # 0
    BY <1>1, <1>3, PlacesFinite, PointingFew
<1>5. ASSUME pc = "sole", held[v] = cache
      PROVE  FALSE
    <2>1. Cardinality(Pointing(Where, held[v])) = 1
        BY <1>3, <1>5 DEF CacheInv, Control, sole_owner
    <2> QED
        BY <1>1, <1>5, <2>1, PlacesFinite, PointingFew
<1> QED
    BY <1>4, <1>5

\* No step writes an object that a variable refers to.
LEMMA HeldStep ==
    ASSUME CacheInv, Next, NEW v \in Variables, held[v] # None
    PROVE  content'[held[v]] = content[held[v]]
<1> DEFINE o == held[v]
<1>1. o \in Objects /\ refcnt[o] # 0 /\ (pc = "sole" => o # cache)
    BY WrittenUnheld DEF CacheInv, TypeOK
<1> HIDE DEF o
<1>2. content \in [Objects -> 0 .. drawn]
    BY DEF CacheInv, TypeOK
<1>3. ASSUME NEW t \in Threads, uuid7(t)
      PROVE  content'[o] = content[o]
    BY <1>1, <1>2, <1>3
    DEF uuid7, DrawId, FindSoleOwner, Reuse, Allocate, Replace, ReturnNew
<1>4. ASSUME py_new
      PROVE  content'[o] = content[o]
    <2>1. PICK p \in Objects, value \in 1 .. drawn :
              refcnt[p] = 0 /\ content' = [content EXCEPT ![p] = value]
        BY <1>4 DEF py_new
    <2> QED BY <1>1, <1>2, <2>1
<1>5. ASSUME \/ reset_uuid_cache
             \/ \E u \in Variables : CopyReference(u) \/ DropReference(u)
      PROVE  content'[o] = content[o]
    BY <1>5 DEF reset_uuid_cache, CopyReference, DropReference
<1>6. content'[o] = content[o]
    BY <1>3, <1>4, <1>5 DEF Next
<1> QED
    BY <1>6 DEF o

\* A UUID is immutable to Python: writing the cached object in place is never
\* seen through any variable.
THEOREM HeldTheorem == Spec => HeldNeverChanges
<1>1. CacheInv /\ [Next]_vars
          => [\A v \in Variables :
                  held[v] # None /\ held'[v] = held[v] =>
                      content'[held[v]] = content[held[v]]]_vars
    BY HeldStep
<1> QED
    BY <1>1, CacheInvariant, PTL DEF Spec, HeldNeverChanges

-----------------------------------------------------------------------------
(* Texts of ids *)

\* Every id there is, as bytes.
Bytes16 == [1 .. 16 -> 0 .. 255]

\* The 32 hexadecimal digits of an id, as numbers.
Nibbles(a) ==
    [k \in 1 .. 32 |-> IF k % 2 = 1 THEN a[(k + 1) \div 2] \div 16 ELSE a[k \div 2] % 16]

\* Its text without dashes, as every formatter should make it, ...
HexText(a) == [k \in 1 .. 32 |-> HEX[Nibbles(a)[k] + 1]]

\* ... how many dashes stand before place p of a text, ...
Skipped(p) ==
    IF p < 9 THEN 0 ELSE IF p < 14 THEN 1 ELSE IF p < 19 THEN 2 ELSE IF p < 24 THEN 3 ELSE 4

\* ... and the text with dashes.
DashText(a) ==
    [p \in 1 .. 36 |->
        IF p \in {9, 14, 19, 24} THEN Dash ELSE HexText(a)[p - Skipped(p)]]

\* Induction over the natural numbers, with a set in the place of a predicate:
\* the least number outside the set would be a successor.
LEMMA SetInduction ==
    ASSUME NEW S, 0 \in S, \A n \in Nat : n \in S => n + 1 \in S
    PROVE  Nat \subseteq S
<1> DEFINE R == OpToRel(<, Nat)
           T == Nat \ S
<1>1. SUFFICES ASSUME T # {} PROVE FALSE
    OBVIOUS
<1>2. IsWellFoundedOn(R, Nat)
    BY NatLessThanWellFounded
<1>3. PICK x \in T : \A y \in T : ~(<<y, x>> \in R)
    <2> HIDE DEF R
    <2> QED
        BY <1>1, <1>2, WFMin
<1>4. x # 0 /\ x - 1 \in Nat /\ x - 1 \in T
    OBVIOUS
<1>5. <<x - 1, x>> \in R
    BY <1>4 DEF OpToRel
<1> QED
    BY <1>3, <1>4, <1>5

-----------------------------------------------------------------------------
(* Sequences as functions *)

\* A function on 1 .. n is a sequence of length n, ...
LEMMA FcnSeq ==
    ASSUME NEW n \in Nat, NEW S, NEW s \in [1 .. n -> S]
    PROVE  s \in Seq(S) /\ Len(s) = n /\ DOMAIN s = 1 .. n
<1>1. s \in Seq(S)
    BY SeqDef
<1> QED
    BY <1>1, LenProperties

\* ... and the other way round.
LEMMA SeqFcn ==
    ASSUME NEW n \in Nat, NEW S, NEW s \in Seq(S), Len(s) = n
    PROVE  s \in [1 .. n -> S]
BY LenProperties

\* A sequence of n numbers.
Chars(s, n) == s \in [1 .. n -> Nat]

\* One sequence after the other, and a part of one.
Join(s, t) == s \o t
Span(s, i, j) == SubSeq(s, i, j)

\* What stands where in two texts one after the other, ...
LEMMA Joined ==
    ASSUME NEW m \in Nat, NEW n \in Nat, NEW s, Chars(s, m), NEW t, Chars(t, n)
    PROVE  /\ Chars(Join(s, t), m + n)
           /\ \A p \in 1 .. m + n : Join(s, t)[p] = IF p <= m THEN s[p] ELSE t[p - m]
<1>1. s \in Seq(Nat) /\ t \in Seq(Nat) /\ Len(s) = m /\ Len(t) = n
    BY FcnSeq DEF Chars
<1>2. /\ s \o t \in Seq(Nat)
      /\ Len(s \o t) = Len(s) + Len(t)
      /\ \A p \in 1 .. Len(s) + Len(t) : (s \o t)[p] =
             IF p <= Len(s) THEN s[p] ELSE t[p - Len(s)]
    BY <1>1, ConcatProperties
<1>3. Chars(s \o t, m + n)
    <2> DEFINE u == s \o t
               k == m + n
    <2>1. Len(u) = k
        BY <1>1, <1>2, Zenon
    <2>2. u \in Seq(Nat) /\ Len(u) = k /\ k \in Nat
        BY <1>2, <2>1
    <2> HIDE DEF u, k
    <2>3. Chars(u, k)
        BY <2>2, SeqFcn DEF Chars
    <2> QED
        BY <2>3 DEF u, k
<1>4. \A p \in 1 .. m + n : (s \o t)[p] = IF p <= m THEN s[p] ELSE t[p - m]
    BY <1>1, <1>2, Zenon
<1> QED
    BY <1>3, <1>4, Zenon DEF Join

\* ... and in a part of a text.
LEMMA Part ==
    ASSUME NEW n \in Nat, NEW s, Chars(s, n),
           NEW a \in 1 .. n, NEW b \in a .. n
    PROVE  /\ Chars(SubSeq(s, a, b), b - a + 1)
           /\ \A p \in 1 .. b - a + 1 : SubSeq(s, a, b)[p] = s[a + p - 1]
<1> DEFINE u == SubSeq(s, a, b)
           k == b - a + 1
<1>1. \A p \in a .. b : s[p] \in Nat
    BY DEF Chars
<1>2. /\ u \in Seq(Nat)
      /\ Len(u) = IF a <= b THEN b - a + 1 ELSE 0
      /\ \A p \in 1 .. b - a + 1 : u[p] = s[a + p - 1]
    BY <1>1, SubSeqProperties
<1>3. u \in Seq(Nat) /\ Len(u) = k /\ k \in Nat
    BY <1>2
<1> HIDE DEF u, k
<1>4. Chars(u, k)
    BY <1>3, SeqFcn DEF Chars
<1> QED
    BY <1>2, <1>4 DEF u, k

\* Texts are equal if they agree at every place.
LEMMA SameChars ==
    ASSUME NEW n \in Nat, NEW s, Chars(s, n), NEW t, Chars(t, n),
           \A p \in 1 .. n : s[p] = t[p]
    PROVE  s = t
BY DEF Chars

-----------------------------------------------------------------------------
(* The formatters *)

\* HEX gives each number below 16 a digit that is read back as the number.
LEMMA HexDigit ==
    ASSUME NEW n \in 0 .. 15
    PROVE  /\ HEX[n + 1] = IF n < 10 THEN 48 + n ELSE 87 + n
           /\ HEX[n + 1] \in Nat /\ HEX[n + 1] # Dash
           /\ DigitOf(HEX[n + 1]) = n
<1>1. HEX[n + 1] = IF n < 10 THEN 48 + n ELSE 87 + n
    BY DEF HEX
<1> QED
    BY <1>1 DEF DigitOf, Dash

\* Half a byte is below 16.
LEMMA NibblesType ==
    ASSUME NEW a \in Bytes16, NEW k \in 1 .. 32
    PROVE  Nibbles(a)[k] \in 0 .. 15
<1>1. CASE k % 2 = 1
    <2>1. (k + 1) \div 2 \in 1 .. 16
        BY <1>1
    <2>2. a[(k + 1) \div 2] \in 0 .. 255
        BY <2>1 DEF Bytes16
    <2> QED
        BY <1>1, <2>2 DEF Nibbles
<1>2. CASE k % 2 # 1
    <2>1. k \div 2 \in 1 .. 16
        BY <1>2
    <2>2. a[k \div 2] \in 0 .. 255
        BY <2>1 DEF Bytes16
    <2> QED
        BY <1>2, <2>2 DEF Nibbles
<1> QED
    BY <1>1, <1>2

\* The two digits of a byte.
LEMMA TwoNibbles ==
    ASSUME NEW a \in Bytes16, NEW k \in 1 .. 16
    PROVE  /\ Nibbles(a)[2 * k - 1] = a[k] \div 16
           /\ Nibbles(a)[2 * k] = a[k] % 16
           /\ a[k] \in 0 .. 255
<1>1. 2 * k - 1 \in 1 .. 32 /\ 2 * k \in 1 .. 32 /\ (2 * k - 1) % 2 = 1
      /\ (2 * k) % 2 # 1 /\ ((2 * k - 1) + 1) \div 2 = k /\ (2 * k) \div 2 = k
    OBVIOUS
<1>2. Nibbles(a)[2 * k - 1] = a[k] \div 16 /\ Nibbles(a)[2 * k] = a[k] % 16
    BY <1>1 DEF Nibbles
<1> QED
    BY <1>2 DEF Bytes16

\* The table of pairs gives the text, ...
LEMMA ScalarHex ==
    ASSUME NEW a \in Bytes16
    PROVE  format_uuid_hex_scalar(a) = HexText(a)
<1>1. ASSUME NEW p \in 1 .. 32
      PROVE  hex_pairs(a[(p + 1) \div 2])[((p - 1) % 2) + 1] = HEX[Nibbles(a)[p] + 1]
    <2> DEFINE b == a[(p + 1) \div 2]
    <2>1. CASE p % 2 = 1
        <3>1. (p - 1) % 2 = 0 /\ Nibbles(a)[p] = b \div 16
            BY <2>1 DEF Nibbles
        <3> QED
            BY <3>1 DEF hex_pairs
    <2>2. CASE p % 2 # 1
        <3>1. (p - 1) % 2 = 1 /\ (p + 1) \div 2 = p \div 2 /\ Nibbles(a)[p] = b % 16
            BY <2>2 DEF Nibbles
        <3> QED
            BY <3>1 DEF hex_pairs
    <2> QED
        BY <2>1, <2>2
<1> QED
    BY <1>1 DEF format_uuid_hex_scalar, HexText

\* ... ScalarOffset leaves a place for each dash before a pair, ...
LEMMA Offsets ==
    ASSUME NEW k \in 1 .. 16
    PROVE  ScalarOffset[k] = 2 * (k - 1) + (IF k <= 4 THEN 0 ELSE IF k <= 6 THEN 1
                                 ELSE IF k <= 8 THEN 2 ELSE IF k <= 10 THEN 3 ELSE 4)
BY DEF ScalarOffset

\* ... and the pairs written there make the text with dashes.
LEMMA Scalar ==
    ASSUME NEW a \in Bytes16
    PROVE  format_uuid_scalar(a) = DashText(a)
<1>1. ASSUME NEW p \in 1 .. 36, p \notin {9, 14, 19, 24}
      PROVE  LET k == CHOOSE k \in 1 .. 16 : p - 1 - ScalarOffset[k] \in {0, 1}
             IN  hex_pairs(a[k])[p - ScalarOffset[k]] = HexText(a)[p - Skipped(p)]
    <2> DEFINE q == p - Skipped(p)
               h == (q + 1) \div 2
               k == CHOOSE k \in 1 .. 16 : p - 1 - ScalarOffset[k] \in {0, 1}
    <2>1. q \in 1 .. 32 /\ h \in 1 .. 16
        BY <1>1 DEF Skipped
    <2>2. p - ScalarOffset[h] = ((q - 1) % 2) + 1
        BY <1>1, <2>1, Offsets DEF Skipped
    <2>3. p - 1 - ScalarOffset[h] \in {0, 1}
        BY <2>1, <2>2, Offsets
    <2>4. k \in 1 .. 16 /\ p - 1 - ScalarOffset[k] \in {0, 1}
        BY <2>1, <2>3
    <2>5. k = h
        BY <2>1, <2>3, <2>4, Offsets
    <2>6. hex_pairs(a[h])[((q - 1) % 2) + 1] = HexText(a)[q]
        <3>1. format_uuid_hex_scalar(a)[q] = HexText(a)[q]
            BY ScalarHex
        <3> QED
            BY <3>1, <2>1 DEF format_uuid_hex_scalar
    <2> QED
        BY <2>2, <2>5, <2>6
<1>2. \A p \in 1 .. 36 : p - 1 \in {8, 13, 18, 23} <=> p \in {9, 14, 19, 24}
    OBVIOUS
<1> QED
    BY <1>1, <1>2 DEF format_uuid_scalar, DashText

\* A text without dashes has 32 characters, the digits of the id.
LEMMA HexTextType ==
    ASSUME NEW a \in Bytes16
    PROVE  /\ Chars(HexText(a), 32)
           /\ \A k \in 1 .. 32 : HexText(a)[k] = HEX[Nibbles(a)[k] + 1] /\ HexText(a)[k] \in Nat
<1>1. \A k \in 1 .. 32 : HexText(a)[k] = HEX[Nibbles(a)[k] + 1] /\ HexText(a)[k] \in Nat
    BY NibblesType, HexDigit DEF HexText
<1> QED
    BY <1>1 DEF HexText, Chars

\* Shuffled nibbles are a text.
\* High and low nibbles, taken in turn and shuffled, make the text.
LEMMA Interleaved ==
    ASSUME NEW a \in Bytes16, NEW hi, NEW lo,
           lo = [p \in 1 .. 16 |-> a[p] % 16],
           hi = [p \in 1 .. 16 |-> a[p] \div 16]
    PROVE  shuffle(unpacklo(hi, lo)) \o shuffle(unpackhi(hi, lo)) = HexText(a)
<1> DEFINE s == shuffle(unpacklo(hi, lo))
           t == shuffle(unpackhi(hi, lo))
           u == Join(s, t)
<1>1. \A p \in 1 .. 16 : a[p] \in 0 .. 255 /\ lo[p] \in 0 .. 15 /\ hi[p] \in 0 .. 15
    <2> SUFFICES ASSUME NEW p \in 1 .. 16
                 PROVE a[p] \in 0 .. 255 /\ lo[p] \in 0 .. 15 /\ hi[p] \in 0 .. 15
        OBVIOUS
    <2>1. a[p] \in 0 .. 255
        BY DEF Bytes16
    <2>2. lo[p] = a[p] % 16 /\ hi[p] = a[p] \div 16
        OBVIOUS
    <2> QED
        BY <2>1, <2>2
<1>2. ASSUME NEW p \in 1 .. 16
      PROVE  s[p] = HexText(a)[p]
    <2>1. CASE p % 2 = 1
        <3>1. (p + 1) \div 2 \in 1 .. 16 /\ p \in 1 .. 32
            BY <2>1
        <3>2. unpacklo(hi, lo)[p] = a[(p + 1) \div 2] \div 16
            BY <2>1, <3>1 DEF unpacklo
        <3> QED
            BY <2>1, <3>1, <3>2 DEF shuffle, HexText, Nibbles
    <2>2. CASE p % 2 # 1
        <3>1. p \div 2 \in 1 .. 16 /\ p \in 1 .. 32
            BY <2>2
        <3>2. unpacklo(hi, lo)[p] = a[p \div 2] % 16
            BY <2>2, <3>1 DEF unpacklo
        <3> QED
            BY <2>2, <3>1, <3>2 DEF shuffle, HexText, Nibbles
    <2> QED
        BY <2>1, <2>2
<1>3. \A p \in 1 .. 8 : SubSeq(hi, 9, 16)[p] = hi[p + 8] /\ SubSeq(lo, 9, 16)[p] = lo[p + 8]
    OBVIOUS
<1>4. ASSUME NEW p \in 1 .. 16
      PROVE  t[p] = HexText(a)[p + 16]
    <2>1. CASE p % 2 = 1
        <3>1. (p + 1) \div 2 \in 1 .. 8 /\ p + 16 \in 1 .. 32 /\ (p + 16) % 2 = 1
              /\ (p + 16 + 1) \div 2 = (p + 1) \div 2 + 8
            BY <2>1
        <3>2. unpackhi(hi, lo)[p] = a[(p + 16 + 1) \div 2] \div 16
            BY <2>1, <3>1, <1>3 DEF unpackhi, unpacklo
        <3> QED
            BY <2>1, <3>1, <3>2 DEF shuffle, HexText, Nibbles
    <2>2. CASE p % 2 # 1
        <3>1. p \div 2 \in 1 .. 8 /\ p + 16 \in 1 .. 32 /\ (p + 16) % 2 # 1
              /\ (p + 16) \div 2 = p \div 2 + 8
            BY <2>2
        <3>2. unpackhi(hi, lo)[p] = a[(p + 16) \div 2] % 16
            BY <2>2, <3>1, <1>3 DEF unpackhi, unpacklo
        <3> QED
            BY <2>2, <3>1, <3>2 DEF shuffle, HexText, Nibbles
    <2> QED
        BY <2>1, <2>2
<1>5. Chars(s, 16) /\ Chars(t, 16)
    <2>1. \A p \in 1 .. 16 : s[p] \in Nat /\ t[p] \in Nat
        BY <1>2, <1>4, HexTextType
    <2> QED
        BY <2>1 DEF shuffle, Chars
<1> HIDE DEF s, t
<1>6. /\ Chars(u, 32)
      /\ \A p \in 1 .. 32 : u[p] = IF p <= 16 THEN s[p] ELSE t[p - 16]
    <2>1. \A m, n \in Nat : Chars(s, m) /\ Chars(t, n) =>
              /\ Chars(u, m + n)
              /\ \A p \in 1 .. m + n : u[p] = IF p <= m THEN s[p] ELSE t[p - m]
        BY Joined
    <2> HIDE DEF u
    <2>2. /\ Chars(u, 16 + 16)
          /\ \A p \in 1 .. 16 + 16 : u[p] = IF p <= 16 THEN s[p] ELSE t[p - 16]
        BY <1>5, <2>1
    <2> QED
        BY <2>2
<1> HIDE DEF u
<1>7. ASSUME NEW p \in 1 .. 32
      PROVE  u[p] = HexText(a)[p]
    <2>1. CASE p <= 16
        BY <1>2, <1>6, <2>1
    <2>2. CASE p > 16
        <3>1. u[p] = t[p - 16] /\ p - 16 \in 1 .. 16
            BY <1>6, <2>2
        <3>2. t[p - 16] = HexText(a)[(p - 16) + 16]
            BY <1>4, <3>1
        <3> QED
            BY <3>1, <3>2
    <2> QED
        BY <2>1, <2>2
<1>8. u = HexText(a)
    BY <1>6, <1>7, HexTextType, SameChars
<1> QED
    BY <1>8 DEF s, t, u, Join

\* SSSE3 has no shift of bytes; its 16-bit shift and the mask have the same effect.
LEMMA SimdHex ==
    ASSUME NEW a \in Bytes16
    PROVE  format_uuid_hex_simd(a) = HexText(a)
<1>1. ASSUME NEW p \in 1 .. 16
      PROVE  srli_epi16(a)[p] % 16 = a[p] \div 16
    <2>1. a[p] \in 0 .. 255
        BY DEF Bytes16
    <2>2. CASE p % 2 = 1
        <3>1. p + 1 \in 1 .. 16
            BY <2>2
        <3>2. a[p + 1] \in 0 .. 255
            BY <3>1 DEF Bytes16
        <3>3. \A x, y \in 0 .. 255 : (((x + 256 * y) \div 16) % 256) % 16 = x \div 16
            OBVIOUS
        <3> QED
            BY <2>1, <2>2, <3>2, <3>3 DEF srli_epi16
    <2>3. CASE p % 2 # 1
        BY <2>1, <2>3 DEF srli_epi16
    <2> QED
        BY <2>2, <2>3
<1>2. [p \in 1 .. 16 |-> srli_epi16(a)[p] % 16] = [p \in 1 .. 16 |-> a[p] \div 16]
    BY <1>1
<1> QED
    BY <1>2, Interleaved DEF format_uuid_hex_simd

\* NEON shifts bytes.
LEMMA NeonHex ==
    ASSUME NEW a \in Bytes16
    PROVE  format_uuid_hex_neon(a) = HexText(a)
BY Interleaved DEF format_uuid_hex_neon

\* A text with dashes has 36 characters.
LEMMA DashTextType ==
    ASSUME NEW a \in Bytes16
    PROVE  Chars(DashText(a), 36)
<1>1. \A p \in 1 .. 36 : DashText(a)[p] \in Nat
    <2> SUFFICES ASSUME NEW p \in 1 .. 36 PROVE DashText(a)[p] \in Nat
        OBVIOUS
    <2>1. p \notin {9, 14, 19, 24} => p - Skipped(p) \in 1 .. 32
        BY DEF Skipped
    <2> QED
        BY <2>1, HexTextType DEF DashText, Dash
<1> QED
    BY <1>1 DEF DashText, Chars

\* uuid_string_from_hex puts the dashes where format_uuid_scalar puts them.
LEMMA Dashes ==
    ASSUME NEW a \in Bytes16
    PROVE  uuid_string_from_hex(HexText(a)) = DashText(a)
<1> DEFINE h == HexText(a)
           d == <<Dash>>
           A == SubSeq(h, 1, 8)
           B == SubSeq(h, 9, 12)
           C == SubSeq(h, 13, 16)
           D == SubSeq(h, 17, 20)
           E == SubSeq(h, 21, 32)
           s1 == Join(A, d)
           s2 == Join(s1, B)
           s3 == Join(s2, d)
           s4 == Join(s3, C)
           s5 == Join(s4, d)
           s6 == Join(s5, D)
           s7 == Join(s6, d)
           s8 == Join(s7, E)
<1>1. Chars(h, 32)
    BY HexTextType
<1>2. Chars(d, 1) /\ d[1] = Dash
    BY DEF Dash, Chars
<1>3. \A p \in 1 .. 36 : DashText(a)[p] =
          IF p <= 8 THEN h[p] ELSE IF p = 9 THEN Dash ELSE IF p <= 13 THEN h[p - 1]
          ELSE IF p = 14 THEN Dash ELSE IF p <= 18 THEN h[p - 2] ELSE IF p = 19 THEN Dash
          ELSE IF p <= 23 THEN h[p - 3] ELSE IF p = 24 THEN Dash ELSE h[p - 4]
    BY DEF DashText, Skipped
<1> HIDE DEF h, d
<1>4. Chars(A, 8) /\ \A p \in 1 .. 8 : A[p] = h[p]
    BY <1>1, Part
<1>5. Chars(B, 4) /\ \A p \in 1 .. 4 : B[p] = h[p + 8]
    BY <1>1, Part
<1>6. Chars(C, 4) /\ \A p \in 1 .. 4 : C[p] = h[p + 12]
    BY <1>1, Part
<1>7. Chars(D, 4) /\ \A p \in 1 .. 4 : D[p] = h[p + 16]
    BY <1>1, Part
<1>8. Chars(E, 12) /\ \A p \in 1 .. 12 : E[p] = h[p + 20]
    BY <1>1, Part
<1> HIDE DEF A, B, C, D, E
<1>11. Chars(s1, 9) /\ \A p \in 1 .. 9 : s1[p] = IF p <= 8 THEN A[p] ELSE d[p - 8]
    BY <1>2, <1>4, Joined
<1> HIDE DEF s1
<1>12. Chars(s2, 13) /\ \A p \in 1 .. 13 : s2[p] = IF p <= 9 THEN s1[p] ELSE B[p - 9]
    BY <1>5, <1>11, Joined
<1> HIDE DEF s2
<1>13. Chars(s3, 14) /\ \A p \in 1 .. 14 : s3[p] = IF p <= 13 THEN s2[p] ELSE d[p - 13]
    BY <1>2, <1>12, Joined
<1> HIDE DEF s3
<1>14. Chars(s4, 18) /\ \A p \in 1 .. 18 : s4[p] = IF p <= 14 THEN s3[p] ELSE C[p - 14]
    BY <1>6, <1>13, Joined
<1> HIDE DEF s4
<1>15. Chars(s5, 19) /\ \A p \in 1 .. 19 : s5[p] = IF p <= 18 THEN s4[p] ELSE d[p - 18]
    BY <1>2, <1>14, Joined
<1> HIDE DEF s5
<1>16. Chars(s6, 23) /\ \A p \in 1 .. 23 : s6[p] = IF p <= 19 THEN s5[p] ELSE D[p - 19]
    <2>1. \A m, n \in Nat : Chars(s5, m) /\ Chars(D, n) =>
              /\ Chars(s6, m + n)
              /\ \A p \in 1 .. m + n : s6[p] = IF p <= m THEN s5[p] ELSE D[p - m]
        BY Joined
    <2> HIDE DEF s6
    <2> QED
        BY <1>7, <1>15, <2>1
<1> HIDE DEF s6
<1>17. Chars(s7, 24) /\ \A p \in 1 .. 24 : s7[p] = IF p <= 23 THEN s6[p] ELSE d[p - 23]
    BY <1>2, <1>16, Joined
<1> HIDE DEF s7
<1>18. Chars(s8, 36) /\ \A p \in 1 .. 36 : s8[p] = IF p <= 24 THEN s7[p] ELSE E[p - 24]
    <2>1. \A m, n \in Nat : Chars(s7, m) /\ Chars(E, n) =>
              /\ Chars(s8, m + n)
              /\ \A p \in 1 .. m + n : s8[p] = IF p <= m THEN s7[p] ELSE E[p - m]
        BY Joined
    <2> HIDE DEF s8
    <2> QED
        BY <1>8, <1>17, <2>1
<1> HIDE DEF s8
<1>20. ASSUME NEW p \in 1 .. 36
       PROVE  s8[p] = DashText(a)[p]
    <2>1. CASE p <= 8
        BY <2>1, <1>3, <1>4, <1>11, <1>12, <1>13, <1>14, <1>15, <1>16, <1>17, <1>18
    <2>2. CASE p = 9
        BY <2>2, <1>2, <1>3, <1>11, <1>12, <1>13, <1>14, <1>15, <1>16, <1>17, <1>18
    <2>3. CASE p > 9 /\ p <= 13
        BY <2>3, <1>3, <1>5, <1>12, <1>13, <1>14, <1>15, <1>16, <1>17, <1>18
    <2>4. CASE p = 14
        BY <2>4, <1>2, <1>3, <1>13, <1>14, <1>15, <1>16, <1>17, <1>18
    <2>5. CASE p > 14 /\ p <= 18
        BY <2>5, <1>3, <1>6, <1>14, <1>15, <1>16, <1>17, <1>18
    <2>6. CASE p = 19
        BY <2>6, <1>2, <1>3, <1>15, <1>16, <1>17, <1>18
    <2>7. CASE p > 19 /\ p <= 23
        BY <2>7, <1>3, <1>7, <1>16, <1>17, <1>18
    <2>8. CASE p = 24
        BY <2>8, <1>2, <1>3, <1>17, <1>18
    <2>9. CASE p > 24
        BY <2>9, <1>3, <1>8, <1>18
    <2> QED
        BY <2>1, <2>2, <2>3, <2>4, <2>5, <2>6, <2>7, <2>8, <2>9
<1>21. s8 = DashText(a)
    BY <1>18, <1>20, DashTextType, SameChars
<1> QED
    BY <1>21 DEF uuid_string_from_hex, Join, h, d, A, B, C, D, E, s1, s2, s3, s4, s5, s6, s7, s8

\* Three bodies, two forms, one text: which formatter a build or a CPU has
\* makes no difference to any id.
THEOREM FormattersAgree ==
    ASSUME NEW a \in Bytes16
    PROVE  /\ format_uuid_hex_scalar(a) = HexText(a)
           /\ format_uuid_hex_simd(a) = HexText(a)
           /\ format_uuid_hex_neon(a) = HexText(a)
           /\ format_uuid_scalar(a) = DashText(a)
           /\ uuid_string_from_hex(HexText(a)) = DashText(a)
BY SimdHex, NeonHex, ScalarHex, Scalar, Dashes

-----------------------------------------------------------------------------
(* The parser *)

\* DigitsRead is a function that meets its own equation, for texts of any length:
\* the library has no induction over data to say so.
LEMMA ReadsOn ==
    ASSUME NEW s, Len(s) \in Nat
    PROVE  /\ DigitsRead(s)[0] = <<>>
           /\ \A n \in 1 .. Len(s) : DigitsRead(s)[n] = ParseByte(DigitsRead(s)[n - 1], s[n])
<1> DEFINE Reads(g, n) ==
               g = [k \in 0 .. n |-> IF k = 0 THEN <<>> ELSE ParseByte(g[k - 1], s[k])]
           S == {n \in Nat : \E g : Reads(g, n)}
<1>1. 0 \in S
    <2> DEFINE g == [k \in 0 .. 0 |-> <<>>]
    <2>1. Reads(g, 0)
        OBVIOUS
    <2> QED
        BY <2>1
<1>2. ASSUME NEW n \in Nat, n \in S
      PROVE  n + 1 \in S
    <2>1. PICK g : Reads(g, n)
        BY <1>2
    <2> DEFINE h == [k \in 0 .. n + 1 |->
                        IF k <= n THEN g[k] ELSE ParseByte(g[n], s[n + 1])]
    <2>2. ASSUME NEW k \in 0 .. n + 1
          PROVE  h[k] = IF k = 0 THEN <<>> ELSE ParseByte(h[k - 1], s[k])
        <3>1. CASE k = 0
            BY <2>1, <3>1
        <3>2. CASE k \in 1 .. n
            <4>1. h[k] = g[k] /\ h[k - 1] = g[k - 1]
                BY <3>2
            <4>2. g[k] = ParseByte(g[k - 1], s[k])
                BY <2>1, <3>2
            <4> QED
                BY <3>2, <4>1, <4>2
        <3>3. CASE k = n + 1
            <4>1. h[k] = ParseByte(g[n], s[n + 1]) /\ h[k - 1] = g[n]
                BY <3>3
            <4> QED
                BY <3>3, <4>1
        <3> QED
            BY <3>1, <3>2, <3>3
    <2>3. Reads(h, n + 1)
        <3> DEFINE H == [k \in 0 .. n + 1 |-> IF k = 0 THEN <<>> ELSE ParseByte(h[k - 1], s[k])]
        <3>1. DOMAIN h = 0 .. n + 1 /\ DOMAIN H = 0 .. n + 1
            OBVIOUS
        <3>2. \A k \in 0 .. n + 1 : h[k] = H[k]
            BY <2>2
        <3>3. h = H
            <4> HIDE DEF Reads
            <4> QED
                BY <3>2
        <3> QED
            BY <3>3
    <2> HIDE DEF Reads, h
    <2> QED
        BY <2>3
<1> HIDE DEF S
<1>3. Len(s) \in S
    BY <1>1, <1>2, SetInduction
<1>4. PICK g : Reads(g, Len(s))
    BY <1>3 DEF S
<1>5. Reads(DigitsRead(s), Len(s))
    BY <1>4 DEF DigitsRead
<1> QED
    BY <1>5

\* n digits.
Digits(r, n) == r \in Seq(0 .. 15) /\ Len(r) = n

\* Digits are not taken for Failed.
LEMMA DigitsDiffer ==
    ASSUME NEW n, NEW r, Digits(r, n)
    PROVE  r # Failed /\ n \in Nat /\ r # <<-1>>
<1>1. SUFFICES ASSUME r = <<-1>> PROVE FALSE
    BY LenProperties DEF Failed, Digits
<1>2. r \in [1 .. Len(r) -> 0 .. 15] /\ Len(r) = 1
    BY <1>1, LenProperties DEF Digits
<1>3. r[1] \in 0 .. 15
    BY <1>2
<1>4. r[1] = -1
    BY <1>1
<1> QED
    BY <1>3, <1>4

\* The digits r and one more.
WithDigit(r, d) == Append(r, d)

\* Appending a digit adds it at the end and changes no other.
LEMMA OneDigitMore ==
    ASSUME NEW n \in Nat, NEW r, Digits(r, n), NEW d \in 0 .. 15
    PROVE  /\ Digits(WithDigit(r, d), n + 1)
           /\ WithDigit(r, d)[n + 1] = d
           /\ \A k \in 1 .. n : WithDigit(r, d)[k] = r[k]
BY AppendProperties DEF Digits, WithDigit

\* The loop starts with no digits.
LEMMA NoDigits == Digits(<<>>, 0)
BY EmptySeq DEF Digits

\* DigitOf knows the hexadecimal digits, capitals too, and no other character.
LEMMA DigitValue ==
    ASSUME NEW c \in Nat
    PROVE  IF IsDigit(c) THEN DigitOf(c) \in 0 .. 15 /\ DigitOf(c) # -1 ELSE DigitOf(c) = -1
BY DEF DigitOf, IsDigit

\* One turn of the loop, for each kind of character.
LEMMA OneByte ==
    ASSUME NEW n, NEW r, Digits(r, n), NEW c \in Nat
    PROVE  /\ c = Dash => ParseByte(r, c) = r
           /\ c # Dash /\ IsDigit(c) /\ n # 32 => ParseByte(r, c) = WithDigit(r, DigitOf(c))
           /\ c # Dash /\ (~IsDigit(c) \/ n = 32) => ParseByte(r, c) = Failed
<1>1. r # Failed /\ Len(r) = n
    BY DigitsDiffer DEF Digits
<1> QED
    BY <1>1, DigitValue, Zenon DEF ParseByte, WithDigit

\* s is a text of a: its first n characters bear the first m[n] digits of a.
TextOf(a, s, m) ==
    /\ Len(s) \in Nat
    /\ m[0] = 0
    /\ m[Len(s)] = 32
    /\ \A n \in 1 .. Len(s) :
           \/ s[n] = Dash /\ m[n] = m[n - 1]
           \/ m[n] = m[n - 1] + 1 /\ m[n] \in 1 .. 32 /\ s[n] = HEX[Nibbles(a)[m[n]] + 1]

\* The parser reads an id back from every text of it, wherever the dashes are.
LEMMA ParserInverts ==
    ASSUME NEW a \in Bytes16, NEW s, NEW m, TextOf(a, s, m)
    PROVE  parse_uuid_text(s) = a
<1> DEFINE r == DigitsRead(s)
           L == Len(s)
           Known(n) == Digits(r[n], m[n]) /\ \A k \in 1 .. m[n] : r[n][k] = Nibbles(a)[k]
           S == {n \in Nat : n <= L => Known(n)}
<1>1. L \in Nat /\ m[0] = 0 /\ m[L] = 32
    BY DEF TextOf
<1>2. r[0] = <<>> /\ \A n \in 1 .. L : r[n] = ParseByte(r[n - 1], s[n])
    BY <1>1, ReadsOn
<1> HIDE DEF r, L
<1>3. 0 \in S
    BY <1>1, <1>2, NoDigits
<1>4. ASSUME NEW n \in Nat, n \in S
      PROVE  n + 1 \in S
    <2>1. SUFFICES ASSUME n + 1 <= L PROVE Known(n + 1)
        OBVIOUS
    <2>2. Known(n)
        BY <1>1, <1>4, <2>1
    <2>3. r[n + 1] = ParseByte(r[n], s[n + 1])
        BY <1>1, <1>2, <2>1
    <2>4. \/ s[n + 1] = Dash /\ m[n + 1] = m[n]
          \/ /\ m[n + 1] = m[n] + 1 /\ m[n + 1] \in 1 .. 32
             /\ s[n + 1] = HEX[Nibbles(a)[m[n + 1]] + 1]
        <3>1. n + 1 \in 1 .. Len(s) /\ (n + 1) - 1 = n
            BY <1>1, <2>1 DEF L
        <3> QED
            BY <3>1 DEF TextOf
    <2>5. Digits(r[n], m[n]) /\ m[n] \in Nat
        BY <2>2, DigitsDiffer
    <2>6. CASE s[n + 1] = Dash /\ m[n + 1] = m[n]
        <3>1. r[n + 1] = r[n]
            BY <2>3, <2>5, <2>6, OneByte DEF Dash
        <3> QED
            BY <2>2, <2>6, <3>1
    <2>7. CASE /\ m[n + 1] = m[n] + 1 /\ m[n + 1] \in 1 .. 32
               /\ s[n + 1] = HEX[Nibbles(a)[m[n + 1]] + 1]
        <3> DEFINE d == Nibbles(a)[m[n + 1]]
        <3>1. d \in 0 .. 15
            BY <2>7, NibblesType
        <3>2. s[n + 1] \in Nat /\ s[n + 1] # Dash /\ DigitOf(s[n + 1]) = d
            BY <2>7, <3>1, HexDigit
        <3>3. IsDigit(s[n + 1]) /\ m[n] # 32
            BY <2>5, <2>7, <3>1, <3>2, DigitValue
        <3>4. r[n + 1] = WithDigit(r[n], d)
            BY <2>3, <2>5, <3>2, <3>3, OneByte
        <3>5. /\ Digits(r[n + 1], m[n] + 1)
              /\ r[n + 1][m[n] + 1] = d
              /\ \A k \in 1 .. m[n] : r[n + 1][k] = r[n][k]
            <4>1. PICK e, q, u, j : e = d /\ q = r[n] /\ u = r[n + 1] /\ j = m[n]
                OBVIOUS
            <4>2. e \in 0 .. 15 /\ j \in Nat /\ Digits(q, j) /\ u = WithDigit(q, e)
                BY <2>5, <3>1, <3>4, <4>1
            <4>3. /\ Digits(u, j + 1)
                  /\ u[j + 1] = e
                  /\ \A k \in 1 .. j : u[k] = q[k]
                BY <4>2, OneDigitMore
            <4> HIDE DEF d
            <4> QED
                BY <4>1, <4>3
        <3>6. ASSUME NEW k \in 1 .. m[n + 1]
              PROVE  r[n + 1][k] = Nibbles(a)[k]
            <4>1. CASE k = m[n + 1]
                BY <2>7, <3>5, <4>1
            <4>2. CASE k # m[n + 1]
                <5>1. k \in 1 .. m[n]
                    BY <2>5, <2>7, <4>2
                <5> QED
                    BY <2>2, <3>5, <5>1
            <4> QED
                BY <4>1, <4>2
        <3> QED
            BY <2>7, <3>5, <3>6
    <2> QED
        BY <2>4, <2>6, <2>7
<1>5. Known(L)
    <2> HIDE DEF Known
    <2>1. L \in S
        <3> HIDE DEF S
        <3> QED
            BY <1>1, <1>3, <1>4, SetInduction
    <2> QED
        BY <1>1, <2>1
<1>6. Digits(r[L], 32) /\ \A k \in 1 .. 32 : r[L][k] = Nibbles(a)[k]
    BY <1>1, <1>5
<1>7. r[L] # Failed /\ Len(r[L]) = 32
    BY <1>6, DigitsDiffer DEF Digits
<1>8. parse_uuid_text(s) = [k \in 1 .. 16 |-> 16 * r[L][2 * k - 1] + r[L][2 * k]]
    BY <1>7 DEF parse_uuid_text, r, L
<1>9. ASSUME NEW k \in 1 .. 16
      PROVE  16 * r[L][2 * k - 1] + r[L][2 * k] = a[k]
    <2>1. a[k] \in 0 .. 255
        BY TwoNibbles
    <2>2. Nibbles(a)[2 * k - 1] = a[k] \div 16 /\ Nibbles(a)[2 * k] = a[k] % 16
        BY TwoNibbles
    <2>3. r[L][2 * k - 1] = a[k] \div 16 /\ r[L][2 * k] = a[k] % 16
        BY <1>6, <2>2
    <2> QED
        BY <2>1, <2>3
<1>10. a = [k \in 1 .. 16 |-> a[k]]
    BY DEF Bytes16
<1> QED
    BY <1>8, <1>9, <1>10, Zenon

\* It reads back what the formatters write, without dashes ...
LEMMA HexInverts ==
    ASSUME NEW a \in Bytes16
    PROVE  parse_uuid_text(HexText(a)) = a
<1> DEFINE m == [n \in 0 .. 32 |-> n]
<1>1. Len(HexText(a)) = 32
    BY HexTextType, FcnSeq DEF Chars
<1>2. TextOf(a, HexText(a), m)
    BY <1>1, HexTextType DEF TextOf
<1> QED
    BY <1>2, ParserInverts

\* ... and with them.
LEMMA DashInverts ==
    ASSUME NEW a \in Bytes16
    PROVE  parse_uuid_text(DashText(a)) = a
<1> DEFINE m == [n \in 0 .. 36 |-> n - Skipped(n)]
<1>1. Len(DashText(a)) = 36
    BY DashTextType, FcnSeq DEF Chars
<1>2. m[0] = 0 /\ m[36] = 32
    BY DEF Skipped
<1>3. ASSUME NEW n \in 1 .. 36
      PROVE  \/ DashText(a)[n] = Dash /\ m[n] = m[n - 1]
             \/ /\ m[n] = m[n - 1] + 1 /\ m[n] \in 1 .. 32
                /\ DashText(a)[n] = HEX[Nibbles(a)[m[n]] + 1]
    <2>1. m[n] = n - Skipped(n) /\ m[n - 1] = (n - 1) - Skipped(n - 1)
        OBVIOUS
    <2>2. CASE n \in {9, 14, 19, 24}
        BY <2>1, <2>2 DEF DashText, Skipped
    <2>3. CASE n \notin {9, 14, 19, 24}
        <3>1. m[n] = m[n - 1] + 1 /\ m[n] \in 1 .. 32
            BY <2>1, <2>3 DEF Skipped
        <3>2. DashText(a)[n] = HexText(a)[n - Skipped(n)]
            BY <2>3 DEF DashText
        <3> QED
            BY <2>1, <3>1, <3>2, HexTextType
    <2> QED
        BY <2>2, <2>3
<1>4. TextOf(a, DashText(a), m)
    <2> HIDE DEF m
    <2> QED
        BY <1>1, <1>2, <1>3 DEF TextOf
<1> QED
    BY <1>4, ParserInverts

-----------------------------------------------------------------------------
(* What the parser accepts *)

\* Where the first n characters are no dash.
DigitPlaces(s, n) == {k \in 1 .. n : s[k] # Dash}

\* One more character is one more such place, or a dash.
LEMMA PlacesGrow ==
    ASSUME NEW s, NEW n \in Nat
    PROVE  /\ Cardinality(DigitPlaces(s, n)) \in Nat
           /\ DigitPlaces(s, n + 1) =
                  IF s[n + 1] = Dash THEN DigitPlaces(s, n) ELSE DigitPlaces(s, n) \cup {n + 1}
           /\ Cardinality(DigitPlaces(s, n + 1)) =
                  Cardinality(DigitPlaces(s, n)) + (IF s[n + 1] = Dash THEN 0 ELSE 1)
<1>1. IsFiniteSet(DigitPlaces(s, n)) /\ Cardinality(DigitPlaces(s, n)) \in Nat
    <2>1. IsFiniteSet(1 .. n)
        BY FS_Interval
    <2>2. DigitPlaces(s, n) \subseteq 1 .. n
        BY DEF DigitPlaces
    <2> QED
        BY <2>1, <2>2, FS_Subset, FS_CardinalityType
<1>2. DigitPlaces(s, n + 1) =
          IF s[n + 1] = Dash THEN DigitPlaces(s, n) ELSE DigitPlaces(s, n) \cup {n + 1}
    BY DEF DigitPlaces
<1>3. n + 1 \notin DigitPlaces(s, n)
    BY DEF DigitPlaces
<1>4. CASE s[n + 1] = Dash
    BY <1>1, <1>2, <1>4
<1>5. CASE s[n + 1] # Dash
    <2>1. Cardinality(DigitPlaces(s, n) \cup {n + 1}) = Cardinality(DigitPlaces(s, n)) + 1
        BY <1>1, <1>3, FS_AddElement
    <2> QED
        BY <1>1, <1>2, <1>5, <2>1
<1> QED
    BY <1>4, <1>5

\* The first n characters of s that are not dashes are hexadecimal digits, 32 of them at most.
Readable(s, n) ==
    /\ Cardinality(DigitPlaces(s, n)) <= 32
    /\ \A k \in DigitPlaces(s, n) : IsDigit(s[k])

\* The parser takes a text, of any length and whatever is in it, exactly if
\* without its dashes it is 32 hexadecimal digits.
THEOREM ParserAccepts ==
    ASSUME NEW s, Len(s) \in Nat, \A k \in 1 .. Len(s) : s[k] \in Nat
    PROVE  parse_uuid_text(s) # Failed <=>
               /\ Cardinality(DigitPlaces(s, Len(s))) = 32
               /\ \A k \in DigitPlaces(s, Len(s)) : IsDigit(s[k])
<1> DEFINE r == DigitsRead(s)
           L == Len(s)
           c(n) == Cardinality(DigitPlaces(s, n))
           Known(n) == IF Readable(s, n) THEN Digits(r[n], c(n)) ELSE r[n] = Failed
           S == {n \in Nat : n <= L => Known(n)}
<1>1. L \in Nat /\ \A k \in 1 .. L : s[k] \in Nat
    OBVIOUS
<1>2. r[0] = <<>> /\ \A n \in 1 .. L : r[n] = ParseByte(r[n - 1], s[n])
    BY <1>1, ReadsOn
<1>3. \A n \in Nat : c(n) \in Nat
    BY PlacesGrow
<1>4. c(0) = 0 /\ Readable(s, 0)
    <2>1. DigitPlaces(s, 0) = {}
        BY DEF DigitPlaces
    <2> QED
        BY <2>1, FS_EmptySet DEF Readable
<1> HIDE DEF r, L
<1>5. 0 \in S
    BY <1>2, <1>4, NoDigits
<1>6. ASSUME NEW n \in Nat, n \in S
      PROVE  n + 1 \in S
    <2>1. SUFFICES ASSUME n + 1 <= L PROVE Known(n + 1)
        OBVIOUS
    <2>2. Known(n)
        BY <1>1, <1>6, <2>1
    <2>3. r[n + 1] = ParseByte(r[n], s[n + 1]) /\ s[n + 1] \in Nat
        BY <1>1, <1>2, <2>1
    <2>4. /\ DigitPlaces(s, n + 1) =
                 IF s[n + 1] = Dash THEN DigitPlaces(s, n) ELSE DigitPlaces(s, n) \cup {n + 1}
          /\ c(n + 1) = c(n) + (IF s[n + 1] = Dash THEN 0 ELSE 1)
          /\ c(n) \in Nat
        BY PlacesGrow
    <2>5. CASE ~Readable(s, n)
        <3>1. ~Readable(s, n + 1)
            BY <2>4, <2>5 DEF Readable
        <3>2. r[n + 1] = Failed
            BY <2>2, <2>3, <2>5 DEF ParseByte
        <3> QED
            BY <3>1, <3>2
    <2>6. CASE Readable(s, n)
        <3>1. Digits(r[n], c(n)) /\ c(n) <= 32
            BY <2>2, <2>6 DEF Readable
        <3>2. CASE s[n + 1] = Dash
            <4>1. Readable(s, n + 1) /\ c(n + 1) = c(n)
                BY <2>4, <2>6, <3>2 DEF Readable
            <4>2. r[n + 1] = r[n]
                BY <2>3, <3>1, <3>2, OneByte
            <4> QED
                BY <3>1, <4>1, <4>2
        <3>3. CASE s[n + 1] # Dash /\ IsDigit(s[n + 1]) /\ c(n) # 32
            <4>1. Readable(s, n + 1) /\ c(n + 1) = c(n) + 1
                BY <2>4, <2>6, <3>1, <3>3 DEF Readable
            <4>2. r[n + 1] = WithDigit(r[n], DigitOf(s[n + 1]))
                BY <2>3, <3>1, <3>3, OneByte
            <4>3. DigitOf(s[n + 1]) \in 0 .. 15
                BY <2>3, <3>3, DigitValue
            <4>4. Digits(r[n + 1], c(n) + 1)
                <5>1. PICK e, q, j : e = DigitOf(s[n + 1]) /\ q = r[n] /\ j = c(n)
                    OBVIOUS
                <5>2. e \in 0 .. 15 /\ j \in Nat /\ Digits(q, j)
                    BY <1>3, <3>1, <4>3, <5>1
                <5>3. Digits(WithDigit(q, e), j + 1)
                    BY <5>2, OneDigitMore
                <5> QED
                    BY <4>2, <5>1, <5>3
            <4> QED
                BY <4>1, <4>4
        <3>4. CASE s[n + 1] # Dash /\ (~IsDigit(s[n + 1]) \/ c(n) = 32)
            <4>1. n + 1 \in DigitPlaces(s, n + 1) /\ c(n + 1) = c(n) + 1
                BY <2>4, <3>4
            <4>2. ~Readable(s, n + 1)
                BY <2>4, <3>4, <4>1 DEF Readable
            <4>3. r[n + 1] = Failed
                BY <2>3, <3>1, <3>4, OneByte
            <4> QED
                BY <4>2, <4>3
        <3> QED
            BY <3>2, <3>3, <3>4
    <2> QED
        BY <2>5, <2>6
<1>7. Known(L)
    <2> HIDE DEF Known
    <2>1. L \in S
        <3> HIDE DEF S
        <3> QED
            BY <1>1, <1>5, <1>6, SetInduction
    <2> QED
        BY <1>1, <2>1
<1>8. parse_uuid_text(s) = IF r[L] = Failed \/ Len(r[L]) # 32 THEN Failed
                           ELSE [k \in 1 .. 16 |-> 16 * r[L][2 * k - 1] + r[L][2 * k]]
    BY DEF parse_uuid_text, r, L
<1>9. CASE Readable(s, L) /\ c(L) = 32
    <2>1. Digits(r[L], 32)
        BY <1>7, <1>9
    <2>2. r[L] # Failed /\ Len(r[L]) = 32
        BY <2>1, DigitsDiffer DEF Digits
    <2>3. parse_uuid_text(s) = [k \in 1 .. 16 |-> 16 * r[L][2 * k - 1] + r[L][2 * k]]
        BY <1>8, <2>2
    <2>4. parse_uuid_text(s) # Failed
        <3>1. DOMAIN parse_uuid_text(s) = 1 .. 16
            BY <2>3
        <3>2. 2 \notin DOMAIN Failed
            BY DEF Failed
        <3> QED
            BY <3>1, <3>2
    <2> QED
        BY <1>9, <2>4 DEF Readable, L
<1>10. CASE Readable(s, L) /\ c(L) # 32
    <2>1. Len(r[L]) # 32
        BY <1>7, <1>10 DEF Digits
    <2> QED
        BY <1>8, <1>10, <2>1 DEF L
<1>11. CASE ~Readable(s, L)
    <2>1. r[L] = Failed
        BY <1>7, <1>11
    <2> QED
        BY <1>8, <1>11, <2>1 DEF Readable, L
<1> QED
    BY <1>9, <1>10, <1>11

-----------------------------------------------------------------------------
(* The order of texts *)

\* Digits order as ASCII codes do: 9 is before a.
LEMMA HexOrder ==
    ASSUME NEW m \in 0 .. 15, NEW n \in 0 .. 15
    PROVE  (HEX[m + 1] < HEX[n + 1] <=> m < n) /\ (HEX[m + 1] = HEX[n + 1] <=> m = n)
BY HexDigit

\* The two characters of a byte.
LEMMA HexAt ==
    ASSUME NEW a \in Bytes16, NEW k \in 1 .. 16
    PROVE  /\ HexText(a)[2 * k - 1] = HEX[(a[k] \div 16) + 1]
           /\ HexText(a)[2 * k] = HEX[(a[k] % 16) + 1]
           /\ a[k] \in 0 .. 255 /\ a[k] \div 16 \in 0 .. 15 /\ a[k] % 16 \in 0 .. 15
<1>1. 2 * k - 1 \in 1 .. 32 /\ 2 * k \in 1 .. 32
    OBVIOUS
<1>2. HexText(a)[2 * k - 1] = HEX[Nibbles(a)[2 * k - 1] + 1]
      /\ HexText(a)[2 * k] = HEX[Nibbles(a)[2 * k] + 1]
    BY <1>1, HexTextType
<1>3. a[k] \in 0 .. 255
    BY TwoNibbles
<1> QED
    BY <1>2, <1>3, TwoNibbles

\* Two bytes compare as their two digits do.
LEMMA PairOrder ==
    ASSUME NEW a \in Bytes16, NEW b \in Bytes16, NEW k \in 1 .. 16
    PROVE  LET h == HexText(a)
               g == HexText(b)
           IN  /\ a[k] = b[k] <=> h[2 * k - 1] = g[2 * k - 1] /\ h[2 * k] = g[2 * k]
               /\ a[k] < b[k] <=>
                      \/ h[2 * k - 1] < g[2 * k - 1]
                      \/ h[2 * k - 1] = g[2 * k - 1] /\ h[2 * k] < g[2 * k]
<1>1. PICK x, y : x = a[k] /\ y = b[k]
    OBVIOUS
<1>2. x \in 0 .. 255 /\ y \in 0 .. 255
    BY <1>1, HexAt
<1>3. PICK i, j, m, n : i = x \div 16 /\ j = x % 16 /\ m = y \div 16 /\ n = y % 16
    OBVIOUS
<1>4. /\ i \in 0 .. 15 /\ j \in 0 .. 15 /\ m \in 0 .. 15 /\ n \in 0 .. 15
      /\ x = 16 * i + j /\ y = 16 * m + n
    BY <1>2, <1>3
<1>5. /\ HexText(a)[2 * k - 1] = HEX[i + 1] /\ HexText(a)[2 * k] = HEX[j + 1]
      /\ HexText(b)[2 * k - 1] = HEX[m + 1] /\ HexText(b)[2 * k] = HEX[n + 1]
    BY <1>1, <1>3, HexAt
<1>6. /\ HEX[i + 1] < HEX[m + 1] <=> i < m
      /\ HEX[i + 1] = HEX[m + 1] <=> i = m
      /\ HEX[j + 1] < HEX[n + 1] <=> j < n
      /\ HEX[j + 1] = HEX[n + 1] <=> j = n
    BY <1>4, HexOrder
<1>7. /\ x = y <=> i = m /\ j = n
      /\ x < y <=> i < m \/ (i = m /\ j < n)
    BY <1>4
<1> QED
    BY <1>1, <1>5, <1>6, <1>7

\* s is less than t at place k and the same before it.
LessAt(s, t, k) == s[k] < t[k] /\ \A j \in 1 .. k - 1 : s[j] = t[j]

\* Before looks for the first place where two sequences differ.
LEMMA BeforeAt ==
    ASSUME NEW n \in Nat, NEW s, Len(s) = n, NEW t
    PROVE  Before(s, t) <=> \E k \in 1 .. n : LessAt(s, t, k)
BY DEF Before, LessAt

\* Texts without dashes sort as ids do ...
LEMMA HexSorts ==
    ASSUME NEW a \in Bytes16, NEW b \in Bytes16
    PROVE  Before(HexText(a), HexText(b)) <=> Before(a, b)
<1> DEFINE h == HexText(a)
           g == HexText(b)
<1>1. Len(h) = 32
    BY HexTextType, FcnSeq DEF Chars
<1>2. Len(a) = 16
    BY FcnSeq DEF Bytes16
<1>3. \A k \in 1 .. 16 :
          /\ a[k] = b[k] <=> h[2 * k - 1] = g[2 * k - 1] /\ h[2 * k] = g[2 * k]
          /\ a[k] < b[k] <=>
                 \/ h[2 * k - 1] < g[2 * k - 1]
                 \/ h[2 * k - 1] = g[2 * k - 1] /\ h[2 * k] < g[2 * k]
    BY PairOrder
<1>4. \A n \in 0 .. 16 : \A q \in 1 .. 2 * n : \E k \in 1 .. n : q = 2 * k - 1 \/ q = 2 * k
    <2> SUFFICES ASSUME NEW n \in 0 .. 16, NEW q \in 1 .. 2 * n
                 PROVE  \E k \in 1 .. n : q = 2 * k - 1 \/ q = 2 * k
        OBVIOUS
    <2>1. (q + 1) \div 2 \in 1 .. n
        OBVIOUS
    <2>2. q = 2 * ((q + 1) \div 2) - 1 \/ q = 2 * ((q + 1) \div 2)
        OBVIOUS
    <2> QED
        BY <2>1, <2>2
<1> HIDE DEF h, g
<1>5. ASSUME NEW k \in 1 .. 16, LessAt(a, b, k)
      PROVE  \E q \in 1 .. 32 : LessAt(h, g, q)
    <2>1. a[k] < b[k] /\ \A j \in 1 .. k - 1 : a[j] = b[j]
        BY <1>5 DEF LessAt
    <2>2. ASSUME NEW q \in 1 .. 2 * (k - 1)
          PROVE  h[q] = g[q]
        <3>1. PICK j \in 1 .. k - 1 : q = 2 * j - 1 \/ q = 2 * j
            <4>1. PICK n \in 0 .. 16 : n = k - 1
                OBVIOUS
            <4> QED
                BY <1>4, <4>1
        <3>2. h[2 * j - 1] = g[2 * j - 1] /\ h[2 * j] = g[2 * j]
            BY <1>3, <2>1
        <3> QED
            BY <3>1, <3>2
    <2>3. CASE h[2 * k - 1] < g[2 * k - 1]
        <3>1. 2 * k - 1 \in 1 .. 32 /\ \A q \in 1 .. (2 * k - 1) - 1 : q \in 1 .. 2 * (k - 1)
            OBVIOUS
        <3>2. LessAt(h, g, 2 * k - 1)
            BY <2>2, <2>3, <3>1 DEF LessAt
        <3> QED
            BY <3>1, <3>2
    <2>4. CASE h[2 * k - 1] = g[2 * k - 1] /\ h[2 * k] < g[2 * k]
        <3>1. 2 * k \in 1 .. 32
              /\ \A q \in 1 .. 2 * k - 1 : q = 2 * k - 1 \/ q \in 1 .. 2 * (k - 1)
            OBVIOUS
        <3>2. LessAt(h, g, 2 * k)
            BY <2>2, <2>4, <3>1 DEF LessAt
        <3> QED
            BY <3>1, <3>2
    <2> QED
        BY <1>3, <2>1, <2>3, <2>4
<1>6. ASSUME NEW q \in 1 .. 32, LessAt(h, g, q)
      PROVE  \E k \in 1 .. 16 : LessAt(a, b, k)
    <2>1. h[q] < g[q] /\ \A p \in 1 .. q - 1 : h[p] = g[p]
        BY <1>6 DEF LessAt
    <2>2. PICK k \in 1 .. 16 : q = 2 * k - 1 \/ q = 2 * k
        <3>1. 16 \in 0 .. 16 /\ q \in 1 .. 2 * 16
            OBVIOUS
        <3> QED
            BY <1>4, <3>1
    <2>3. ASSUME NEW j \in 1 .. k - 1
          PROVE  a[j] = b[j]
        <3>1. 2 * j - 1 \in 1 .. q - 1 /\ 2 * j \in 1 .. q - 1 /\ j \in 1 .. 16
            BY <2>2
        <3>2. h[2 * j - 1] = g[2 * j - 1] /\ h[2 * j] = g[2 * j]
            BY <2>1, <3>1
        <3> QED
            BY <1>3, <3>1, <3>2
    <2>4. a[k] < b[k]
        <3>1. CASE q = 2 * k - 1
            BY <1>3, <2>1, <3>1
        <3>2. CASE q = 2 * k
            <4>1. 2 * k - 1 \in 1 .. q - 1
                BY <3>2
            <4>2. h[2 * k - 1] = g[2 * k - 1]
                BY <2>1, <4>1
            <4> QED
                BY <1>3, <2>1, <3>2, <4>2
        <3> QED
            BY <2>2, <3>1, <3>2
    <2> QED
        BY <2>3, <2>4 DEF LessAt
<1>7. Before(h, g) <=> \E q \in 1 .. 32 : LessAt(h, g, q)
    BY <1>1, BeforeAt
<1>8. Before(a, b) <=> \E k \in 1 .. 16 : LessAt(a, b, k)
    BY <1>2, BeforeAt
<1> QED
    BY <1>5, <1>6, <1>7, <1>8 DEF h, g

\* The place of a digit among the dashes.
Placed(q) ==
    IF q <= 8 THEN q ELSE IF q <= 12 THEN q + 1 ELSE IF q <= 16 THEN q + 2
    ELSE IF q <= 20 THEN q + 3 ELSE q + 4

\* A digit is found where Placed says, ...
LEMMA DashAt ==
    ASSUME NEW a \in Bytes16, NEW q \in 1 .. 32
    PROVE  /\ Placed(q) \in 1 .. 36
           /\ DashText(a)[Placed(q)] = HexText(a)[q]
<1>1. Placed(q) \in 1 .. 36 \ {9, 14, 19, 24} /\ Placed(q) - Skipped(Placed(q)) = q
    BY DEF Placed, Skipped
<1> QED
    BY <1>1 DEF DashText

\* ... and every other place has a dash.
LEMMA EveryPlace ==
    ASSUME NEW p \in 1 .. 36, p \notin {9, 14, 19, 24}
    PROVE  \E q \in 1 .. 32 : p = Placed(q)
<1>1. p - Skipped(p) \in 1 .. 32 /\ p = Placed(p - Skipped(p))
    BY DEF Placed, Skipped
<1> QED
    BY <1>1

\* ... and texts with dashes as those without.
LEMMA DashSorts ==
    ASSUME NEW a \in Bytes16, NEW b \in Bytes16
    PROVE  Before(DashText(a), DashText(b)) <=> Before(HexText(a), HexText(b))
<1> DEFINE h == HexText(a)
           g == HexText(b)
           s == DashText(a)
           t == DashText(b)
<1>1. Len(h) = 32 /\ Len(s) = 36
    BY HexTextType, DashTextType, FcnSeq DEF Chars
<1>2. \A p \in {9, 14, 19, 24} : s[p] = Dash /\ t[p] = Dash
    BY DEF DashText
<1>3. \A q \in 1 .. 32 : s[Placed(q)] = h[q] /\ t[Placed(q)] = g[q] /\ Placed(q) \in 1 .. 36
    BY DashAt
<1> HIDE DEF h, g, s, t
<1>4. ASSUME NEW q \in 1 .. 32, LessAt(h, g, q)
      PROVE  \E p \in 1 .. 36 : LessAt(s, t, p)
    <2>1. h[q] < g[q] /\ \A j \in 1 .. q - 1 : h[j] = g[j]
        BY <1>4 DEF LessAt
    <2>2. ASSUME NEW p \in 1 .. Placed(q) - 1
          PROVE  s[p] = t[p]
        <3>1. p \in 1 .. 36
            BY <1>3
        <3>2. CASE p \in {9, 14, 19, 24}
            BY <1>2, <3>2
        <3>3. CASE p \notin {9, 14, 19, 24}
            <4>1. PICK j \in 1 .. 32 : p = Placed(j)
                BY <3>1, <3>3, EveryPlace
            <4>2. j \in 1 .. q - 1
                BY <4>1 DEF Placed
            <4> QED
                BY <1>3, <2>1, <4>1, <4>2
        <3> QED
            BY <3>2, <3>3
    <2>3. s[Placed(q)] < t[Placed(q)] /\ Placed(q) \in 1 .. 36
        BY <1>3, <2>1
    <2> QED
        BY <2>2, <2>3 DEF LessAt
<1>5. ASSUME NEW p \in 1 .. 36, LessAt(s, t, p)
      PROVE  \E q \in 1 .. 32 : LessAt(h, g, q)
    <2>1. s[p] < t[p] /\ \A k \in 1 .. p - 1 : s[k] = t[k]
        BY <1>5 DEF LessAt
    <2>2. p \notin {9, 14, 19, 24}
        BY <1>2, <2>1 DEF Dash
    <2>3. PICK q \in 1 .. 32 : p = Placed(q)
        BY <2>2, EveryPlace
    <2>4. h[q] < g[q]
        BY <1>3, <2>1, <2>3
    <2>5. ASSUME NEW j \in 1 .. q - 1
          PROVE  h[j] = g[j]
        <3>1. j \in 1 .. 32 /\ Placed(j) \in 1 .. p - 1
            BY <2>3 DEF Placed
        <3> QED
            BY <1>3, <2>1, <3>1
    <2> QED
        BY <2>4, <2>5 DEF LessAt
<1>6. Before(h, g) <=> \E q \in 1 .. 32 : LessAt(h, g, q)
    BY <1>1, BeforeAt
<1>7. Before(s, t) <=> \E p \in 1 .. 36 : LessAt(s, t, p)
    BY <1>1, BeforeAt
<1> QED
    BY <1>4, <1>5, <1>6, <1>7 DEF h, g, s, t

-----------------------------------------------------------------------------
(* The getters *)

\* An id is a sequence of 16 numbers, ...
LEMMA AllChars ==
    ASSUME NEW a \in Bytes16
    PROVE  Chars(a, 16)
<1>1. \A k \in 1 .. 16 : a[k] \in Nat
    BY DEF Bytes16
<1>2. a = [k \in 1 .. 16 |-> a[k]]
    BY DEF Bytes16
<1> QED
    BY <1>1, <1>2 DEF Chars

\* ... and this is a part of it.
LEMMA PartAt ==
    ASSUME NEW a \in Bytes16, NEW i \in 1 .. 16, NEW j \in i .. 16
    PROVE  /\ Chars(SubSeq(a, i, j), j - i + 1)
           /\ \A p \in 1 .. j - i + 1 : SubSeq(a, i, j)[p] = a[i + p - 1]
BY AllChars, Part

\* What uuid_v7_from_parts makes of the parts of an id.
Remade(a) ==
    uuid_v7_bytes(SubSeq(a, 1, 6), 256 * (a[7] % 16) + a[8], SubSeq(a, 9, 16))

\* Only the version and variant bits are not those of the id.
LEMMA RemadeBytes ==
    ASSUME NEW a \in Bytes16
    PROVE  /\ Chars(Remade(a), 16)
           /\ \A p \in 1 .. 16 : Remade(a)[p] =
                  IF p = 7 THEN 112 + (a[7] % 16) ELSE IF p = 9 THEN 128 + (a[9] % 64) ELSE a[p]
<1> DEFINE A == SubSeq(a, 1, 6)
           R == SubSeq(a, 9, 16)
           ra == 256 * (a[7] % 16) + a[8]
           m == <<7 * 16 + (ra \div 256), ra % 256, 2 * 64 + (R[1] % 64)>>
           B == SubSeq(R, 2, 8)
           u == Join(A, m)
           v == Join(u, B)
<1>1. a[7] \in 0 .. 255 /\ a[8] \in 0 .. 255 /\ a[9] \in 0 .. 255
    BY DEF Bytes16
<1>2. Chars(A, 6) /\ \A p \in 1 .. 6 : A[p] = a[p]
    BY PartAt
<1>3. Chars(R, 8) /\ \A p \in 1 .. 8 : R[p] = a[p + 8]
    BY PartAt
<1>4. ra \div 256 = a[7] % 16 /\ ra % 256 = a[8]
    BY <1>1
<1>5. m[1] = 112 + (a[7] % 16) /\ m[2] = a[8] /\ m[3] = 128 + (a[9] % 64)
    <2>1. R[1] = a[9]
        BY <1>3
    <2> HIDE DEF R, ra
    <2> QED
        BY <1>4, <2>1
<1>6. Chars(m, 3)
    <2>1. DOMAIN m = 1 .. 3 /\ m = [k \in 1 .. 3 |-> m[k]]
        OBVIOUS
    <2>2. m[1] \in Nat /\ m[2] \in Nat /\ m[3] \in Nat
        BY <1>1, <1>5
    <2> HIDE DEF m
    <2> QED
        BY <2>1, <2>2 DEF Chars
<1> HIDE DEF m, A
<1>7. Chars(B, 7) /\ \A p \in 1 .. 7 : B[p] = a[p + 9]
    <2>1. Chars(B, 7) /\ \A p \in 1 .. 7 : B[p] = R[p + 1]
        <3> HIDE DEF R
        <3> QED
            BY <1>3, Part
    <2> QED
        <3> HIDE DEF B, R
        <3> QED
            BY <1>3, <2>1
<1> HIDE DEF B
<1>8. Chars(u, 9) /\ \A p \in 1 .. 9 : u[p] = IF p <= 6 THEN A[p] ELSE m[p - 6]
    BY <1>2, <1>6, Joined
<1> HIDE DEF u
<1>9. Chars(v, 16) /\ \A p \in 1 .. 16 : v[p] = IF p <= 9 THEN u[p] ELSE B[p - 9]
    BY <1>7, <1>8, Joined
<1> HIDE DEF v
<1>10. ASSUME NEW p \in 1 .. 16
       PROVE  v[p] =
                  IF p = 7 THEN 112 + (a[7] % 16) ELSE IF p = 9 THEN 128 + (a[9] % 64) ELSE a[p]
    <2>1. CASE p <= 6
        BY <1>2, <1>8, <1>9, <2>1
    <2>2. CASE p \in 7 .. 9
        BY <1>5, <1>8, <1>9, <2>2
    <2>3. CASE p > 9
        BY <1>7, <1>9, <2>3
    <2> QED
        BY <2>1, <2>2, <2>3
<1>11. v = Remade(a)
    BY DEF Remade, uuid_v7_bytes, v, u, Join, A, m, ra, B, R
<1> QED
    BY <1>9, <1>10, <1>11

\* RFC 4122 is what the top bits 10 say.
LEMMA VariantRead ==
    ASSUME NEW s, s[9] \in 0 .. 255
    PROVE  variant(s) = "specified in RFC 4122" <=> s[9] \div 64 = 2
<1>1. s[9] \div 64 = 2 => s[9] \div 128 = 1
    OBVIOUS
<1> QED
    BY <1>1 DEF variant

\* The getters see in an id that was put together what it was made of.
LEMMA PartsRead ==
    ASSUME NEW a \in Bytes16
    PROVE  /\ time(Remade(a)) = time(a)
           /\ version(Remade(a)) = 7
           /\ variant(Remade(a)) = "specified in RFC 4122"
           /\ Remade(a) = a <=>
                  version(a) = 7 /\ variant(a) = "specified in RFC 4122"
<1> DEFINE b == Remade(a)
<1>1. /\ Chars(b, 16)
      /\ \A p \in 1 .. 16 : b[p] =
             IF p = 7 THEN 112 + (a[7] % 16) ELSE IF p = 9 THEN 128 + (a[9] % 64) ELSE a[p]
    BY RemadeBytes
<1>2. a[7] \in 0 .. 255 /\ a[9] \in 0 .. 255
    BY DEF Bytes16
<1> HIDE DEF b
<1>3. b[7] = 112 + (a[7] % 16) /\ b[9] = 128 + (a[9] % 64)
    BY <1>1
<1>4. b[7] \div 16 = 7 /\ b[9] \div 64 = 2 /\ b[9] \in 0 .. 255
    BY <1>2, <1>3
<1>5. time(b) = time(a)
    <2>1. Chars(SubSeq(b, 1, 6), 6) /\ \A p \in 1 .. 6 : SubSeq(b, 1, 6)[p] = b[p]
        BY <1>1, Part
    <2>2. Chars(SubSeq(a, 1, 6), 6) /\ \A p \in 1 .. 6 : SubSeq(a, 1, 6)[p] = a[p]
        BY PartAt
    <2>3. \A p \in 1 .. 6 : b[p] = a[p]
        BY <1>1
    <2>4. \A p \in 1 .. 6 : SubSeq(b, 1, 6)[p] = SubSeq(a, 1, 6)[p]
        BY <2>1, <2>2, <2>3
    <2> QED
        BY <2>1, <2>2, <2>4, SameChars DEF time
<1>6. version(b) = 7 /\ variant(b) = "specified in RFC 4122"
    BY <1>4, VariantRead DEF version
<1>7. a[7] \div 16 = 7 /\ a[9] \div 64 = 2 <=> b[7] = a[7] /\ b[9] = a[9]
    BY <1>2, <1>3
<1>8. b = a <=> b[7] = a[7] /\ b[9] = a[9]
    <2>1. ASSUME b[7] = a[7], b[9] = a[9]
          PROVE  \A p \in 1 .. 16 : b[p] = a[p]
        BY <1>1, <2>1
    <2> QED
        BY <1>1, <2>1, AllChars, SameChars
<1>9. b = a <=> version(a) = 7 /\ variant(a) = "specified in RFC 4122"
    BY <1>2, <1>7, <1>8, VariantRead DEF version
<1> QED
    BY <1>5, <1>6, <1>9 DEF b

\* The text of a part is a part of the text.
LEMMA HexOfPart ==
    ASSUME NEW a \in Bytes16, NEW i \in 1 .. 16, NEW j \in i .. 16
    PROVE  HexOf(SubSeq(a, i, j)) = SubSeq(HexText(a), 2 * i - 1, 2 * j)
<1> DEFINE b == SubSeq(a, i, j)
           n == j - i + 1
           s == SubSeq(HexText(a), 2 * i - 1, 2 * j)
           t == HexOf(b)
<1>1. Chars(b, n) /\ \A p \in 1 .. n : b[p] = a[i + p - 1]
    BY PartAt
<1>2. n \in 1 .. 16 /\ Len(b) = n
    BY <1>1, FcnSeq DEF Chars
<1>3. Chars(s, 2 * n) /\ \A p \in 1 .. 2 * n : s[p] = HexText(a)[2 * i + p - 2]
    <2>1. Chars(HexText(a), 32)
        BY HexTextType
    <2>2. PICK x, y : x = 2 * i - 1 /\ y = 2 * j
        OBVIOUS
    <2>3. x \in 1 .. 32 /\ y \in x .. 32
        BY <2>2
    <2>4. /\ Chars(SubSeq(HexText(a), x, y), y - x + 1)
          /\ \A p \in 1 .. y - x + 1 : SubSeq(HexText(a), x, y)[p] = HexText(a)[x + p - 1]
        <3>1. PICK h : h = HexText(a)
            OBVIOUS
        <3>2. Chars(h, 32)
            BY <2>1, <3>1
        <3>3. /\ Chars(SubSeq(h, x, y), y - x + 1)
              /\ \A p \in 1 .. y - x + 1 : SubSeq(h, x, y)[p] = h[x + p - 1]
            BY <2>3, <3>2, Part
        <3> QED
            BY <3>1, <3>3
    <2>5. y - x + 1 = 2 * n
        BY <2>2
    <2>6. \A p \in 1 .. 2 * n : x + p - 1 = 2 * i + p - 2
        BY <2>2
    <2> QED
        BY <2>2, <2>4, <2>5, <2>6
<1> HIDE DEF b, n, s
<1>4. t = [p \in 1 .. 2 * n |-> hex_pairs(b[(p + 1) \div 2])[((p - 1) % 2) + 1]]
    BY <1>2 DEF HexOf
<1> HIDE DEF t
<1>5. ASSUME NEW p \in 1 .. 2 * n
      PROVE  t[p] = s[p]
    <2>1. PICK q : q = 2 * i + p - 2
        OBVIOUS
    <2>2. q \in 1 .. 32
        BY <1>2, <2>1 DEF n
    <2>3. (p + 1) \div 2 \in 1 .. n /\ (q + 1) \div 2 = i + ((p + 1) \div 2) - 1
          /\ (q - 1) % 2 = (p - 1) % 2
        BY <1>2, <2>1
    <2>4. HexText(a)[q] = hex_pairs(a[(q + 1) \div 2])[((q - 1) % 2) + 1]
        <3>1. format_uuid_hex_scalar(a)[q] = HexText(a)[q]
            BY ScalarHex
        <3> QED
            BY <2>2, <3>1 DEF format_uuid_hex_scalar
    <2>5. b[(p + 1) \div 2] = a[(q + 1) \div 2]
        BY <1>1, <2>3
    <2> QED
        BY <1>3, <1>4, <2>1, <2>3, <2>4, <2>5
<1>6. \A p \in 1 .. 2 * n : s[p] \in Nat
    BY <1>3 DEF Chars
<1>7. Chars(t, 2 * n)
    BY <1>4, <1>5, <1>6 DEF Chars
<1>8. t = s
    <2>1. PICK l : l = 2 * n
        OBVIOUS
    <2>2. l \in Nat /\ Chars(s, l) /\ Chars(t, l) /\ \A p \in 1 .. l : t[p] = s[p]
        BY <1>2, <1>3, <1>5, <1>7, <2>1
    <2> QED
        BY <2>2, SameChars
<1> QED
    BY <1>8 DEF t, s, b

\* The groups of an id, as text.
Groups(a, d) ==
    LET f == fields(a)
    IN  HexOf(f[1]) \o d \o HexOf(f[2]) \o d \o HexOf(f[3])
            \o d \o HexOf(f[4]) \o HexOf(f[5]) \o d \o HexOf(f[6])

\* The groups are the parts between the dashes.
LEMMA GroupsAre ==
    ASSUME NEW a \in Bytes16, NEW d
    PROVE  LET h == HexText(a)
           IN  Groups(a, d) =
                   SubSeq(h, 1, 8) \o d \o SubSeq(h, 9, 12) \o d \o SubSeq(h, 13, 16)
                       \o d \o SubSeq(h, 17, 18) \o SubSeq(h, 19, 20) \o d \o SubSeq(h, 21, 32)
<1> DEFINE f == fields(a)
           h == HexText(a)
<1>1. /\ f[1] = SubSeq(a, 1, 4) /\ f[2] = SubSeq(a, 5, 6) /\ f[3] = SubSeq(a, 7, 8)
      /\ f[4] = SubSeq(a, 9, 9) /\ f[5] = SubSeq(a, 10, 10) /\ f[6] = SubSeq(a, 11, 16)
    BY DEF fields
<1>2. /\ HexOf(SubSeq(a, 1, 4)) = SubSeq(h, 1, 8) /\ HexOf(SubSeq(a, 5, 6)) = SubSeq(h, 9, 12)
      /\ HexOf(SubSeq(a, 7, 8)) = SubSeq(h, 13, 16) /\ HexOf(SubSeq(a, 9, 9)) = SubSeq(h, 17, 18)
      /\ HexOf(SubSeq(a, 10, 10)) = SubSeq(h, 19, 20)
      /\ HexOf(SubSeq(a, 11, 16)) = SubSeq(h, 21, 32)
    <2>1. \A i \in 1 .. 16 : \A j \in i .. 16 :
              HexOf(Span(a, i, j)) = Span(h, 2 * i - 1, 2 * j)
        BY HexOfPart DEF Span
    <2> HIDE DEF h
    <2>2. /\ HexOf(Span(a, 1, 4)) = Span(h, 1, 8) /\ HexOf(Span(a, 5, 6)) = Span(h, 9, 12)
          /\ HexOf(Span(a, 7, 8)) = Span(h, 13, 16) /\ HexOf(Span(a, 9, 9)) = Span(h, 17, 18)
          /\ HexOf(Span(a, 10, 10)) = Span(h, 19, 20)
          /\ HexOf(Span(a, 11, 16)) = Span(h, 21, 32)
        BY <2>1
    <2> QED
        BY <2>2, Zenon DEF Span
<1> HIDE DEF h, f
<1>3. /\ HexOf(f[1]) = SubSeq(h, 1, 8) /\ HexOf(f[2]) = SubSeq(h, 9, 12)
      /\ HexOf(f[3]) = SubSeq(h, 13, 16) /\ HexOf(f[4]) = SubSeq(h, 17, 18)
      /\ HexOf(f[5]) = SubSeq(h, 19, 20) /\ HexOf(f[6]) = SubSeq(h, 21, 32)
    BY <1>1, <1>2
<1>4. Groups(a, d) = HexOf(f[1]) \o d \o HexOf(f[2]) \o d \o HexOf(f[3])
            \o d \o HexOf(f[4]) \o HexOf(f[5]) \o d \o HexOf(f[6])
    BY Zenon DEF Groups, f
<1>5. Groups(a, d) =
          SubSeq(h, 1, 8) \o d \o SubSeq(h, 9, 12) \o d \o SubSeq(h, 13, 16)
              \o d \o SubSeq(h, 17, 18) \o SubSeq(h, 19, 20) \o d \o SubSeq(h, 21, 32)
    BY <1>3, <1>4, Zenon
<1> QED
    BY <1>5, Zenon DEF h

\* Parts next to one another are one part.
LEMMA Adjacent ==
    ASSUME NEW h, Chars(h, 32), NEW i \in 1 .. 32, NEW j \in i .. 31,
           NEW m \in 1 .. 32, m = j + 1, NEW k \in m .. 32
    PROVE  Join(Span(h, i, j), Span(h, m, k)) = Span(h, i, k)
<1>1. h \in Seq(Nat) /\ Len(h) = 32
    BY FcnSeq DEF Chars
<1> QED
    BY <1>1, ConcatAdjacentSubSeq DEF Join, Span

\* A part of a text is a text.
LEMMA PartSeq ==
    ASSUME NEW h, Chars(h, 32), NEW i \in 1 .. 32, NEW j \in i .. 32
    PROVE  SubSeq(h, i, j) \in Seq(Nat)
<1>1. PICK n \in Nat : n = j - i + 1
    OBVIOUS
<1>2. Chars(SubSeq(h, i, j), n)
    BY <1>1, Part
<1> QED
    BY <1>2, FcnSeq DEF Chars

\* The six fields, as text, make the text of the id, without dashes ...
LEMMA HexGroups ==
    ASSUME NEW a \in Bytes16
    PROVE  Groups(a, <<>>) = HexText(a)
<1> DEFINE h == HexText(a)
           e == <<>>
<1>1. Chars(h, 32)
    BY HexTextType
<1> HIDE DEF h
<1>2. h \in Seq(Nat) /\ Len(h) = 32 /\ e \in Seq(Nat)
    BY <1>1, FcnSeq, EmptySeq DEF Chars
<1>3. \A i \in 1 .. 32 : \A j \in i .. 32 : Join(Span(h, i, j), e) = Span(h, i, j)
    BY <1>1, PartSeq, ConcatEmptySeq DEF Join, Span
<1> HIDE DEF e
<1>4. /\ Join(Span(h, 1, 8), e) = Span(h, 1, 8)
      /\ Join(Span(h, 1, 12), e) = Span(h, 1, 12)
      /\ Join(Span(h, 1, 16), e) = Span(h, 1, 16)
      /\ Join(Span(h, 1, 20), e) = Span(h, 1, 20)
    BY <1>3
<1>5. /\ Join(Span(h, 1, 8), Span(h, 9, 12)) = Span(h, 1, 12)
      /\ Join(Span(h, 1, 12), Span(h, 13, 16)) = Span(h, 1, 16)
      /\ Join(Span(h, 1, 16), Span(h, 17, 18)) = Span(h, 1, 18)
    BY <1>1, Adjacent
<1>6. /\ Join(Span(h, 1, 18), Span(h, 19, 20)) = Span(h, 1, 20)
      /\ Join(Span(h, 1, 20), Span(h, 21, 32)) = Span(h, 1, 32)
    BY <1>1, Adjacent
<1>7. Span(h, 1, 32) = h
    BY <1>2, SubSeqFull DEF Span
<1> DEFINE x == Join(Join(Join(Span(h, 1, 8), e), Span(h, 9, 12)), e)
           y == Join(Join(Join(x, Span(h, 13, 16)), e), Span(h, 17, 18))
           z == Join(Join(Join(y, Span(h, 19, 20)), e), Span(h, 21, 32))
<1>8. Groups(a, e) = z
    BY GroupsAre, Zenon DEF h, Join, Span
<1>9. x = Span(h, 1, 12)
    BY <1>4, <1>5, Zenon
<1>10. y = Span(h, 1, 18)
    BY <1>4, <1>5, <1>9, Zenon
<1>11. z = h
    BY <1>4, <1>6, <1>7, <1>10, Zenon
<1> QED
    BY <1>8, <1>11, Zenon DEF h, e

\* ... and with them.
LEMMA DashGroups ==
    ASSUME NEW a \in Bytes16
    PROVE  Groups(a, <<Dash>>) = DashText(a)
<1> DEFINE h == HexText(a)
           d == <<Dash>>
           x == SubSeq(h, 1, 8) \o d \o SubSeq(h, 9, 12) \o d \o SubSeq(h, 13, 16) \o d
<1>1. Chars(h, 32)
    BY HexTextType
<1>2. d \in Seq(Nat)
    BY DEF Dash
<1> HIDE DEF h, d
<1>3. /\ SubSeq(h, 1, 8) \in Seq(Nat) /\ SubSeq(h, 9, 12) \in Seq(Nat)
      /\ SubSeq(h, 13, 16) \in Seq(Nat) /\ SubSeq(h, 17, 18) \in Seq(Nat)
      /\ SubSeq(h, 19, 20) \in Seq(Nat)
    BY <1>1, PartSeq
<1>4. x \in Seq(Nat)
    BY <1>2, <1>3
<1>5. Groups(a, d) =
          x \o SubSeq(h, 17, 18) \o SubSeq(h, 19, 20) \o d \o SubSeq(h, 21, 32)
    BY GroupsAre DEF h
<1>6. uuid_string_from_hex(h) = x \o SubSeq(h, 17, 20) \o d \o SubSeq(h, 21, 32)
    BY Zenon DEF uuid_string_from_hex, d
<1> HIDE DEF x
<1>7. x \o SubSeq(h, 17, 18) \o SubSeq(h, 19, 20) = x \o (SubSeq(h, 17, 18) \o SubSeq(h, 19, 20))
    <2>1. \A y, z \in Seq(Nat) : (x \o y) \o z = x \o (y \o z)
        BY <1>4, ConcatAssociative, SMTT(30)
    <2> QED
        BY <1>3, <2>1, Zenon
<1>8. SubSeq(h, 17, 18) \o SubSeq(h, 19, 20) = SubSeq(h, 17, 20)
    <2>1. Join(Span(h, 17, 18), Span(h, 19, 20)) = Span(h, 17, 20)
        BY <1>1, Adjacent
    <2> QED
        BY <2>1, Zenon DEF Join, Span
<1>9. Groups(a, d) = uuid_string_from_hex(h)
    BY <1>5, <1>6, <1>7, <1>8, Zenon
<1> QED
    BY <1>9, Dashes, Zenon DEF h, d

\* A text and its neighbours are sequences of numbers.
LEMMA NeighboursAreTexts ==
    ASSUME NEW s \in Seq(Nat), Len(s) >= 9, NEW n \in Neighbours(s)
    PROVE  n \in Seq(Nat) /\ Len(n) \in Nat /\ \A k \in 1 .. Len(n) : n[k] \in Nat
<1>1. n \in Seq(Nat)
    <2> DEFINE places == {1, 8, 9, Len(s)}
    <2>1. Len(s) \in Nat /\ places \subseteq 1 .. Len(s) /\ \A k \in 1 .. Len(s) : s[k] \in Nat
        BY LenProperties
    <2>2. \A i \in Int, j \in Int : i >= 1 /\ j <= Len(s) => SubSeq(s, i, j) \in Seq(Nat)
        <3> SUFFICES ASSUME NEW i \in Int, NEW j \in Int, i >= 1, j <= Len(s)
                     PROVE  SubSeq(s, i, j) \in Seq(Nat)
            OBVIOUS
        <3>1. \A k \in i .. j : s[k] \in Nat
            BY <2>1
        <3> QED
            BY <3>1, SubSeqProperties
    <2>3. ASSUME NEW k \in places
          PROVE  RemoveAt(s, k) \in Seq(Nat)
        <3>1. SubSeq(s, 1, k - 1) \in Seq(Nat) /\ SubSeq(s, k + 1, Len(s)) \in Seq(Nat)
            BY <2>1, <2>2
        <3> QED
            BY <3>1, ConcatProperties DEF RemoveAt
    <2>4. ASSUME NEW k \in places
          PROVE  InsertAt(s, k, s[k]) \in Seq(Nat)
        <3>1. SubSeq(s, 1, k - 1) \in Seq(Nat) /\ SubSeq(s, k, Len(s)) \in Seq(Nat)
            BY <2>1, <2>2
        <3>2. <<s[k]>> \in Seq(Nat)
            BY <2>1
        <3> QED
            BY <3>1, <3>2, ConcatProperties DEF InsertAt
    <2>5. ASSUME NEW k \in places, NEW c \in {Dash, 65, 71, 58}
          PROVE  [s EXCEPT ![k] = c] \in Seq(Nat)
        <3>1. k \in 1 .. Len(s) /\ c \in Nat
            BY <2>1 DEF Dash
        <3> QED
            BY <3>1, ExceptSeq
    <2>6. \/ \E k \in places : n = RemoveAt(s, k)
          \/ \E k \in places : n = InsertAt(s, k, s[k])
          \/ \E k \in places : \E c \in {Dash, 65, 71, 58} : n = [s EXCEPT ![k] = c]
        <3>1. \/ n \in {RemoveAt(s, k) : k \in places}
              \/ n \in {InsertAt(s, k, s[k]) : k \in places}
              \/ n \in {[s EXCEPT ![k] = c] : k \in places, c \in {Dash, 65, 71, 58}}
            BY DEF Neighbours
        <3> HIDE DEF places
        <3>2. CASE n \in {RemoveAt(s, k) : k \in places}
            BY <3>2, Zenon
        <3>3. CASE n \in {InsertAt(s, k, s[k]) : k \in places}
            BY <3>3, Zenon
        <3>4. CASE n \in {[s EXCEPT ![k] = c] : k \in places, c \in {Dash, 65, 71, 58}}
            BY <3>4
        <3> QED
            BY <3>1, <3>2, <3>3, <3>4
    <2> HIDE DEF places
    <2> QED
        BY <2>3, <2>4, <2>5, <2>6, Zenon
<1> QED
    BY <1>1, LenProperties

-----------------------------------------------------------------------------
(* Texts that are parsed *)

\* The two texts of an id are sequences of numbers.
LEMMA TextsAreTexts ==
    ASSUME NEW a \in Bytes16
    PROVE  /\ HexText(a) \in Seq(Nat) /\ Len(HexText(a)) = 32
           /\ DashText(a) \in Seq(Nat) /\ Len(DashText(a)) = 36
<1>1. HexText(a) \in Seq(Nat) /\ Len(HexText(a)) = 32
    <2>1. Chars(HexText(a), 32)
        BY HexTextType
    <2> QED
        BY <2>1, FcnSeq DEF Chars
<1>2. DashText(a) \in Seq(Nat) /\ Len(DashText(a)) = 36
    <2>1. Chars(DashText(a), 36)
        BY DashTextType
    <2> QED
        BY <2>1, FcnSeq DEF Chars
<1> QED
    BY <1>1, <1>2

-----------------------------------------------------------------------------
(* The threads *)

\* A thread that is done has the text of its id, the same whatever formatted it.
TextInv ==
    /\ build \in Builds
    /\ has_ssse3 \in BOOLEAN
    /\ build = "x86_ssse3" => has_ssse3
    /\ X86_FORMATTER \in {0, IF has_ssse3 THEN 2 ELSE 1}
    /\ X86_FORMATTER # 0 => build = "x86"
    /\ stage \in [Callers -> {"start", "detect", "done"}]
    /\ \A t \in Callers : stage[t] = "detect" => build = "x86"
    /\ arg \in [Callers -> Ids]
    /\ text = [t \in Callers |-> text[t]]
    /\ hex = [t \in Callers |-> hex[t]]
    /\ \A t \in Callers :
           text[t] = IF ~Done(t) THEN <<>>
                     ELSE IF hex[t] THEN HexText(arg[t]) ELSE DashText(arg[t])
    /\ ran = [t \in Callers |-> ran[t]]
    /\ \A t \in Callers : ran[t] = IF Done(t) THEN CpuFormatter ELSE "none"

\* The ids of a run are ids.
LEMMA IdsAreBytes == Ids \subseteq Bytes16
<1> SUFFICES ASSUME NEW a \in Ids PROVE a \in Bytes16
    OBVIOUS
<1>1. PICK f \in [Varying -> Bytes] :
          a = [k \in 1 .. 16 |-> IF k \in Varying THEN f[k] ELSE 122]
    BY DEF Ids
<1>2. ASSUME NEW k \in 1 .. 16
      PROVE  (IF k \in Varying THEN f[k] ELSE 122) \in 0 .. 255
    <2>1. CASE k \in Varying
        BY <2>1, TextAssumption
    <2>2. CASE k \notin Varying
        BY <2>2
    <2> QED
        BY <2>1, <2>2
<1> QED
    BY <1>1, <1>2 DEF Bytes16

\* Every body makes the same text.
LEMMA BodiesAgree ==
    ASSUME NEW a \in Bytes16, NEW simd \in BOOLEAN
    PROVE  /\ dashed_by(BodyFor(simd), a) = DashText(a)
           /\ hex_by(BodyFor(simd), a) = HexText(a)
<1>1. /\ format_uuid_hex_simd(a) = HexText(a)
      /\ format_uuid_hex_neon(a) = HexText(a)
      /\ format_uuid_hex_scalar(a) = HexText(a)
      /\ format_uuid_scalar(a) = DashText(a)
      /\ uuid_string_from_hex(HexText(a)) = DashText(a)
    BY FormattersAgree
<1>2. BodyFor(simd) \in {"ssse3", "neon", "scalar"}
    BY DEF BodyFor
<1>3. ASSUME NEW body \in {"ssse3", "neon", "scalar"}
      PROVE  dashed_by(body, a) = DashText(a) /\ hex_by(body, a) = HexText(a)
    BY <1>1 DEF dashed_by, hex_by
<1> QED
    BY <1>2, <1>3

\* Format returns the text of its argument, whatever the build and the CPU, and
\* is remembered by the body it ran.
LEMMA Formats ==
    ASSUME NEW t \in Callers, arg[t] \in Bytes16, NEW simd \in BOOLEAN, Format(t, simd)
    PROVE  /\ \E b \in BOOLEAN :
                  /\ hex' = [hex EXCEPT ![t] = b]
                  /\ text' = [text EXCEPT ![t] =
                                 IF b THEN HexText(arg[t]) ELSE DashText(arg[t])]
           /\ ran' = [ran EXCEPT ![t] = BodyFor(simd)]
<1>1. /\ dashed_by(BodyFor(simd), arg[t]) = DashText(arg[t])
      /\ hex_by(BodyFor(simd), arg[t]) = HexText(arg[t])
    BY BodiesAgree
<1> QED
    BY <1>1 DEF Format

\* The invariant holds before any thread has formatted, ...
LEMMA TextInvInit == TextInit => TextInv
BY DEF TextInit, TextInv, Done, Ids

\* A thread that formats becomes done.
LEMMA TextFormatted ==
    ASSUME TextInv, NEW t \in Callers, NEW simd \in BOOLEAN, Format(t, simd),
           BodyFor(simd) = CpuFormatter,
           stage' = [stage EXCEPT ![t] = "done"], UNCHANGED <<build, has_ssse3, arg>>,
           X86_FORMATTER' \in {0, IF has_ssse3 THEN 2 ELSE 1},
           X86_FORMATTER' # 0 => build = "x86"
    PROVE  TextInv'
<1>1. arg[t] \in Bytes16
    BY IdsAreBytes DEF TextInv
<1>2. PICK b \in BOOLEAN :
          /\ hex' = [hex EXCEPT ![t] = b]
          /\ text' = [text EXCEPT ![t] = IF b THEN HexText(arg[t]) ELSE DashText(arg[t])]
    BY <1>1, Formats
<1>3. hex = [u \in Callers |-> hex[u]] /\ text = [u \in Callers |-> text[u]]
    BY DEF TextInv
<1>4. /\ hex' = [u \in Callers |-> hex'[u]] /\ text' = [u \in Callers |-> text'[u]]
      /\ hex'[t] = b /\ text'[t] = IF b THEN HexText(arg[t]) ELSE DashText(arg[t])
      /\ \A u \in Callers \ {t} : hex'[u] = hex[u] /\ text'[u] = text[u]
    BY <1>2, <1>3
<1>5. /\ stage' \in [Callers -> {"start", "detect", "done"}]
      /\ stage'[t] = "done" /\ \A u \in Callers \ {t} : stage'[u] = stage[u]
    BY DEF TextInv
<1>6. ASSUME NEW u \in Callers
      PROVE  /\ text'[u] = IF ~Done(u)' THEN <<>>
                           ELSE IF hex'[u] THEN HexText(arg'[u]) ELSE DashText(arg'[u])
             /\ stage'[u] = "detect" => build' = "x86"
    <2>1. CASE u = t
        BY <1>4, <1>5, <2>1 DEF Done
    <2>2. CASE u # t
        BY <1>4, <1>5, <2>2 DEF TextInv, Done
    <2> QED
        BY <2>1, <2>2
<1>7. ran' = [ran EXCEPT ![t] = CpuFormatter] /\ ran = [u \in Callers |-> ran[u]]
    BY Formats, <1>1 DEF TextInv
<1>8. /\ ran' = [u \in Callers |-> ran'[u]]
      /\ ran'[t] = CpuFormatter
      /\ \A u \in Callers \ {t} : ran'[u] = ran[u]
    BY <1>7
<1>9. CpuFormatter' = CpuFormatter
    BY DEF CpuFormatter
<1>10. ASSUME NEW u \in Callers
       PROVE  ran'[u] = IF Done(u)' THEN CpuFormatter' ELSE "none"
    <2>1. CASE u = t
        BY <1>5, <1>8, <1>9, <2>1 DEF Done
    <2>2. CASE u # t
        BY <1>5, <1>8, <1>9, <2>2 DEF TextInv, Done
    <2> QED
        BY <2>1, <2>2
<1> QED
    BY <1>4, <1>5, <1>6, <1>8, <1>10 DEF TextInv

\* ... and every step keeps it.
LEMMA TextInvStep == TextInv /\ [TextNext]_text_vars => TextInv'
<1> SUFFICES ASSUME TextInv, [TextNext]_text_vars PROVE TextInv'
    OBVIOUS
<1>1. ASSUME NEW t \in Callers, FormatChosen(t)
      PROVE  TextInv'
    <2>1. \E simd \in BOOLEAN : Format(t, simd) /\ BodyFor(simd) = CpuFormatter
        <3>1. /\ build \in Builds /\ has_ssse3 \in BOOLEAN
              /\ build = "x86_ssse3" => has_ssse3
              /\ X86_FORMATTER \in {0, IF has_ssse3 THEN 2 ELSE 1}
            BY DEF TextInv
        <3>2. CASE build # "x86" /\ Format(t, build = "x86_ssse3")
            <4>1. BodyFor(build = "x86_ssse3") = CpuFormatter
                BY <3>1, <3>2 DEF BodyFor, CpuFormatter, Builds
            <4> QED
                BY <3>2, <4>1
        <3>3. CASE build = "x86" /\ X86_FORMATTER # 0 /\ Format(t, X86_FORMATTER = 2)
            <4>1. BodyFor(X86_FORMATTER = 2) = CpuFormatter
                BY <3>1, <3>3 DEF BodyFor, CpuFormatter
            <4> QED
                BY <3>3, <4>1
        <3> QED
            BY <1>1, <3>2, <3>3 DEF FormatChosen
    <2> QED
        BY <1>1, <2>1, TextFormatted DEF FormatChosen, TextInv
<1>2. ASSUME NEW t \in Callers, Undetected(t)
      PROVE  TextInv'
    <2>1. /\ stage' \in [Callers -> {"start", "detect", "done"}]
          /\ \A u \in Callers : Done(u)' <=> Done(u)
          /\ build = "x86"
        BY <1>2 DEF Undetected, TextInv, Done
    <2> QED
        BY <1>2, <2>1 DEF Undetected, TextInv, CpuFormatter
<1>3. ASSUME NEW t \in Callers, Detect(t)
      PROVE  TextInv'
    <2>1. build = "x86" /\ X86_FORMATTER' = IF has_ssse3 THEN 2 ELSE 1
        BY <1>3 DEF Detect, TextInv
    <2>2. \E simd \in BOOLEAN : Format(t, simd) /\ BodyFor(simd) = CpuFormatter
        BY <1>3, <2>1 DEF Detect, BodyFor, CpuFormatter, TextInv
    <2> QED
        BY <1>3, <2>1, <2>2, TextFormatted DEF Detect, TextInv
<1>4. CASE UNCHANGED text_vars
    BY <1>4 DEF text_vars, TextInv, Done, CpuFormatter
<1> QED
    BY <1>1, <1>2, <1>3, <1>4 DEF TextNext

\* The invariant holds whatever the build, the CPU and the order in which the
\* threads find the formatter undetected.
LEMMA TextAlways == TextSpec => []TextInv
BY TextInvInit, TextInvStep, PTL DEF TextSpec

\* What the invariant says of a thread that is done.
LEMMA TextOfDone ==
    ASSUME TextInv, NEW t \in Callers, Done(t)
    PROVE  /\ arg[t] \in Bytes16
           /\ text[t] = IF hex[t] THEN HexText(arg[t]) ELSE DashText(arg[t])
BY IdsAreBytes DEF TextInv

\* A thread that is done, whatever the others detected meanwhile, has run SSSE3
\* code where the CPU has it and nowhere else, NEON code on aarch64.
THEOREM FormatterTheorem == TextSpec => []FormatterOfCpu
<1>1. TextInv => FormatterOfCpu
    BY DEF TextInv, FormatterOfCpu
<1> QED
    BY <1>1, TextAlways, PTL

\* Every variable keeps its range, and the detected formatter is the CPU's, for
\* any number of threads.
THEOREM TextTypeCorrect == TextSpec => []TextTypeOK
<1>1. TextInv => TextTypeOK
    <2> SUFFICES ASSUME TextInv PROVE TextTypeOK
        OBVIOUS
    <2>1. ASSUME NEW t \in Callers
          PROVE  Len(text[t]) \in {0, IF hex[t] THEN 32 ELSE 36}
        <3>1. CASE Done(t)
            BY <3>1, TextOfDone, TextsAreTexts
        <3>2. CASE ~Done(t)
            BY <3>2, EmptySeq DEF TextInv
        <3> QED
            BY <3>1, <3>2
    <2>2. ran \in [Callers -> {"none", "scalar", "ssse3", "neon"}]
        <3>1. CpuFormatter \in {"scalar", "ssse3", "neon"}
            BY DEF TextInv, Builds, CpuFormatter
        <3>2. /\ ran = [t \in Callers |-> ran[t]]
              /\ \A t \in Callers : ran[t] \in {CpuFormatter, "none"}
            BY DEF TextInv
        <3> QED
            BY <3>1, <3>2
    <2> QED
        BY <2>1, <2>2 DEF TextInv, TextTypeOK
<1> QED
    BY <1>1, TextAlways, PTL

\* The texts of any two threads sort as their ids do, for all 2^128 ids and every
\* pair of formatters.
THEOREM OrderTheorem == TextSpec => []TextOrder
<1>1. TextInv => TextOrder
    <2> SUFFICES ASSUME TextInv, NEW t \in Callers, NEW u \in Callers,
                        Done(t), Done(u), hex[t] = hex[u]
                 PROVE  Before(text[t], text[u]) <=> Before(arg[t], arg[u])
        BY DEF TextOrder
    <2>1. arg[t] \in Bytes16 /\ arg[u] \in Bytes16
        BY TextOfDone
    <2>2. CASE hex[t]
        <3>1. text[t] = HexText(arg[t]) /\ text[u] = HexText(arg[u])
            BY <2>2, TextOfDone
        <3> QED
            BY <2>1, <3>1, HexSorts
    <2>3. CASE ~hex[t]
        <3>1. text[t] = DashText(arg[t]) /\ text[u] = DashText(arg[u])
            BY <2>3, TextOfDone
        <3> QED
            BY <2>1, <3>1, HexSorts, DashSorts
    <2> QED
        BY <2>2, <2>3
<1> QED
    BY <1>1, TextAlways, PTL

\* The parser reads back what any formatter of the crate wrote.
THEOREM RoundTripTheorem == TextSpec => []RoundTrip
<1>1. TextInv => RoundTrip
    <2> SUFFICES ASSUME TextInv, NEW t \in Callers, Done(t)
                 PROVE  parse_uuid_text(text[t]) = arg[t]
        BY DEF RoundTrip
    <2> QED
        BY TextOfDone, HexInverts, DashInverts
<1> QED
    BY <1>1, TextAlways, PTL

\* The parser tells a text from its neighbours.
THEOREM ParserTheorem == TextSpec => []ParserExact
<1>1. TextInv => ParserExact
    <2> SUFFICES ASSUME TextInv, NEW t \in Callers, Done(t), NEW s \in Neighbours(text[t])
                 PROVE  parse_uuid_text(s) # Failed <=>
                            LET digits == {k \in 1 .. Len(s) : s[k] # Dash}
                            IN  Cardinality(digits) = 32 /\ \A k \in digits : IsDigit(s[k])
        BY DEF ParserExact
    <2>1. text[t] \in Seq(Nat) /\ Len(text[t]) >= 9
        <3>1. CASE hex[t]
            <4>1. arg[t] \in Bytes16 /\ text[t] = HexText(arg[t])
                BY <3>1, TextOfDone
            <4>2. HexText(arg[t]) \in Seq(Nat) /\ Len(HexText(arg[t])) = 32
                BY <4>1, TextsAreTexts
            <4> QED
                BY <4>1, <4>2
        <3>2. CASE ~hex[t]
            <4>1. arg[t] \in Bytes16 /\ text[t] = DashText(arg[t])
                BY <3>2, TextOfDone
            <4>2. DashText(arg[t]) \in Seq(Nat) /\ Len(DashText(arg[t])) = 36
                BY <4>1, TextsAreTexts
            <4> QED
                BY <4>1, <4>2
        <3> QED
            BY <3>1, <3>2
    <2>2. Len(s) \in Nat /\ \A k \in 1 .. Len(s) : s[k] \in Nat
        BY <2>1, NeighboursAreTexts
    <2> QED
        BY <2>2, ParserAccepts DEF DigitPlaces
<1> QED
    BY <1>1, TextAlways, PTL

\* The getters of an id agree with what it was made of and with its text.
THEOREM ReaderTheorem == TextSpec => []ReaderSeesParts
<1>1. TextInv => ReaderSeesParts
    <2> SUFFICES ASSUME TextInv, NEW t \in Callers, Done(t)
                 PROVE  LET a == arg[t]
                            made == Remade(a)
                            dash == IF hex[t] THEN <<>> ELSE <<Dash>>
                        IN  /\ time(made) = time(a)
                            /\ version(made) = 7
                            /\ variant(made) = "specified in RFC 4122"
                            /\ made = a <=>
                                   version(a) = 7 /\ variant(a) = "specified in RFC 4122"
                            /\ text[t] = Groups(a, dash)
        BY Zenon DEF ReaderSeesParts, Remade, Groups
    <2>1. arg[t] \in Bytes16
        BY TextOfDone
    <2>2. text[t] = Groups(arg[t], IF hex[t] THEN <<>> ELSE <<Dash>>)
        BY <2>1, TextOfDone, HexGroups, DashGroups
    <2> QED
        BY <2>1, <2>2, PartsRead, Zenon
<1> QED
    BY <1>1, TextAlways, PTL
=============================================================================
