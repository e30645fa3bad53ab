----------------------------- MODULE UuidCache -----------------------------
(***************************************************************************)
(* src/python/src/lib.rs on builds with a GIL: uuid7 keeps the UUID object *)
(* it made last and, when nobody else refers to it any more, returns it    *)
(* again with a new id written into it.  Python code sees an immutable     *)
(* object, so the write must never be seen.                                *)
(*                                                                         *)
(* A call is a sequence of steps that holds the GIL from first to last;    *)
(* between two calls Python code may copy references and drop them, in     *)
(* variables that all threads share.  uuid7, uuid7_with_count and          *)
(* SequentialGenerator.next_uuid differ only in where the id comes from.   *)
(***************************************************************************)
EXTENDS Integers, FiniteSets

CONSTANTS
    Threads,
    Objects,    \* UUID objects: places on the heap and the free list
    Variables,  \* what Python code keeps references in: names, frames, lists
    None,       \* no object, or no thread
    MaxIds      \* bound: ids drawn

ASSUME CacheAssumption ==
    /\ None \notin Threads \cup Objects
    /\ IsFiniteSet(Variables)
    /\ {"cache", "new", "previous"} \cap Variables = {}
    /\ MaxIds \in Nat

VARIABLES
    refcnt,    \* Py_REFCNT of each object; 0: free
    content,   \* IdCell of each object
    cache,     \* UUID_CACHE
    gil,       \* the thread inside a call
    pc,        \* where it is
    id,        \* local: the id of the call
    new,       \* local: the object the call makes
    previous,  \* local: the cache entry it replaces
    held,      \* the object each variable refers to, or None
    drawn      \* ids drawn so far; each is the number of its draw

locals == <<id, new, previous>>
vars == <<refcnt, content, cache, gil, pc, locals, held, drawn>>

Init ==
    /\ refcnt = [o \in Objects |-> 0]
    /\ content = [o \in Objects |-> 0]
    /\ cache = None
    /\ gil = None
    /\ pc = "idle"
    /\ id = 0
    /\ new = None
    /\ previous = None
    /\ held = [v \in Variables |-> None]
    /\ drawn = 0

-----------------------------------------------------------------------------
(* uuid7_with_cache_id *)

\* Mutant of DrawId: the GIL is released after the draw.
DrawIdWithoutGil(t) ==
    /\ gil = None
    /\ pc = "idle"
    /\ drawn < MaxIds
    /\ drawn' = drawn + 1
    /\ id' = drawn'
    /\ pc' = "drawn"
    /\ UNCHANGED <<refcnt, content, cache, gil, new, previous, held>>

DrawId(t) ==
    /\ gil = None
    /\ drawn < MaxIds
    /\ gil' = t
    /\ drawn' = drawn + 1
    /\ id' = drawn'
    /\ pc' = "drawn"
    /\ UNCHANGED <<refcnt, content, cache, new, previous, held>>

\* Mutant of sole_owner: somebody who holds one reference is overlooked.
sole_owner_or_one_more == cache # None /\ refcnt[cache] <= 2

\* Py_REFCNT(cached) == 1
sole_owner == cache # None /\ refcnt[cache] = 1

FindSoleOwner(t) ==
    /\ gil = t
    /\ pc = "drawn"
    /\ sole_owner
    /\ pc' = "sole"
    /\ UNCHANGED <<refcnt, content, cache, gil, locals, held, drawn>>

\* The caller puts what it is returned where no other reference is.
Store(o) == \E v \in Variables : held[v] = None /\ held' = [held EXCEPT ![v] = o]

\* The cached object gets the id and the caller a reference to it.
Reuse(t) ==
    /\ gil = t
    /\ pc = "sole"
    /\ content' = [content EXCEPT ![cache] = id]
    /\ refcnt' = [refcnt EXCEPT ![cache] = @ + 1]
    /\ Store(cache)
    /\ pc' = "idle"
    /\ gil' = None
    /\ UNCHANGED <<cache, locals, drawn>>

Allocate(t) ==
    /\ gil = t
    /\ pc = "drawn"
    /\ ~sole_owner
    /\ \E o \in Objects :
           /\ refcnt[o] = 0
           /\ refcnt' = [refcnt EXCEPT ![o] = 1]
           /\ content' = [content EXCEPT ![o] = id]
           /\ new' = o
    /\ pc' = "new"
    /\ UNCHANGED <<cache, gil, id, previous, held, drawn>>

\* Mutant of Replace: the cache takes the caller's reference for its own.
ReplaceUncounted(t) ==
    /\ gil = t
    /\ pc = "new"
    /\ previous' = cache
    /\ cache' = new
    /\ pc' = "replaced"
    /\ UNCHANGED <<refcnt, content, gil, id, new, held, drawn>>

\* UUID_CACHE.replace(new.clone_ref(py))
Replace(t) ==
    /\ gil = t
    /\ pc = "new"
    /\ previous' = cache
    /\ cache' = new
    /\ refcnt' = [refcnt EXCEPT ![new] = @ + 1]
    /\ pc' = "replaced"
    /\ UNCHANGED <<content, gil, id, new, held, drawn>>

\* drop(previous), and the caller takes over the reference in `new`.
ReturnNew(t) ==
    /\ gil = t
    /\ pc = "replaced"
    /\ refcnt' = [o \in Objects |-> IF o = previous THEN refcnt[o] - 1 ELSE refcnt[o]]
    /\ Store(new)
    /\ new' = None
    /\ previous' = None
    /\ pc' = "idle"
    /\ gil' = None
    /\ UNCHANGED <<content, cache, id, drawn>>

reset_uuid_cache ==
    /\ gil = None
    /\ cache # None
    /\ refcnt' = [refcnt EXCEPT ![cache] = @ - 1]
    /\ cache' = None
    /\ UNCHANGED <<content, gil, pc, locals, held, drawn>>

-----------------------------------------------------------------------------
(* Python code between the calls *)

\* UUID(value): an object of its own, outside the cache, with an id seen before.
py_new ==
    /\ gil = None
    /\ \E o \in Objects, value \in 1 .. drawn :
           /\ refcnt[o] = 0
           /\ refcnt' = [refcnt EXCEPT ![o] = 1]
           /\ content' = [content EXCEPT ![o] = value]
           /\ Store(o)
    /\ UNCHANGED <<cache, gil, pc, locals, drawn>>

CopyReference(v) ==
    /\ gil = None
    /\ held[v] # None
    /\ Store(held[v])
    /\ refcnt' = [refcnt EXCEPT ![held[v]] = @ + 1]
    /\ UNCHANGED <<content, cache, gil, pc, locals, drawn>>

DropReference(v) ==
    /\ gil = None
    /\ held[v] # None
    /\ held' = [held EXCEPT ![v] = None]
    /\ refcnt' = [refcnt EXCEPT ![held[v]] = @ - 1]
    /\ UNCHANGED <<content, cache, gil, pc, locals, drawn>>

uuid7(t) ==
    \/ DrawId(t)
    \/ FindSoleOwner(t)
    \/ Reuse(t)
    \/ Allocate(t)
    \/ Replace(t)
    \/ ReturnNew(t)

Next ==
    \/ reset_uuid_cache
    \/ \E t \in Threads : uuid7(t)
    \/ py_new
    \/ \E v \in Variables : CopyReference(v) \/ DropReference(v)

Spec == Init /\ [][Next]_vars

-----------------------------------------------------------------------------
(* Properties *)

\* Every variable keeps its range, and whoever is inside a call has the GIL.
TypeOK ==
    /\ refcnt \in [Objects -> Nat]
    /\ content \in [Objects -> 0 .. drawn]
    /\ cache \in Objects \cup {None}
    /\ gil \in Threads \cup {None}
    /\ pc \in {"idle", "drawn", "sole", "new", "replaced"}
    /\ id \in 0 .. drawn
    /\ {new, previous} \subseteq Objects \cup {None}
    /\ held \in [Variables -> Objects \cup {None}]
    /\ drawn \in 0 .. MaxIds
    /\ gil = None <=> pc = "idle"

\* Where references are kept, and the references to o there.
Places == Variables \cup {"cache", "new", "previous"}

In(place) ==
    CASE place = "cache"    -> cache
      [] place = "new"      -> new
      [] place = "previous" -> previous
      [] OTHER              -> held[place]

References(o) == {place \in Places : In(place) = o}

\* Reference counts are exact, so that no object is freed while it is referred
\* to, in the cache or elsewhere, and none is leaked.
CountsExact == \A o \in Objects : refcnt[o] = Cardinality(References(o))

\* A UUID is immutable to Python: as long as a variable refers to an object,
\* the id in it is the one it was returned with.
HeldNeverChanges ==
    [][\A v \in Variables :
           held[v] # None /\ held'[v] = held[v] =>
               content'[held[v]] = content[held[v]]]_vars
=============================================================================
