\* Two threads, one object to cache, one to replace it and one to spare, and
\* variables to hold each of them, one of them twice.
CONSTANTS
    t1 = t1
    t2 = t2
    o1 = o1
    o2 = o2
    o3 = o3
    v1 = v1
    v2 = v2
    v3 = v3
    v4 = v4
    Threads = {t1, t2}
    Objects = {o1, o2, o3}
    Variables = {v1, v2, v3, v4}
    None = None
    MaxIds = 4
SPECIFICATION Spec
INVARIANTS
    TypeOK
    CountsExact
PROPERTIES
    HeldNeverChanges
\* Every object and variable may be in use, and no id left to draw.
CHECK_DEADLOCK FALSE
