\* The Python module on a GIL build: a process of two threads and its child.
CONSTANTS
    p1 = p1
    p2 = p2
    t1 = t1
    t2 = t2
    Procs = {p1, p2}
    Root = p1
    Threads = {t1, t2}
    Global = Global
    Asked = {"gen_id", "next_id"}
    Gil = TRUE
    NoRng = NoRng
    MaxIds = 4
SPECIFICATION Spec
INVARIANTS
    TypeOK
    NoReplay
    MeasuringHasOwner
PROPERTIES
    ReseedReturns
\* The program may stop calling.
CHECK_DEADLOCK FALSE
