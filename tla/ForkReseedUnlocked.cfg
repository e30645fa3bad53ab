\* The core crate in a program of two threads that forks whenever it likes.
CONSTANTS
    p1 = p1
    p2 = p2
    t1 = t1
    t2 = t2
    Procs = {p1, p2}
    Root = p1
    Threads = {t1, t2}
    Global = Global
    Asked = {"gen_id"}
    Gil = FALSE
    NoRng = NoRng
    MaxIds = 2
SPECIFICATION Spec
PROPERTIES
    ReseedReturns
\* The program may stop calling.
CHECK_DEADLOCK FALSE
