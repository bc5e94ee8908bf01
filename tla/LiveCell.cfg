CONSTANTS
    t1 = t1
    t2 = t2
    t3 = t3
    r1 = r1
    r2 = r2
    Threads = {t1, t2}
    Resources = {r1, r2}
    BUFFER_SIZE = 4
    INDICES = 32
    Programs <- LiveCellPrograms
    Starts = {0}
SPECIFICATION Spec
INVARIANTS Exclusive
