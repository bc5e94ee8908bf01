CONSTANTS
    t1 = t1
    t2 = t2
    t3 = t3
    Threads = {t1, t2}
    Running = {t1, t2}
    Programs <- RoundedPrograms
    Trees <- OddTrees
    Values <- OddValues
    TREAP_NODES = 8
    CONT_CONTRIB = 3
    LOW_CONT_CONTRIB = 1
    HIGH_CONT = 1
    LOW_CONT = 0
    NoCall = NoCall
SPECIFICATION GrownSpec
INVARIANTS InsertedIsFound
