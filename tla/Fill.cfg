CONSTANTS
    t1 = t1
    t2 = t2
    t3 = t3
    Trees <- FillTrees
    Values = {1, 2, 3, 4, 6, 8, 10}
    Threads = {t1, t2}
    Programs <- FillPrograms
    TREAP_NODES = 2
    CONT_CONTRIB = 2
    LOW_CONT_CONTRIB = 1
    HIGH_CONT = 1
    LOW_CONT <- Never
    NoCall = NoCall
    Running = {t1, t2}
SPECIFICATION GrownSpec
INVARIANTS Capacity RangeComplete
PROPERTIES Linearizable
