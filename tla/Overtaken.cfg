CONSTANTS
    t1 = t1
    t2 = t2
    t3 = t3
    Threads = {t1, t2}
    Running = {t1, t2}
    Programs <- OvertakenPrograms
    Trees <- SoloTrees
    Values = {1, 2, 3, 4, 6, 8, 10}
    TREAP_NODES = 8
    CONT_CONTRIB = 2
    LOW_CONT_CONTRIB = 1
    HIGH_CONT = 100
    LOW_CONT = 0
    NoCall = NoCall
SPECIFICATION GrownSpec
INVARIANTS RangeComplete
