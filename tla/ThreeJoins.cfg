CONSTANTS
    t1 = t1
    t2 = t2
    t3 = t3
    Trees <- RightTrees
    Values = {1, 2, 3, 4, 6, 8, 10}
    Threads = {t1, t2, t3}
    Programs <- ThreeJoins
    TREAP_NODES = 4
    CONT_CONTRIB = 2
    LOW_CONT_CONTRIB = 1
    HIGH_CONT = 100
    LOW_CONT = 0
    NoCall = NoCall
    Running = {t1, t2, t3}
SPECIFICATION GrownSpec
INVARIANTS Capacity JoinHoldsBases
PROPERTIES Linearizable
