CONSTANTS
    t1 = t1
    t2 = t2
    Threads = {t1, t2}
    TREAP_NODES = 4
    INT_MAX = 2147483647
    Values <- TreeValues
    Programs <- TreePrograms
    Trees <- SmallTrees
    Preallocations = {3, 4, 5, 6, 50}
    NoCall = NoCall
SPECIFICATION HSpec
INVARIANTS TypeOK RangeAtomic ValuesInPlace NodesAreReachable ThrowsForAReason
PROPERTIES Linearizable CallsEnd
