CONSTANTS
    t1 = t1
    t2 = t2
    t3 = t3
    Trees <- GrownTrees
    Values = {1, 2, 3, 4, 6, 8, 10}
    Threads = {t1, t2}
    Programs <- JoinPrograms
    TREAP_NODES = 8
    CONT_CONTRIB = 2
    LOW_CONT_CONTRIB = 1
    HIGH_CONT = 1
    LOW_CONT = 0
    NoCall = NoCall
    Running = {t1}
SPECIFICATION GrownSpec
INVARIANTS TypeOK WellFormed Placement SingleSlot JoinHoldsRoutes JoinHoldsBases DoneIsSpliced LocksAreReleased SplitsFit RangeSound RoutesAreHeld SlotsAreKept BasesAreHeld ValuesAreKept
PROPERTIES Linearizable JoinOutcomeIsFinal NodesNeverReturn LockedBasesStay CallsReturn
