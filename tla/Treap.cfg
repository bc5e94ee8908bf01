CONSTANTS
    TREAP_NODES = 3
    Values <- ThreeValues
    Weights = {0, 1}
    MaxSize = 5
    NegInfinity <- Below
SPECIFICATION FairSpec
INVARIANTS TreapsAreTrees ReadsAgree
PROPERTIES KeepsContents HeapKept OperationsEnd
