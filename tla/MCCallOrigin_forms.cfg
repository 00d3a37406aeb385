SPECIFICATION Spec
CHECK_DEADLOCK FALSE
CONSTANTS
    Nodes = {1, 2, 3, 4}
    Root = 1
    MaxDepth = 2
    Cases <- MCCases
INVARIANTS
    TypeOK
    ChainSound
    ChainComplete
    AsksWhenItMust
