CONSTANTS
    t1 = t1
    t2 = t2
    t3 = t3
    d1 = d1
    d2 = d2
    d3 = d3
    Tags <- MCTags
    Fini = "FINI"
    Targets <- MCTargets
    Dsos <- MCDsos
    DsoOf <- MCDsoOf
    Width = 2
    AddrOf <- MCAddrOf
    MaskOf <- MCMaskOf
    PadOnly <- MCPadOnly
    Layouts <- EmptyLayouts
SPECIFICATION CallSpec
INVARIANT JumpsToOwnEntries
CHECK_DEADLOCK FALSE
