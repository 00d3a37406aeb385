CONSTANTS
    Funcs = {f1, f2, start}
    StartMain = {start}
    Placeholders = {ph}
    OrMasks = {or}
    AndMasks = {and}
    Links <- BothLinks
SPECIFICATION Spec
INVARIANTS
    TypeOK
    SlotsExact
    OrderFree
    CallsReachTheirSymbol
    AddressesReachTheirSymbol
    MaskOffsetsRight
    OneSlotPerSymbol
CHECK_DEADLOCK FALSE
