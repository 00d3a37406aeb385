CONSTANTS
    a = a
    b = b
    c = c
    d = d
    t1 = t1
    t2 = t2
    m1 = m1
    m2 = m2
    Names <- MCNames
    Found = {a, b, c}
    Long = {c}
    Dsyms = {c}
    Stem <- MCStem
    Threads = {t1, t2}
    Modules = {m1, m2}
    FunctionsOf <- MCFunctionsOf
    Orders <- InOrders
    MainSyms <- NssMainSyms
    Programs <- NssPrograms
SPECIFICATION Spec
INVARIANT CachedPointersRight
CHECK_DEADLOCK FALSE
