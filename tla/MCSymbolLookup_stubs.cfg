CONSTANTS
    a = a
    b = b
    c = c
    d = d
    t1 = t1
    t2 = t2
    m1 = m1
    m2 = m2
    Names <- MCNames
    Found = {a, b, c}
    Long = {c}
    Dsyms = {c}
    Stem <- MCStem
    Threads = {t1, t2}
    Modules = {m1, m2}
    FunctionsOf <- MCFunctionsOf
    Orders <- MCOrders
    MainSyms <- MCMainSyms
    Programs <- MCPrograms
SPECIFICATION Spec
INVARIANTS TypeOK ArraysAgree LookupsRight ReferencesBalance
PROPERTIES LoadedIsFinal LookupsEnd
CHECK_DEADLOCK FALSE
