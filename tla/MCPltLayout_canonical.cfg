CONSTANTS
    Funcs = {f1, f2, start}
    StartMain = {start}
    Placeholders = {}
    OrMasks = {or}
    AndMasks = {}
    Links <- ExeLinks
SPECIFICATION Spec
INVARIANT CanonicalIsOwnStub
CHECK_DEADLOCK FALSE
