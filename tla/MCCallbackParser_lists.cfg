SPECIFICATION Spec
CHECK_DEADLOCK FALSE
CONSTANTS
    libc = libc
    crypto = crypto
    NoLib = NoLib
    Libs <- MCLibs
    TagOf <- MCTagOf
    Exports <- MCExports
    Own <- MCOwn
    Copies = {"bye"}
    FakePlt = {"free"}
    PltSec = {"free", "digest", "wrap"}
    Reachable <- MCReachable
    Inputs <- MCInputs
    Init_ <- MCInit_
    Fini <- MCFini
INVARIANTS
    TypeOK
    CallbacksListed
    NothingElseListed
    StopsForCause
