CONSTANTS
    LIBC = LIBC
    CRYPTO = CRYPTO
    LSSL = LSSL
    e1 = e1
    e2 = e2
    MainFn = MainFn
    Tags <- MCTags
    Libc = LIBC
    Entries <- MCEntries
    Files <- MCFiles
    TagOf <- MCTagOf
    OffsetOf <- MCOffsetOf
    LoadAddr <- MCLoadAddr
    TagValue <- MCTagValue
SPECIFICATION LinkSpec
INVARIANT TransfersAlwaysClosed
CHECK_DEADLOCK FALSE
