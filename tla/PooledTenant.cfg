SPECIFICATION TenantFairSpec
CONSTANTS
    Threads = {t1, t2, t3}
    Conns = {c1, c2}
    NoConn = NoConn
    MaxIdle = 1
    MaxTotal = 2
    IdleTimeout = 1
INVARIANTS
    TenantTypeOK
    CleanIdle
    ReplyIsMine
PROPERTY
    BorrowsEnd
