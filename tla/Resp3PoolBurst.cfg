SPECIFICATION BurstSpec
CONSTANTS
    Threads = {t1, t2, t3, t4}
    Conns = {c1, c2, c3, c4}
    NoConn = NoConn
    MaxIdle = 2
    MaxTotal = 3
    IdleTimeout = 2
    MaxCalls = 6
INVARIANTS
    TypeOK
    Accounting
    TotalCap
    SocketCap
    NoSocketLeak
    Exclusive
    IdleOrdered
    NoLostWakeup
PROPERTIES
    ImplementsLease
    SweepComplete
    EveryAcquireReturns
    BudgetComesBack
\* The load is finite: the system stops when every call has been made.
CHECK_DEADLOCK FALSE
