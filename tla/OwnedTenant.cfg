SPECIFICATION FairSpec
CONSTANTS
    Threads = {t1, t2}
    NoThread = NoThread
    MaxCalls = 4
INVARIANTS
    TypeOK
    InSyncUntilFailure
PROPERTY
    OperationsReturn
\* The calls are bounded.
CHECK_DEADLOCK FALSE
