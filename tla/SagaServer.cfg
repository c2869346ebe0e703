SPECIFICATION FairSpec
CONSTANTS
    Callers = {c1}
    Names = {n1, n2}
    Snapshot = Snapshot
    NoFile = NoFile
    NoCaller = NoCaller
    MaxChanges = 4
INVARIANTS
    TypeOK
    AnswersCurrent
    
    FailsOnRemovalOnly
PROPERTIES
    CallsReturn
    ServerStops
