SPECIFICATION Spec
CONSTANTS
    w1 = w1
    w2 = w2
    a = a
    b = b
    Writers = {w1, w2}
    Readers = {r1}
    Ids = {a, b}
    Writes <- SplitWrites
    Dim <- SameDim
    MaxInserts = 3
    MaxDrops = 1
    NoIndex = NoIndex
INVARIANTS
    TypeOK
    
    
\* The inserts are bounded.
CHECK_DEADLOCK FALSE
