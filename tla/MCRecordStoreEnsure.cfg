SPECIFICATION Spec
CONSTANTS
    w1 = w1
    w2 = w2
    a = a
    b = b
    Writers = {w1, w2}
    Readers = {}
    Ids = {a, b}
    Writes <- SplitWrites
    Dim <- MixedDim
    MaxInserts = 2
    MaxDrops = 0
    NoIndex = NoIndex
PROPERTY
    EnsuredIndex
CHECK_DEADLOCK FALSE
