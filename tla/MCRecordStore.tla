--------------------------- MODULE MCRecordStore ---------------------------
\* Instances of RecordStore for TLC.
EXTENDS RecordStore, TLC

CONSTANTS w1, w2, a, b

\* Each writer has an id of its own, at the same dimension.
SplitWrites == w1 :> {a} @@ w2 :> {b}
SameDim == w1 :> 2 @@ w2 :> 2
MixedDim == w1 :> 2 @@ w2 :> 3
=============================================================================
