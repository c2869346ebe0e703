--------------------------- MODULE MCSagaTransfer ---------------------------
\* Instances of SagaTransfer for TLC.
EXTENDS SagaTransfer, TLC

CONSTANTS f1, f2, p1, p2

Apart == f1 :> p1 @@ f2 :> p2
Together == f1 :> p1 @@ f2 :> p1
=============================================================================
