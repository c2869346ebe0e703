SPECIFICATION Spec
CONSTANTS
    Base = 8
    U16 = 1
    U32 = 2
    BINARY_MAGIC = 7
    JSON_MAGIC = 6
    InvalidUtf8 = 5
    ZSTD_MAX_DECOMPRESSED_SIZE = 10
    NoEnvelope = NoEnvelope
    Crc <- Horner
    Compress <- ToFrame
    IsFrame <- MCIsFrame
    Inflate <- FromFrame
    Endpoint <- X
    Credentials <- Password
    Ids = {1, 2}
    Inputs <- MCInputs
    TopKs = {0, 1, 2}
    OVERSAMPLE = 2
    MIN_CANDIDATES = 1
    NoDocument = NoDocument
    MaxText = 5
    Fragile = {1}
    MaxDamaged = 30
INVARIANTS
    TypeOK
    
    
    RefusalIsReal
