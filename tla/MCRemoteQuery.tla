--------------------------- MODULE MCRemoteQuery ---------------------------
\* An instance of RemoteQuery for TLC.
EXTENDS RemoteQuery

\* A checksum of four bytes that no change of one byte leaves as it is.
Horner(s) ==
    LET sum[i \in 0 .. Len(s)] ==
          IF i = 0 THEN 1 ELSE (31 * sum[i - 1] + s[i]) % Limit[4]
    IN  sum[Len(s)]

\* A frame: a header and either the data or, if it is a repetition of one byte,
\* the length and the byte.
FrameHead == 4
Repeats(p) == p # <<>> /\ \A i \in 1 .. Len(p) : p[i] = p[1]
ToFrame(p) ==
    <<FrameHead>> \o IF Repeats(p) THEN <<1>> \o Digits(Len(p), 4) \o <<p[1]>>
                                   ELSE <<0>> \o p
MCIsFrame(f) ==
    /\ Len(f) >= 2 /\ f[1] = FrameHead
    /\ f[2] = 0 \/ (f[2] = 1 /\ Len(f) = 7)
FromFrame(f) ==
    IF f[2] = 0 THEN SubSeq(f, 3, Len(f)) ELSE [i \in 1 .. Number(f, 3, 4) |-> f[7]]

X == <<"x">>
Password == <<X, <<"@">>>>

Envelope(shareable, tags, payload) ==
    [shareable |-> shareable, tags |-> tags, payload |-> payload]
Copies(n, v) == [i \in 1 .. n |-> v]

\* The first record takes every form of every kind of envelope: empty, with tags,
\* compressible, and with too many tags, too long a tag or too long a payload for
\* the reader or the length field.
All ==
    {Envelope(TRUE, <<>>, <<>>),
     Envelope(FALSE, <<<<1>>, <<>>>>, <<1, 2>>),
     Envelope(TRUE, <<<<1, 2>>>>, Copies(8, 3)),
     Envelope(TRUE, Copies(Limit[U16], <<>>), <<1>>),
     Envelope(TRUE, <<Copies(Limit[U16], 1)>>, <<1>>),
     Envelope(TRUE, <<>>, Copies(ZSTD_MAX_DECOMPRESSED_SIZE + 1, 1)),
     Envelope(TRUE, <<>>, Copies(Limit[U32] + 1, 1))}
Plain == <<Envelope(TRUE, <<<<1>>>>, <<2>>), "encode_binary">>
MCInputs == [id \in Ids |-> IF id = 1 THEN All \X Encoders ELSE {Plain}]
=============================================================================
