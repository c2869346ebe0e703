---------------------------- MODULE EnvelopeCodec ----------------------------
(***************************************************************************)
(* RecordEnvelope (envelope.rs): the binary form byte by byte, with bytes  *)
(* of Base values, one of them for a u16 and two for a u32, so that their  *)
(* limits are near; and the JSON form, of which only what serde_json makes *)
(* of it matters.  CRC32C, zstd and serde_json are external.               *)
(*                                                                         *)
(* A document is what a server stores: its bytes and what serde_json reads *)
(* from them.  The bytes of a JSON document are abstracted to the first.   *)
(***************************************************************************)
EXTENDS Integers, Sequences

CONSTANTS
    Base,               \* values of a byte: 256 in the code
    U16, U32,           \* bytes of a count or tag length, and of a payload length
    BINARY_MAGIC,
    JSON_MAGIC,
    InvalidUtf8,        \* a byte that no UTF-8 text has
    ZSTD_MAX_DECOMPRESSED_SIZE,
    NoEnvelope,
    Crc(_),             \* crc32c, a number of four bytes
    Compress(_),        \* zstd: the frame of some bytes,
    IsFrame(_),         \* whether bytes are a frame,
    Inflate(_)          \* and what a frame holds

\* One bit of the flags is reserved at least, and a first byte tells the forms
\* apart.
ASSUME CodecAssumption ==
    /\ Base \in Nat /\ Base > 4 /\ Base % 4 = 0
    /\ U16 \in Nat \ {0} /\ U32 \in Nat \ {0}
    /\ {BINARY_MAGIC, JSON_MAGIC, InvalidUtf8} \subseteq 0 .. Base - 1
    /\ BINARY_MAGIC # JSON_MAGIC
    /\ ZSTD_MAX_DECOMPRESSED_SIZE \in Nat

Document(bytes, json) == [bytes |-> bytes, json |-> json]

-----------------------------------------------------------------------------
(***************************************************************************)
(* Integers                                                                *)
(***************************************************************************)
Bytes == 0 .. Base - 1

\* How many numbers w bytes can hold.
Limit[w \in Nat] == IF w = 0 THEN 1 ELSE Base * Limit[w - 1]

\* The w bytes of n, low byte first; what does not fit is cut off.
Digits(n, w) == [i \in 1 .. w |-> (n \div Limit[i - 1]) % Base]

\* The number in the w bytes from position at of s on.
Sums(s, at, w) ==
    LET sum[i \in 0 .. w] == IF i = 0 THEN 0 ELSE sum[i - 1] + s[at + i - 1] * Limit[i - 1]
    IN  sum
Number(s, at, w) == Sums(s, at, w)[w]

-----------------------------------------------------------------------------
(***************************************************************************)
(* Encoding                                                                *)
(***************************************************************************)
EncodeTag(tag) == Digits(Len(tag), U16) \o tag

\* The first i tags.
CodedTags(tags) ==
    LET coded[i \in 0 .. Len(tags)] ==
          IF i = 0 THEN <<>> ELSE coded[i - 1] \o EncodeTag(tags[i])
    IN  coded
EncodeTags(tags) == CodedTags(tags)[Len(tags)]

\* encode_binary_inner once the payload is compressed or not; a compressor
\* that fails gives what encode_binary does.
StoredPayload(env, zstd) == IF zstd THEN Compress(env.payload) ELSE env.payload
Flags(env, zstd) == (IF env.shareable THEN 1 ELSE 0) + (IF zstd THEN 2 ELSE 0)
Body(env, zstd) ==
    <<BINARY_MAGIC, Flags(env, zstd)>>
    \o Digits(Len(env.tags), U16) \o EncodeTags(env.tags)
    \o Digits(Len(StoredPayload(env, zstd)), U32) \o StoredPayload(env, zstd)
EncodeInner(env, zstd) == Body(env, zstd) \o Digits(Crc(Body(env, zstd)), 4)

EncodeSmallest(env) ==
    LET plain == EncodeInner(env, FALSE)
        compressed == EncodeInner(env, TRUE)
    IN  IF Len(compressed) < Len(plain) THEN compressed ELSE plain

Encoders == {"encode", "encode_binary", "encode_binary_zstd", "encode_binary_smallest"}

Encode(env, encoder) ==
    CASE encoder = "encode" -> Document(<<JSON_MAGIC>>, env)
      [] encoder = "encode_binary" -> Document(EncodeInner(env, FALSE), NoEnvelope)
      [] encoder = "encode_binary_zstd" -> Document(EncodeInner(env, TRUE), NoEnvelope)
      [] encoder = "encode_binary_smallest" -> Document(EncodeSmallest(env), NoEnvelope)

-----------------------------------------------------------------------------
(***************************************************************************)
(* Decoding: an error or an envelope                                       *)
(***************************************************************************)
Err(e) == [err |-> e, env |-> NoEnvelope]
Decoded(env) == [err |-> "none", env |-> env]

\* Mutant: the last byte of the buffer is out of reach.
Ensure_OffByOne(s, pos, n) == pos + n < Len(s)

\* Cursor::ensure with pos bytes behind the cursor.
Ensure(s, pos, n) == pos + n <= Len(s)

\* The next tag, and the cursor after it.
ReadTag(s, c) ==
    LET to == c.pos + U16 + Number(s, c.pos + 1, U16)
        tag == SubSeq(s, c.pos + U16 + 1, to)
    IN  IF c.err # "none" THEN c
        ELSE IF ~ Ensure(s, c.pos, U16) THEN [c EXCEPT !.err = "Truncated"]
        ELSE IF ~ Ensure(s, to, 0) THEN [c EXCEPT !.err = "Truncated"]
        ELSE IF \E i \in 1 .. Len(tag) : tag[i] = InvalidUtf8 THEN [c EXCEPT !.err = "TagNotUtf8"]
        ELSE [c EXCEPT !.pos = to, !.tags = Append(@, tag)]

\* The cursor after each of the tags.
Cursors(s, count) ==
    LET after[i \in 0 .. count] ==
          IF i = 0 THEN [pos |-> 2 + U16, tags |-> <<>>, err |-> "none"]
                   ELSE ReadTag(s, after[i - 1])
    IN  after
ReadTags(s, count) == Cursors(s, count)[count]

\* Mutant: the checksum is read and not compared.
CrcMatches_Always(s, end) == TRUE

\* The checksum covers all that precedes it, the payload as it is stored.
CrcMatches(s, end) == Number(s, end + 1, 4) = Crc(SubSeq(s, 1, end))

\* The payload is inflated after the checksum has been found right.
DecodePayload(raw, zstd, shareable, tags) ==
    IF ~ zstd
    THEN Decoded([shareable |-> shareable, tags |-> tags, payload |-> raw])
    ELSE IF ~ IsFrame(raw) \/ Len(Inflate(raw)) > ZSTD_MAX_DECOMPRESSED_SIZE
    THEN Err("ZstdDecompress")
    ELSE Decoded([shareable |-> shareable, tags |-> tags, payload |-> Inflate(raw)])

\* decode_binary from the payload's length on; whatever follows the checksum
\* is not looked at.
DecodeRest(s, c) ==
    LET head == c.pos + U32
        end == head + Number(s, c.pos + 1, U32)
        flags == s[2]
    IN  IF c.err # "none" THEN Err(c.err)
        ELSE IF ~ Ensure(s, c.pos, U32) THEN Err("Truncated")
        ELSE IF ~ Ensure(s, end, 4) THEN Err("Truncated")
        ELSE IF ~ CrcMatches(s, end) THEN Err("CrcMismatch")
        ELSE DecodePayload(SubSeq(s, head + 1, end), (flags \div 2) % 2 = 1,
                           flags % 2 = 1, c.tags)

DecodeBinary(s) ==
    IF s = <<>> THEN Err("Truncated")
    ELSE IF s[1] # BINARY_MAGIC THEN Err("InvalidMagic")
    ELSE IF Len(s) = 1 THEN Err("Truncated")
    ELSE IF s[2] >= 4 THEN Err("ReservedFlagsSet")
    ELSE IF ~ Ensure(s, 2, U16) THEN Err("Truncated")
    ELSE DecodeRest(s, ReadTags(s, Number(s, 3, U16)))

\* The first byte decides between the two forms.
Decode(doc) ==
    IF doc.bytes # <<>> /\ doc.bytes[1] = JSON_MAGIC
    THEN IF doc.json = NoEnvelope THEN Err("Json") ELSE Decoded(doc.json)
    ELSE DecodeBinary(doc.bytes)
=============================================================================
