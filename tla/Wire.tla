-------------------------------- MODULE Wire --------------------------------
(***************************************************************************)
(* The protobuf codecs: the generated OTLP messages (internal/otlpvt) and  *)
(* the hand-written remote-write messages (internal/prw/proto.go).  Both   *)
(* unroll the same three walks over the tables of WireSchemas: size,       *)
(* marshal and unmarshal; the walks are written here once.  Bytes are      *)
(* numbers 0 .. 255 with the real groups of seven bits and the real eight  *)
(* bytes of a fixed64; numbers stay below 2^31, so that the upper half of  *)
(* a fixed64 is zero.  A message is a function from the names of its       *)
(* fields; a nil pointer and an unset oneof are the empty sequence.        *)
(*                                                                         *)
(* A behaviour encodes one message, may pass it through a proxy built from *)
(* an older schema, and decodes what arrives.                              *)
(***************************************************************************)
EXTENDS Integers, Sequences, TLC
LOCAL INSTANCE SequencesExt
LOCAL INSTANCE FiniteSetsExt

CONSTANTS
    Schemas,    \* the fields of each message type: the tables of WireSchemas
    OtlpTypes,  \* the types that are OTLP messages
    Depth       \* how deep the messages are filled

VARIABLES
    type,       \* the message type
    msg,        \* the message sent
    older,      \* <<>>, or the type and the number of the field that the proxy does not know
    data,       \* the bytes on the wire
    stage,      \* sent | encoded | relayed | decoded
    back        \* what the receiver decoded

wireVars == <<type, msg, older, data, stage, back>>

IsOtlp(t) == t \in OtlpTypes

\* The fields of a message type in a build that does not know the field old.
Fields(t, old) == SelectSeq(Schemas[t], LAMBDA f : <<t, f.num>> # old)

WireType(kind) == CASE kind \in {"varint", "zigzag", "bool"} -> 0
                    [] kind = "fixed64" -> 1
                    [] OTHER -> 2

Zero(kind) == CASE kind = "bool" -> FALSE
                [] kind = "bytes" -> <<>>
                [] OTHER -> 0

Empty(t) ==
    LET own == [n \in {f.in : f \in ToSet(Schemas[t])} |->
                    LET f == CHOOSE g \in ToSet(Schemas[t]) : g.in = n
                    IN IF f.shape \in {"plain", "always"} THEN Zero(f.kind) ELSE <<>>]
    IN IF IsOtlp(t) THEN own @@ [unknownFields |-> <<>>] ELSE own

-----------------------------------------------------------------------------
(* Numbers *)

RECURSIVE appendVarint(_)
appendVarint(v) == IF v < 128 THEN <<v>> ELSE <<128 + (v % 128)>> \o appendVarint(v \div 128)

RECURSIVE SizeOfVarint(_)
SizeOfVarint(v) == IF v < 128 THEN 1 ELSE 1 + SizeOfVarint(v \div 128)

\* <<value, bytes read>>, with -1 bytes for a number that does not end.
consumeVarint(bytes) ==
    LET last == {i \in 1..Min({10, Len(bytes)}) : bytes[i] < 128}
        n == Min(last)
        value[i \in 1..n] == (bytes[i] % 128) + (IF i = n THEN 0 ELSE 128 * value[i + 1])
    IN IF last = {} THEN <<0, -1>> ELSE <<value[1], n>>

ZigZag(v) == IF v >= 0 THEN 2 * v ELSE -2 * v - 1

UnZigZagUnsigned(u) == u \div 2                              \* (mutant)

UnZigZag(u) == IF u % 2 = 0 THEN u \div 2 ELSE -((u + 1) \div 2)

PutUint64(v) == [i \in 1..8 |-> IF i > 4 THEN 0 ELSE (v \div 256^(i - 1)) % 256]

Uint64(bytes) == bytes[1] + 256 * bytes[2] + 256^2 * bytes[3] + 256^3 * bytes[4]

consumeBytes(bytes) ==
    LET length == consumeVarint(bytes)
        end == length[2] + length[1]
    IN IF length[2] < 0 \/ end > Len(bytes) THEN <<<<>>, -1>> ELSE <<SubSeq(bytes, length[2] + 1, end), end>>

\* How many bytes a field that the decoder does not know takes after its tag,
\* or an error.  A number that does not end gives -1 without an error, and a
\* length is not compared with the bytes that are there.
SkipError == -2

skipField(wireType, bytes) ==
    LET c == consumeVarint(bytes)
    IN  CASE wireType = 0 -> c[2]
          [] wireType = 1 -> IF Len(bytes) < 8 THEN SkipError ELSE 8
          [] wireType = 2 -> IF c[2] < 0 THEN SkipError ELSE c[2] + c[1]
          [] wireType = 5 -> IF Len(bytes) < 4 THEN SkipError ELSE 4
          [] OTHER -> SkipError

-----------------------------------------------------------------------------
(* Encoding *)

LengthDelim(bytes) == appendVarint(Len(bytes)) \o bytes

Tag(f, wireType) == appendVarint(8 * f.num + wireType)

RECURSIVE Marshal(_, _)

Value(f, v) ==
    CASE f.kind = "varint" -> appendVarint(v)
      [] f.kind = "bool" -> <<IF v THEN 1 ELSE 0>>
      [] f.kind = "zigzag" -> appendVarint(ZigZag(v))
      [] f.kind = "fixed64" -> PutUint64(v)
      [] f.kind = "bytes" -> LengthDelim(v)
      [] f.kind = "message" -> LengthDelim(Marshal(f.of, v))

Tagged(f, v) == Tag(f, WireType(f.kind)) \o Value(f, v)

MarshalField(f, m) ==
    LET v == m[f.in]
    IN CASE f.shape = "plain" -> IF v = Zero(f.kind) THEN <<>> ELSE Tagged(f, v)
         [] f.shape = "always" -> Tagged(f, v)
         [] f.shape \in {"pointer", "repeated"} -> FlattenSeq([i \in 1..Len(v) |-> Tagged(f, v[i])])
         [] f.shape = "packed" ->
                IF v = <<>> THEN <<>>
                ELSE Tag(f, 2) \o LengthDelim(FlattenSeq([i \in 1..Len(v) |-> Value(f, v[i])]))
         [] f.shape = "oneof" -> IF v # <<>> /\ v[1] = f.name THEN Tagged(f, v[2]) ELSE <<>>

\* The fields by number, then the oneof, then what the message could not name.
Marshal(t, m) ==
    LET fields == SelectSeq(Schemas[t], LAMBDA f : f.shape # "oneof")
                  \o SelectSeq(Schemas[t], LAMBDA f : f.shape = "oneof")
    IN FlattenSeq([i \in 1..Len(fields) |-> MarshalField(fields[i], m)])
       \o (IF IsOtlp(t) THEN m.unknownFields ELSE <<>>)

RECURSIVE SizeVT(_, _)

SizeOf(f, v) ==
    CASE f.kind = "varint" -> SizeOfVarint(v)
      [] f.kind = "bool" -> 1
      [] f.kind = "zigzag" -> SizeOfVarint(ZigZag(v))
      [] f.kind = "fixed64" -> 8
      [] f.kind = "bytes" -> Len(v) + SizeOfVarint(Len(v))
      [] f.kind = "message" -> LET l == SizeVT(f.of, v) IN l + SizeOfVarint(l)

\* Every tag is one byte: no field of these messages has a number above 15.
SizeField(f, m) ==
    LET v == m[f.in]
        sum(vs) == FoldSeq(LAMBDA e, n : n + e, 0, vs)
    IN CASE f.shape = "plain" -> IF v = Zero(f.kind) THEN 0 ELSE 1 + SizeOf(f, v)
         [] f.shape \in {"pointer", "repeated"} -> sum([i \in 1..Len(v) |-> 1 + SizeOf(f, v[i])])
         [] f.shape = "packed" ->
                IF v = <<>> THEN 0
                ELSE LET l == sum([i \in 1..Len(v) |-> SizeOf(f, v[i])]) IN 1 + SizeOfVarint(l) + l
         [] f.shape = "oneof" -> IF v # <<>> /\ v[1] = f.name THEN 1 + SizeOf(f, v[2]) ELSE 0

SizeVT(t, m) ==
    FoldSeq(LAMBDA f, n : n + SizeField(f, m), 0, Schemas[t]) + Len(m.unknownFields)

-----------------------------------------------------------------------------
(* Decoding *)

Bad == [ok |-> FALSE, m |-> <<>>]

RECURSIVE Unmarshal(_, _, _, _)

\* What reading a message value has given: its bytes, and what they decode to.
Taken(into, c, d) == IF c[2] < 0 \/ ~d.ok THEN <<into, -1>> ELSE <<d.m, c[2]>>

TakeMessage(f, into, c, old) == Taken(into, c, Unmarshal(f.of, into, c[1], old))

\* <<value, bytes read>> of one value; into is the message that a message
\* value is merged into.
Take(f, into, bytes, old) ==
    CASE f.kind = "varint" -> consumeVarint(bytes)
      [] f.kind = "bool" -> LET c == consumeVarint(bytes) IN <<c[1] # 0, c[2]>>
      [] f.kind = "zigzag" -> LET c == consumeVarint(bytes) IN <<UnZigZag(c[1]), c[2]>>
      [] f.kind = "fixed64" -> IF Len(bytes) < 8 THEN <<0, -1>> ELSE <<Uint64(bytes), 8>>
      [] f.kind = "bytes" -> consumeBytes(bytes)
      [] f.kind = "message" -> TakeMessage(f, into, consumeBytes(bytes), old)

\* The elements of a packed field: none of them is a message.
RECURSIVE TakeAll(_, _)
TakeRest(f, bytes, c) == IF c[2] < 0 THEN <<>> ELSE <<c[1]>> \o TakeAll(f, SubSeq(bytes, c[2] + 1, Len(bytes)))
TakeAll(f, bytes) == IF bytes = <<>> THEN <<>> ELSE TakeRest(f, bytes, Take(f, <<>>, bytes, <<>>))

\* What a message value is decoded into: the one already there, or a new one.
Into(f, v) ==
    CASE f.kind # "message" -> <<>>
      [] f.shape = "pointer" /\ v # <<>> -> v[1]
      [] f.shape = "oneof" /\ v # <<>> /\ v[1] = f.name -> v[2]
      [] OTHER -> Empty(f.of)

\* The value of the field once v2 has been read into it.
Store(f, v, v2) ==
    CASE f.shape \in {"plain", "always"} -> v2
      [] f.shape = "pointer" -> <<v2>>
      [] f.shape \in {"repeated", "packed"} -> Append(v, v2)
      [] f.shape = "oneof" -> <<f.name, v2>>

\* What decoding one field gives: [ok, m, n], n the bytes it took.
Failed(m) == [ok |-> FALSE, m |-> m, n |-> 0]
Put(m, name, value, tag, c) ==
    IF c[2] < 0 THEN Failed(m) ELSE [ok |-> TRUE, n |-> tag[2] + c[2], m |-> [m EXCEPT ![name] = value]]

\* The slice data[n:] with n out of range: the remote-write decoder panics where
\* the OTLP one compares the end of the field with the end of the data.
Panicked(m) == [ok |-> FALSE, m |-> m, n |-> -1]

\* a field the build does not know is skipped, and kept by OTLP
Skip(t, m, bytes, tag, n) ==
    IF n = SkipError THEN Failed(m)
    ELSE IF tag[2] + n \notin tag[2]..Len(bytes) THEN IF IsOtlp(t) THEN Failed(m) ELSE Panicked(m)
    ELSE [ok |-> TRUE, n |-> tag[2] + n,
          m |-> IF IsOtlp(t) THEN [m EXCEPT !.unknownFields = @ \o SubSeq(bytes, 1, tag[2] + n)] ELSE m]

UnpackField(t, f, m, tag, c) ==
    Put(m, f.in, (IF IsOtlp(t) THEN m[f.in] ELSE <<>>) \o TakeAll(f, c[1]), tag, c)

ReadField(f, m, tag, c) == Put(m, f.in, Store(f, m[f.in], c[1]), tag, c)

KnownField(t, f, m, rest, old, tag) ==
    LET wireType == tag[1] % 8
    IN  IF f.shape = "packed" /\ wireType = 2 THEN UnpackField(t, f, m, tag, consumeBytes(rest))
        ELSE IF (f.checked /\ wireType # WireType(f.kind)) \/ (f.shape = "packed" /\ ~IsOtlp(t)) THEN Failed(m)
        ELSE ReadField(f, m, tag, Take(f, Into(f, m[f.in]), rest, old))

\* One field at the head of bytes, once its tag has been read.
AfterTag(t, m, bytes, old, tag) ==
    LET rest == SubSeq(bytes, tag[2] + 1, Len(bytes))
        known == SelectSeq(Fields(t, old), LAMBDA f : f.num = tag[1] \div 8)
    IN  IF tag[2] < 0 \/ (IsOtlp(t) /\ (tag[1] % 8 = 4 \/ tag[1] \div 8 = 0)) THEN Failed(m)
        ELSE IF known = <<>> THEN Skip(t, m, bytes, tag, skipField(tag[1] % 8, rest))
        ELSE KnownField(t, known[1], m, rest, old, tag)

UnmarshalField(t, m, bytes, old) == AfterTag(t, m, bytes, old, consumeVarint(bytes))

UnmarshalRest(t, bytes, old, r) ==
    IF r.ok THEN Unmarshal(t, r.m, SubSeq(bytes, r.n + 1, Len(bytes)), old) ELSE Bad

Unmarshal(t, m, bytes, old) ==
    IF bytes = <<>> THEN [ok |-> TRUE, m |-> m]
    ELSE UnmarshalRest(t, bytes, old, UnmarshalField(t, m, bytes, old))

-----------------------------------------------------------------------------
(* The messages a behaviour may send: an empty one and a full one, with one *)
(* field set to each of the values at the edges of its encoding.            *)

Text(n) == [i \in 1..n |-> 97]

KindSamples(kind) ==
    CASE kind = "varint" -> {0, 1, 127, 128, 16384}
      [] kind = "zigzag" -> {0, 1, 0 - 1, 63, 64, 0 - 64, 0 - 65}
      [] kind = "fixed64" -> {0, 1, 256, 16777216}
      [] kind = "bool" -> BOOLEAN
      [] kind = "bytes" -> {Text(n) : n \in {0, 1, 127, 128}}

RECURSIVE Full(_, _)
Full(t, depth) ==
    LET element(f) == CASE f.kind = "message" -> IF depth = 0 THEN Empty(f.of) ELSE Full(f.of, depth - 1)
                        [] f.kind = "bytes" -> Text(2)
                        [] f.kind = "bool" -> TRUE
                        [] OTHER -> 5
        fill(f) == CASE f.shape \in {"plain", "always"} -> element(f)
                     [] f.shape = "oneof" -> <<f.name, element(f)>>
                     [] OTHER -> <<element(f)>>
    IN [n \in DOMAIN Empty(t) |->
            IF n = "unknownFields" THEN <<248, 1, 5>> ELSE fill(CHOOSE f \in ToSet(Schemas[t]) : f.in = n)]

FieldSamples(f) ==
    LET elements == IF f.kind = "message" THEN {Empty(f.of), Full(f.of, Depth)} ELSE KindSamples(f.kind)
    IN CASE f.shape \in {"plain", "always"} -> elements
         [] f.shape = "pointer" -> {<<>>} \union {<<e>> : e \in elements}
         [] f.shape = "oneof" -> {<<>>} \union {<<f.name, e>> : e \in elements}
         [] OTHER -> {<<>>} \union {<<e>> : e \in elements} \union {<<e, e2>> : e \in elements, e2 \in elements}

Samples(t) ==
    UNION {UNION {{[m EXCEPT ![f.in] = v] : v \in FieldSamples(f)} : f \in ToSet(Schemas[t])}
            : m \in {Empty(t), Full(t, Depth)}}

-----------------------------------------------------------------------------
Init ==
    /\ type \in DOMAIN Schemas
    /\ msg \in Samples(type)
    /\ older \in {<<>>} \union {<<type, f.num>> : f \in ToSet(Schemas[type])}
    /\ data = <<>>
    /\ stage = "sent"
    /\ back = Bad

\* MarshalVT, or Marshal of a remote-write request.
Encode ==
    /\ stage = "sent"
    /\ data' = Marshal(type, msg)
    /\ stage' = "encoded"
    /\ UNCHANGED <<type, msg, older, back>>

Relayed(t, r) == IF r.ok THEN Marshal(t, r.m) ELSE <<>>

\* A proxy of an older build decodes the message and encodes it again; what
\* it cannot decode goes no further.
Relay ==
    /\ stage = "encoded" /\ IsOtlp(type) /\ older # <<>>
    /\ data' = Relayed(type, Unmarshal(type, Empty(type), data, older))
    /\ stage' = "relayed"
    /\ UNCHANGED <<type, msg, older, back>>

\* UnmarshalVT, or UnmarshalWriteRequest, by a receiver that knows every field.
Decode ==
    /\ stage = "relayed" \/ (stage = "encoded" /\ (older = <<>> \/ ~IsOtlp(type)))
    /\ back' = Unmarshal(type, Empty(type), data, <<>>)
    /\ stage' = "decoded"
    /\ UNCHANGED <<type, msg, older, data>>

Next == Encode \/ Relay \/ Decode

Spec == Init /\ [][Next]_wireVars

-----------------------------------------------------------------------------
(* Properties *)

\* A message that arrives is the message that was sent, field by field, at
\* every edge of its encoding (empty and absent fields, numbers at a group
\* boundary, negative zigzag numbers, lengths of more than one byte), also when it
\* went through a proxy whose build does not know one of its fields: the
\* field travels in the unknown bytes of the message.
RoundTrip == stage = "decoded" => back = [ok |-> TRUE, m |-> msg]

\* MarshalVT writes backwards into a buffer of SizeVT bytes: the size is
\* exactly what is written, or the first bytes would be missing or zero.
SizeExact == stage = "encoded" /\ IsOtlp(type) => SizeVT(type, msg) = Len(data)
===============================================================================
