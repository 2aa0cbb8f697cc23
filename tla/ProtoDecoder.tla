---------------------------- MODULE ProtoDecoder ----------------------------
(***************************************************************************)
(* The protobuf wire decoder (pkg/proto/decoder.go) and the measurements   *)
(* that telemetry_proto.go reads from a batch.  A byte is a number, data   *)
(* a sequence of bytes.  All widths derive from the two constants, so that *)
(* a small machine has the boundaries of the real one: a uint64 of 64 bits *)
(* and bytes of 7 bits and a continuation bit.                             *)
(***************************************************************************)
EXTENDS Integers, Sequences, SequencesExt

CONSTANTS
    WordBits,    \* width of uint64 and int: 64; of uint32 half of it
    GroupBits    \* bits of a varint that a byte holds: 7

ASSUME WidthAssumption ==
    /\ GroupBits \in Nat /\ GroupBits >= 3
    /\ WordBits \in Nat \ {0}
    /\ WordBits % (2 * (GroupBits + 1)) = 0

\* 2 to the power of n.  The provers know nothing of ^.
Power(n) ==
    LET p[i \in 0 .. n] == IF i = 0 THEN 1 ELSE 2 * p[i - 1]
    IN  p[n]

\* The elements of a sequence at the chosen places, in their order.
Selected(s, chosen) ==
    LET upTo[i \in 0 .. Len(s)] ==
          IF i = 0 THEN <<>>
          ELSE IF i \in chosen THEN Append(upTo[i - 1], s[i]) ELSE upTo[i - 1]
    IN  upTo[Len(s)]

More == Power(GroupBits)              \* the continuation bit, 0x80
Word == Power(WordBits)
Half == Power(WordBits \div 2)
Fixed64Bytes == WordBits \div (GroupBits + 1)
Fixed32Bytes == Fixed64Bytes \div 2
MaxVarint == (WordBits + GroupBits - 1) \div GroupBits

Byte == 0 .. 2 * More - 1

Drop(data, n) == SubSeq(data, n + 1, Len(data))

Take(data, n) == SubSeq(data, 1, n)

\* A number read as two's complement of the given range.
Signed(n, range) == IF n % range < range \div 2 THEN n % range
                                                ELSE (n % range) - range

-----------------------------------------------------------------------------
(* Numbers                                                                 *)

\* How many bytes the varint at the start of data has, 0 if it does not end
\* within the data or within MaxVarint bytes.
VarintLen(data) ==
    LET ends == {n \in 1 .. Len(data) : n <= MaxVarint /\ data[n] < More}
    IN  IF ends = {} THEN 0 ELSE Min(ends)

\* The number in a varint of n bytes; the bits that are too many are lost.
VarintValue(data, n) ==
    LET upTo[i \in 0 .. n] ==
          IF i = 0 THEN 0
          ELSE (upTo[i - 1] + (data[i] % More) * Power(GroupBits * (i - 1)))
                 % Word
    IN  upTo[n]

SizedVarint(data, n) == [size |-> n, value |-> VarintValue(data, n)]

decodeVarint(data) == SizedVarint(data, VarintLen(data))

LittleEndian(data, n) ==
    LET upTo[i \in 0 .. n] ==
          IF i = 0 THEN 0
          ELSE upTo[i - 1] + data[i] * Power((GroupBits + 1) * (i - 1))
    IN  upTo[n]

-----------------------------------------------------------------------------
(* Decode                                                                  *)

\* A value keeps what was on the wire in the place of its wire type; the
\* other places are zero.
NoValue == [varint |-> 0, fixed32 |-> 0, fixed64 |-> 0, bytes |-> <<>>]

\* The outcome of reading a value: it took size bytes, or there is none.
Read(value, size) == [status |-> "ok", value |-> value, size |-> size]
Failed == [status |-> "error", value |-> NoValue, size |-> 0]
Panics == [status |-> "panic", value |-> NoValue, size |-> 0]

ReadVarint(varint) ==
    IF varint.size = 0
    THEN Failed
    ELSE Read([NoValue EXCEPT !.varint = varint.value], varint.size)

ReadFixed64(data) ==
    IF Len(data) < Fixed64Bytes
    THEN Failed
    ELSE Read([NoValue EXCEPT !.fixed64 = LittleEndian(data, Fixed64Bytes)],
              Fixed64Bytes)

ReadFixed32(data) ==
    IF Len(data) < Fixed32Bytes
    THEN Failed
    ELSE Read([NoValue EXCEPT !.fixed32 = LittleEndian(data, Fixed32Bytes)],
              Fixed32Bytes)

\* The bytes of the given length after a prefix of n bytes.
Cut(data, n, length) ==
    Read([NoValue EXCEPT !.bytes = Take(Drop(data, n), length)], n + length)

\* Mutant: bytes that are missing at the end are not missed.
ReadBytesToEnd(data, pos, n, length) ==
    CASE n = 0      -> Failed
      [] length < 0 -> Panics
      [] OTHER      -> Cut(data, n, IF length > Len(data) - n
                                    THEN Len(data) - n ELSE length)

\* Mutant: the length is not compared with what is left.
ReadBytesUnchecked(data, pos, n, length) ==
    CASE n = 0                                    -> Failed
      [] n # 0 /\ length \notin 0 .. Len(data) - n -> Panics
      [] OTHER                                    -> Cut(data, n, length)

\* The length, an int, is added to the position of the bytes (pos is that of
\* their length, which takes n bytes): a negative one, or one that takes the sum
\* over the largest int, passes the comparison with the end of the data, and
\* slicing the data fails at run time.
ReadBytes(data, pos, n, length) ==
    CASE n = 0 -> Failed
      [] n # 0 /\ Signed(pos + n + length, Word) > pos + Len(data) -> Failed
      [] n # 0 /\ Signed(pos + n + length, Word) < pos + n -> Panics
      [] OTHER -> Cut(data, n, length)

ReadValue(wire, data, pos) ==
    CASE wire = 0 -> ReadVarint(decodeVarint(data))
      [] wire = 1 -> ReadFixed64(data)
      [] wire = 2 -> ReadBytes(data, pos, VarintLen(data),
                               Signed(decodeVarint(data).value, Word))
      [] wire = 5 -> ReadFixed32(data)
      [] OTHER    -> Failed

\* A field with its tag of n bytes and what was read behind it: the number is
\* the lower half of what the tag holds.
Tagged(tag, n, read) ==
    [status |-> read.status, size |-> n + read.size,
     field |-> [num |-> (tag \div 8) % Half, wire |-> tag % 8,
                value |-> read.value]]

FieldBehind(tag, data, pos) ==
    IF tag.size = 0
    THEN Tagged(0, 0, Failed)
    ELSE Tagged(tag.value, tag.size,
                ReadValue(tag.value % 8, Drop(data, tag.size), pos + tag.size))

\* The field at a position, from where on data is left.
FieldAt(data, pos) == FieldBehind(decodeVarint(data), data, pos)

Prepend(field, message) ==
    IF message.status # "ok" THEN message
    ELSE [message EXCEPT !.fields = <<field>> \o @]

\* The message from each position on, from the end of the data backwards.
Decode(data) ==
    LET from[pos \in 0 .. Len(data)] ==
          IF pos = Len(data)
          THEN [status |-> "ok", fields |-> <<>>]
          ELSE LET next == FieldAt(Drop(data, pos), pos)
               IN  IF next.status = "ok"
                   THEN Prepend(next.field, from[pos + next.size])
                   ELSE [status |-> next.status, fields |-> <<>>]
    IN  from[0]

\* All messages, or the first that cannot be decoded.
Collect(inner) ==
    LET bad == {i \in DOMAIN inner : inner[i].status # "ok"}
    IN  IF bad = {}
        THEN [status |-> "ok", messages |-> [i \in DOMAIN inner |-> inner[i].fields]]
        ELSE [status |-> inner[Min(bad)].status, messages |-> <<>>]

\* Fields of the number that are not bytes are passed over.
Embedded(outer, num) ==
    LET places == {i \in DOMAIN outer.fields :
                     outer.fields[i].num = num /\ outer.fields[i].wire = 2}
        picked == Selected(outer.fields, places)
    IN  IF outer.status = "ok"
        THEN Collect([i \in DOMAIN picked |-> Decode(picked[i].value.bytes)])
        ELSE [status |-> outer.status, messages |-> <<>>]

DecodeRepeated(data, num) == Embedded(Decode(data), num)

-----------------------------------------------------------------------------
(* decodeMeasurementBatch                                                  *)

\* The types of the value fields, by field number.
TypeOf ==
    LET types == <<"float", "double", "int32", "int64", "uint32", "uint64", "bool">>
    IN  [num \in 2 .. 8 |-> types[num - 1]]

\* Mutant: a signed number is not sign-extended.
InterpretUnsigned(f) ==
    [type |-> TypeOf[f.num],
     n |-> CASE TypeOf[f.num] = "float"              -> f.value.fixed32
             [] TypeOf[f.num] = "double"             -> f.value.fixed64
             [] TypeOf[f.num] \in {"int32", "uint32"} -> f.value.varint % Half
             [] TypeOf[f.num] \in {"int64", "uint64"} -> f.value.varint
             [] TypeOf[f.num] = "bool" -> IF f.value.varint = 0 THEN 0 ELSE 1]

\* The field's number decides how its value is read; its wire type does not
\* matter, so a value of another wire type reads as zero.  Floating-point
\* numbers stay the bit patterns they are.
Interpret(f) ==
    [type |-> TypeOf[f.num],
     n |-> CASE TypeOf[f.num] = "float"  -> f.value.fixed32
             [] TypeOf[f.num] = "double" -> f.value.fixed64
             [] TypeOf[f.num] = "int32"  -> Signed(f.value.varint, Half)
             [] TypeOf[f.num] = "int64"  -> Signed(f.value.varint, Word)
             [] TypeOf[f.num] = "uint32" -> f.value.varint % Half
             [] TypeOf[f.num] = "uint64" -> f.value.varint
             [] TypeOf[f.num] = "bool" -> IF f.value.varint = 0 THEN 0 ELSE 1]

Nil == [type |-> "nil", n |-> 0]

\* The first id field and the first value field count.
MeasurementOf(msg) ==
    LET ids    == {i \in DOMAIN msg : msg[i].num = 1}
        values == {i \in DOMAIN msg : msg[i].num \in DOMAIN TypeOf}
    IN  [id    |-> IF ids = {} THEN 0 ELSE msg[Min(ids)].value.varint % Half,
         value |-> IF values = {} THEN Nil ELSE Interpret(msg[Min(values)])]

Measured(decoded) ==
    [status |-> decoded.status,
     measurements |-> [i \in DOMAIN decoded.messages |->
                         MeasurementOf(decoded.messages[i])]]

decodeMeasurementBatch(data) == Measured(DecodeRepeated(data, 1))

=============================================================================
