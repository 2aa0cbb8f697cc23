----------------------------- MODULE ProtoIngest ----------------------------
(***************************************************************************)
(* POST /telemetry/proto from the bytes to the documents                   *)
(* (HandleTelemetryProto with the decoder it calls), over schemas as       *)
(* UploadSchema lets them in.  A request takes its schema before it reads  *)
(* its body, so an upload may replace the schema in between; what is hard  *)
(* otherwise is the conversion itself: what reaches the store under which  *)
(* name, with which value and at which time.  Caching of schemas is in     *)
(* SchemaCache, failures and retries of a batch are in Telemetry.          *)
(***************************************************************************)
EXTENDS ProtoDecoder, FiniteSets

CONSTANTS
    Names,       \* names of measurements, "timestamp" among them
    Uploads,     \* bodies of uploads: sets of measurement metadata
    Batches,     \* what devices send: sequences of measurements
    Strings,     \* bodies that are not encodings of batches
    MantissaBits,\* bits of the integers that a float64 holds exactly: 53
    ZeroTime     \* the milliseconds of Go's zero time, which IsZero reports

Stamped == "timestamp"

\* The id and the name inside of a measurement's metadata.  The key under
\* which an upload lists it is validated there and not used here.
Meta == [id : 0 .. Half - 1, name : Names]

ASSUME IngestAssumption ==
    /\ Stamped \in Names
    /\ Uploads \subseteq SUBSET Meta
    /\ MantissaBits \in 1 .. WordBits - 1
    /\ ZeroTime \in -(Word \div 2) .. -1

\* What a device measures: a value of a type of the oneof, or none.
Value ==
    [type : {"float", "uint32"}, n : 0 .. Half - 1]
      \cup [type : {"double", "uint64"}, n : 0 .. Word - 1]
      \cup [type : {"int32"}, n : -(Half \div 2) .. Half \div 2 - 1]
      \cup [type : {"int64"}, n : -(Word \div 2) .. Word \div 2 - 1]
      \cup [type : {"bool"}, n : {0, 1}]
      \cup {Nil}

Measurement == [id : 0 .. Half - 1, value : Value]

VARIABLES
    schema,      \* the stored schema of the device's app and version
    pc,          \* what the request is doing
    names,       \* idToMeta: the name of each measurement id
    todo,        \* the measurements that are still to be saved
    stamp,       \* the documents' timestamp, <<>> for the server's time
    saved,       \* the documents that the request has stored
    \* History variables: no action reads them.
    used,        \* the schema that the request has read
    body,        \* its body
    source,      \* the batch that the body encodes, {} for a string
    failures     \* the saves that failed

vars == <<schema, pc, names, todo, stamp, saved, used, body, source, failures>>

request == <<pc, names, todo, stamp, saved, used, body, source, failures>>

Init ==
    /\ schema = {}
    /\ pc = "idle"
    /\ names = <<>>
    /\ todo = <<>>
    /\ stamp = <<>>
    /\ saved = <<>>
    /\ used = {}
    /\ body = <<>>
    /\ source = {}
    /\ failures = 0

-----------------------------------------------------------------------------
(* The encoding that devices use (proto3), as the reference for Decode     *)

EncodeVarint(n) ==
    LET size == Min({k \in 1 .. MaxVarint : n < Power(GroupBits * k)})
    IN  [i \in 1 .. size |->
           ((n \div Power(GroupBits * (i - 1))) % More)
             + (IF i < size THEN More ELSE 0)]

EncodeFixed(n, size) ==
    [i \in 1 .. size |-> (n \div Power((GroupBits + 1) * (i - 1))) % (2 * More)]

EncodeTag(num, wire) == EncodeVarint(num * 8 + wire)

EncodeBytes(num, data) ==
    EncodeTag(num, 2) \o EncodeVarint(Len(data)) \o data

\* proto3 leaves out an id of zero; a value of a oneof is always there.
EncodeMeasurement(m) ==
    LET num == CHOOSE k \in DOMAIN TypeOf : TypeOf[k] = m.value.type
        val == CASE m.value.type = "nil"    -> <<>>
                 [] m.value.type = "float"  ->
                      EncodeTag(num, 5) \o EncodeFixed(m.value.n, Fixed32Bytes)
                 [] m.value.type = "double" ->
                      EncodeTag(num, 1) \o EncodeFixed(m.value.n, Fixed64Bytes)
                 [] OTHER -> EncodeTag(num, 0) \o EncodeVarint(m.value.n % Word)
    IN  (IF m.id = 0 THEN <<>> ELSE EncodeTag(1, 0) \o EncodeVarint(m.id)) \o val

Encode(batch) ==
    LET upTo[i \in 0 .. Len(batch)] ==
          IF i = 0 THEN <<>>
          ELSE upTo[i - 1] \o EncodeBytes(1, EncodeMeasurement(batch[i]))
    IN  upTo[Len(batch)]

\* The length of a body is an int.
ASSUME BodyAssumption ==
    /\ Batches \subseteq Seq(Measurement)
    /\ \A batch \in Batches : Len(Encode(batch)) < Word \div 2
    /\ Strings \subseteq Seq(Byte)
    /\ \A data \in Strings : Len(data) < Word \div 2

-----------------------------------------------------------------------------

\* Mutant: an id of zero is let in.
AcceptedWithZero(u) == u # {}

\* UploadSchema refuses an empty schema and an id of zero.  It accepts an id
\* that occurs twice.
Accepted(u) == u # {} /\ \A meta \in u : meta.id # 0

Upload(u) ==
    /\ Accepted(u)
    /\ schema' = u
    /\ UNCHANGED request

\* The device's schema is looked up; without one the answer is 404.
Receive ==
    /\ pc = "idle"
    /\ schema # {}
    /\ pc' = "body"
    /\ used' = schema
    /\ UNCHANGED <<schema, names, todo, stamp, saved, body, source, failures>>

\* The map from ids to metadata: of metadata with the same id the last one
\* stays, in the order of a Go map, which is any.
IdToMeta(S) ==
    {f \in [{meta.id : meta \in S} -> {meta.name : meta \in S}] :
       \A i \in DOMAIN f : [id |-> i, name |-> f[i]] \in S}

\* The body is read and decoded.  An error is answered with 400; a panic is
\* turned into a 500 by the Recovery middleware.
ReadBody(data, batches) ==
    /\ pc = "body"
    /\ body' = data
    /\ source' = batches
    /\ \E decoded \in {decodeMeasurementBatch(data)} :
         IF decoded.status = "ok"
         THEN /\ pc' = "stamp"
              /\ todo' = decoded.measurements
              /\ names' \in IdToMeta(used)
         ELSE /\ pc' = decoded.status
              /\ UNCHANGED <<todo, names>>
    /\ UNCHANGED <<schema, stamp, saved, used, failures>>

\* The connection breaks before the body is complete: 400.
BodyFailed ==
    /\ pc = "body"
    /\ pc' = "error"
    /\ UNCHANGED <<schema, names, todo, stamp, saved, used, body, source,
                   failures>>

Known(m) == m.id \in DOMAIN names

IsStamp(m) == Known(m) /\ names[m.id] = Stamped

IsInteger(value) == value.type \in {"int32", "int64", "uint32", "uint64"}

\* Mutant: the milliseconds of an unsigned timestamp are not taken as an int64.
StampOfUnsigned(value) ==
    IF IsInteger(value) /\ value.n # ZeroTime THEN <<value.n>> ELSE <<>>

\* The document's time for a timestamp: its milliseconds as an int64, unless
\* they are those of the zero time, which counts as none.
StampOf(value) ==
    IF IsInteger(value) /\ Signed(value.n, Word) # ZeroTime
    THEN <<Signed(value.n, Word)>>
    ELSE <<>>

\* Mutant: the last timestamp of the batch counts.
FindLastStamp ==
    /\ pc = "stamp"
    /\ LET stamps == {i \in DOMAIN todo : IsStamp(todo[i])}
       IN  stamp' = IF stamps = {} THEN <<>> ELSE StampOf(todo[Max(stamps)].value)
    /\ pc' = "save"
    /\ UNCHANGED <<schema, names, todo, saved, used, body, source, failures>>

\* The first measurement named "timestamp" ends the search, whether or not it
\* holds an integer.
FindStamp ==
    /\ pc = "stamp"
    /\ LET stamps == {i \in DOMAIN todo : IsStamp(todo[i])}
       IN  stamp' = IF stamps = {} THEN <<>> ELSE StampOf(todo[Min(stamps)].value)
    /\ pc' = "save"
    /\ UNCHANGED <<schema, names, todo, saved, used, body, source, failures>>

Abs(n) == IF n < 0 THEN -n ELSE n

\* The float64 nearest to an integer, to the even one of two.
Rounded(n) ==
    LET unit == CHOOSE u \in {Power(e) : e \in 0 .. WordBits} :
                  /\ Abs(n) < Power(MantissaBits) * u
                  /\ u = 1 \/ Power(MantissaBits - 1) * u <= Abs(n)
        down == Abs(n) \div unit
        rest == 2 * (Abs(n) % unit)
        near == IF rest > unit \/ (rest = unit /\ down % 2 = 1)
                THEN down + 1 ELSE down
    IN  IF n < 0 THEN -(near * unit) ELSE near * unit

\* Floating-point numbers stay the bit patterns they are.
toFloat64(value) ==
    IF value.type \in {"float", "double"}
    THEN value
    ELSE [type |-> "number", n |-> Rounded(value.n)]

Current == Head(todo)

\* Measurements to pass over: unknown ids, timestamps and empty ones.
Skipped(m) == ~ Known(m) \/ IsStamp(m) \/ m.value = Nil

Skip ==
    /\ pc = "save"
    /\ todo # <<>>
    /\ Skipped(Current)
    /\ todo' = Tail(todo)
    /\ UNCHANGED <<schema, pc, names, stamp, saved, used, body, source, failures>>

\* Mutant: the name is looked up in the schema, where an id may occur twice.
SaveAnyName ==
    /\ pc = "save"
    /\ todo # <<>>
    /\ ~ Skipped(Current)
    /\ \E meta \in {x \in used : x.id = Current.id} :
         saved' = Append(saved, [id |-> Current.id, name |-> meta.name,
                                 value |-> toFloat64(Current.value),
                                 at |-> stamp])
    /\ todo' = Tail(todo)
    /\ UNCHANGED <<schema, pc, names, stamp, used, body, source, failures>>

\* The id is not part of the document and kept for the properties.
Save ==
    /\ pc = "save"
    /\ todo # <<>>
    /\ ~ Skipped(Current)
    /\ saved' = Append(saved, [id |-> Current.id, name |-> names[Current.id],
                               value |-> toFloat64(Current.value),
                               at |-> stamp])
    /\ todo' = Tail(todo)
    /\ UNCHANGED <<schema, pc, names, stamp, used, body, source, failures>>

SaveFailed ==
    /\ pc = "save"
    /\ todo # <<>>
    /\ ~ Skipped(Current)
    /\ failures' = failures + 1
    /\ todo' = Tail(todo)
    /\ UNCHANGED <<schema, pc, names, stamp, saved, used, body, source>>

\* All measurements are done: the digest is published and the request
\* answered.
Answer ==
    /\ pc = "save"
    /\ todo = <<>>
    /\ pc' = "ok"
    /\ UNCHANGED <<schema, names, todo, stamp, saved, used, body, source,
                   failures>>

\* The next request starts afresh.
Finish ==
    /\ pc \in {"ok", "error", "panic"}
    /\ pc' = "idle"
    /\ names' = <<>>
    /\ todo' = <<>>
    /\ stamp' = <<>>
    /\ saved' = <<>>
    /\ used' = {}
    /\ body' = <<>>
    /\ source' = {}
    /\ failures' = 0
    /\ UNCHANGED schema

Next ==
    \/ \E u \in Uploads : Upload(u)
    \/ Receive
    \/ \E batch \in Batches : ReadBody(Encode(batch), {batch})
    \/ \E data \in Strings : ReadBody(data, {})
    \/ BodyFailed
    \/ FindStamp
    \/ Skip
    \/ Save
    \/ SaveFailed
    \/ Answer
    \/ Finish

Spec == Init /\ [][Next]_vars

-----------------------------------------------------------------------------
(* Properties                                                              *)

\* A number of an int64.
Time == -(Word \div 2) .. Word \div 2 - 1

\* A floating-point number keeps its bits; any other value becomes a number.
Stored ==
    [type : {"float"}, n : 0 .. Half - 1] \cup [type : {"double"}, n : 0 .. Word - 1]
      \cup [type : {"number"}, n : Int]

Document == [id : 0 .. Half - 1, name : Names, value : Stored, at : Seq(Time)]

\* Whatever the bytes of a body are, what is decoded are ids and values within
\* the widths of their types, and every document holds an id of 32 bits, a
\* name of the schema's and a time that an int64 holds (decoder.go:151-220,
\* telemetry_proto.go:36-79 and 131-188).
TypeOK ==
    /\ schema \subseteq Meta /\ used \subseteq Meta
    /\ pc \in {"idle", "body", "stamp", "save", "ok", "error", "panic"}
    /\ DOMAIN names \subseteq 0 .. Half - 1
    /\ \A id \in DOMAIN names : names[id] \in Names
    /\ todo \in Seq(Measurement)
    /\ stamp \in Seq(Time) /\ Len(stamp) <= 1
    /\ saved \in Seq(Document)
    /\ body \in Seq(Byte) /\ Len(body) < Word \div 2
    /\ source \subseteq Batches
    /\ failures \in Nat

\* The body has just been decoded.
JustRead == pc \in {"stamp", "error", "panic"}

Continues(before, after, whole) ==
    before.status = "ok" =>
        /\ whole.status = "ok" <=> after.status = "ok"
        /\ whole.status = "ok" => whole.fields = before.fields \o after.fields

\* Reading a body that is cut anywhere between two fields gives the fields of
\* both parts, and a part that can be read at all is read the same within the
\* whole: a body that was truncated on its way never yields a field that was
\* not sent (decoder.go:46-98).
DecodeIsCompositional ==
    JustRead => \A cut \in 0 .. Len(body) :
        Continues(Decode(Take(body, cut)), Decode(Drop(body, cut)), Decode(body))

\* Every batch of a device is read as it was meant, whatever its types and the
\* signs of its numbers, and an id of zero, which is not on the wire
\* (telemetry_proto.go:36-79, decoder.go:151-183 and 206-219).
BatchesAreRead ==
    JustRead => \A batch \in source :
        decodeMeasurementBatch(body) = [status |-> "ok", measurements |-> batch]

\* Decoding fails at run time only on a length that does not fit an int
\* together with its position; every other body is read or answered with an
\* error (decoder.go:80).
PanicNeedsHugeLength ==
    pc = "panic" =>
        \E pos \in 0 .. Len(body) :
            decodeVarint(Drop(body, pos)).value + pos >= Word \div 2 - MaxVarint

\* What a stored value says about the sent one: a number is exact up to
\* MantissaBits, and off by half a unit of its last place beyond.
Represents(stored, sent) ==
    IF sent.type \in {"float", "double"}
    THEN stored = sent
    ELSE Abs(stored.n - sent.n) * Power(MantissaBits) <= Abs(sent.n)

\* What is stored was sent under its id, up to the rounding of large numbers,
\* and is a measurement of the schema that the request has read, even if an
\* upload replaced it meanwhile; no measurement without an id is stored, since
\* no schema has the id zero (telemetry_proto.go:120-124 and 156-188,
\* schemas.go:54).
StoredUnderItsId ==
    \A i \in DOMAIN saved :
        /\ [id |-> saved[i].id, name |-> saved[i].name] \in used
        /\ saved[i].name # Stamped
        /\ saved[i].id # 0
        /\ \A batch \in source : \E j \in DOMAIN batch :
             /\ batch[j].id = saved[i].id
             /\ Represents(saved[i].value, batch[j].value)

\* Measurements of one request with one id are stored under one name, even if
\* the schema has two names for the id (telemetry_proto.go:121-124).
OneNamePerId ==
    \A i, j \in DOMAIN saved :
        saved[i].id = saved[j].id => saved[i].name = saved[j].name

NoRepeatedId(S) == \A a, b \in S : a.id = b.id => a = b

\* The documents' time for a timestamp: an integer is milliseconds, those that
\* an int64 does not hold lie before the epoch; <<>> is the server's time.
TimeSent(value) ==
    LET ms == IF value.n < Word \div 2 THEN value.n ELSE value.n - Word
    IN  IF IsInteger(value) /\ ms # ZeroTime THEN <<ms>> ELSE <<>>

\* When all is done, every measurement that the schema knows, other than its
\* timestamp, is stored or has failed, in the order in which it was sent, and
\* the documents carry the time of the first timestamp that was sent, whatever
\* the timestamps after it and also if that one is no integer
\* (telemetry_proto.go:131-192).  The schema must not repeat an id.
BatchIsServed ==
    pc = "ok" /\ NoRepeatedId(used) =>
        \A batch \in source :
            LET ids(S) == {meta.id : meta \in S}
                timed  == {meta \in used : meta.name = Stamped}
                stamps == {i \in DOMAIN batch : batch[i].id \in ids(timed)}
                wanted == Selected(batch, {i \in DOMAIN batch :
                                             /\ batch[i].id \in ids(used \ timed)
                                             /\ batch[i].value # Nil})
            IN  /\ Len(saved) + failures = Len(wanted)
                /\ failures = 0 => \A i \in DOMAIN saved :
                     Represents(saved[i].value, wanted[i].value)
                /\ \A i \in DOMAIN saved :
                     saved[i].at = IF stamps = {} THEN <<>>
                                   ELSE TimeSent(batch[Min(stamps)].value)

=============================================================================
