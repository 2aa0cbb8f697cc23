---------------------------- MODULE MCProtoIngest ---------------------------
(* A small instance of ProtoIngest: words of 16 bits and the bytes of the   *)
(* code, which makes uint32 one byte and the longest varint three bytes.    *)
EXTENDS ProtoIngest

UploadsOf ==
    { {},
      {[id |-> 0, name |-> "temperature"]},
      {[id |-> 1, name |-> "temperature"], [id |-> 2, name |-> "timestamp"]},
      {[id |-> 1, name |-> "temperature"], [id |-> 1, name |-> "humidity"],
       [id |-> 255, name |-> "timestamp"]} }

\* Every type at its boundaries, and a measurement without a value.
Values ==
    {[type |-> "float", n |-> 200], [type |-> "double", n |-> 40000], Nil,
     [type |-> "bool", n |-> 1]}
      \cup [type : {"int32"}, n : {-128, -1, 0, 127}]
      \cup [type : {"int64"}, n : {-32768, 32767}]
      \cup [type : {"uint32"}, n : {0, 255}]
      \cup [type : {"uint64"}, n : {128, 65535}]

Measurements == [id : {0, 1, 2, 255}, value : Values]

Pairs ==
    [id : {1, 2, 255}, value : {[type |-> "int32", n |-> -1],
                                [type |-> "float", n |-> 7],
                                [type |-> "uint64", n |-> 300]}]

\* Batches of two timestamps and a temperature, in each order.
Stamps ==
    {[id |-> 2, value |-> [type |-> t, n |-> n]] :
       t \in {"int64", "bool"}, n \in {0, 1}}
      \cup {[id |-> 2, value |-> [type |-> "int64", n |-> -7]],
            [id |-> 2, value |-> [type |-> "uint64", n |-> 65535]],
            [id |-> 2, value |-> [type |-> "uint64", n |-> 65529]]}

EpochOf == -7

Reading == [id |-> 1, value |-> [type |-> "int32", n |-> -1]]

Triples ==
    UNION { {<<a, b, Reading>>, <<a, Reading, b>>, <<Reading, a, b>>} :
            a \in Stamps, b \in Stamps }

BatchesOf ==
    {<<>>} \cup {<<m>> : m \in Measurements}
      \cup {<<m, n>> : m \in Pairs, n \in Pairs} \cup Triples

\* Tags of the fields that occur, lengths, and varints that go on.
Alphabet == {0, 1, 2, 8, 10, 32, 37, 128, 255}

StringsOf == UNION {[1 .. n -> Alphabet] : n \in 0 .. 4}

=============================================================================
