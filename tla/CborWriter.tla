----------------------------- MODULE CborWriter -----------------------------
(***************************************************************************)
(* Writing values (wpcp_cbor.c), and all the spellings CBOR allows for a   *)
(* value, as the reference for the writer and as input for the reader.     *)
(*                                                                         *)
(* Values are trees [type, value, data, children] as in CborReader: a      *)
(* string has its bytes as data, a floating point number its form.         *)
(***************************************************************************)
EXTENDS CborHeader

Simple(n) == <<ConstructHeader(FloatAndSimple, n)>>

IntegerType(v) == IF v.value < 0 THEN NegativeInteger ELSE UnsignedInteger

(* ~value->value.uint for a negative number.                               *)
Magnitude(v) == IF v.value < 0 THEN -1 - v.value ELSE v.value

StringType(v) == IF v.type = "BYTE_STRING" THEN ByteString ELSE TextString

RECURSIVE Write(_), WriteAll(_)

(* wpcp_cbor_write_buffer_write_wpcp_values                                *)
WriteAll(values) ==
    IF values = <<>> THEN <<>> ELSE Write(values[1]) \o WriteAll(Tail(values))

(* wpcp_cbor_write_buffer_write_wpcp_value                                 *)
Write(v) ==
    CASE v.type = "UINT64" -> WriteUint64(UnsignedInteger, v.value)
      [] v.type = "INT64" -> WriteUint64(IntegerType(v), Magnitude(v))
      [] v.type \in {"BYTE_STRING", "TEXT_STRING"} ->
            WriteUint64(StringType(v), v.value) \o v.data
      [] v.type = "FALSE" -> Simple(SimpleFalse)
      [] v.type = "TRUE" -> Simple(SimpleTrue)
      [] v.type = "NULL" -> Simple(SimpleNull)
      [] v.type = "UNDEFINED" -> Simple(SimpleUndefined)
      [] v.type = "SIMPLE_VALUE" -> WriteUint8(FloatAndSimple, v.value)
      [] v.type = "FLOAT" -> WriteForm(FloatAndSimple, v.value, 3)
      [] v.type = "DOUBLE" -> WriteForm(FloatAndSimple, v.value, 4)
      [] v.type = "TAG" -> WriteUint64(Tag, v.value) \o Write(v.children[1])
      [] v.type = "ARRAY" -> WriteUint64(Array, Len(v.children)) \o WriteAll(v.children)
      [] v.type = "MAP" -> WriteUint64(Map, Len(v.children) \div 2) \o WriteAll(v.children)

(* The head of text: keys and texts of the library itself.                 *)
WriteText(text) == WriteUint32(TextString, Len(text)) \o text

-----------------------------------------------------------------------------
(* The reference                                                           *)

(* All heads with a number.                                                *)
Heads(type, n) ==
    {<<ConstructHeader(type, n)>> : i \in {0} \cap {IF n < ADDITONAL_BYTES_1 THEN 0 ELSE 1}}
    \cup {<<ConstructHeader(type, ADDITONAL_BYTES_1 + i - 1)>> \o ToBytes(n, Width[i]) :
            i \in {j \in 1..4 : n < Limit(j)}}

(* A part of indefinite length around what is in it.                       *)
Marked(type, inner) == <<ConstructHeader(type, Indefinite)>> \o inner \o <<StopCode>>

(* A string in no, one or two pieces.                                      *)
Pieces(type, text) ==
    LET whole(t) == WriteUint32(type, Len(t)) \o t
    IN {whole(SubSeq(text, 1, i)) \o whole(SubSeq(text, i + 1, Len(text))) :
            i \in 0..Len(text)}
       \cup {whole(text)} \cup (IF text = <<>> THEN {<<>>} ELSE {})

RECURSIVE Encodings(_), AllEncodings(_)

AllEncodings(values) ==
    IF values = <<>> THEN {<<>>}
    ELSE {a \o b : a \in Encodings(values[1]), b \in AllEncodings(Tail(values))}

(* Every spelling of a value.  A value of type "BAD" is none: its bytes    *)
(* may not be where a value is expected.                                   *)
Encodings(v) ==
    CASE v.type \in {"UINT64", "INT64"} -> Heads(IntegerType(v), Magnitude(v))
      [] v.type \in {"BYTE_STRING", "TEXT_STRING"} ->
            {h \o v.data : h \in Heads(StringType(v), v.value)}
            \cup {Marked(StringType(v), p) : p \in Pieces(StringType(v), v.data)}
      [] v.type = "FALSE" -> {Simple(SimpleFalse), WriteForm(FloatAndSimple, SimpleFalse, 1)}
      [] v.type = "TRUE" -> {Simple(SimpleTrue), WriteForm(FloatAndSimple, SimpleTrue, 1)}
      [] v.type = "NULL" -> {Simple(SimpleNull), WriteForm(FloatAndSimple, SimpleNull, 1)}
      [] v.type = "UNDEFINED" ->
            {Simple(SimpleUndefined), WriteForm(FloatAndSimple, SimpleUndefined, 1)}
      [] v.type = "SIMPLE_VALUE" ->
            {h \in Heads(FloatAndSimple, v.value) : Len(h) <= 1 + Width[1]}
      [] v.type \in {"FLOAT", "DOUBLE"} ->
            {WriteForm(FloatAndSimple, v.value, v.data[1])}
      [] v.type = "TAG" -> {h \o e : h \in Heads(Tag, v.value), e \in Encodings(v.children[1])}
      [] v.type = "ARRAY" ->
            {h \o e : h \in Heads(Array, Len(v.children)), e \in AllEncodings(v.children)}
            \cup {Marked(Array, e) : e \in AllEncodings(v.children)}
      [] v.type = "MAP" ->
            {h \o e : h \in Heads(Map, Len(v.children) \div 2), e \in AllEncodings(v.children)}
            \cup {Marked(Map, e) : e \in AllEncodings(v.children)}
      [] v.type = "BAD" -> {v.data}
=============================================================================
