----------------------------- MODULE CborHeader -----------------------------
(***************************************************************************)
(* The head of a CBOR data item (wpcp_cbor.c): a byte with the major type  *)
(* and either a small number itself, or how many bytes of number follow.   *)
(*                                                                         *)
(* The library writes heads in three places and reads them in two; what    *)
(* they have in common is stated once here.  Bytes are numbers.  The sizes *)
(* of the code are constants, so that TLC's numbers are enough for the     *)
(* longest form.                                                           *)
(***************************************************************************)
EXTENDS Integers, Sequences, SequencesExt

CONSTANTS
    ADDITONAL_BYTES_1,  \* 24 in the code: the first number not in the head
    Width               \* <<1, 2, 4, 8>> in the code: bytes of the forms

ASSUME HeaderAssumption ==
    /\ ADDITONAL_BYTES_1 \in Nat /\ ADDITONAL_BYTES_1 > 4
    /\ Width \in [1..4 -> Nat \ {0}]
    /\ \A i, j \in 1..4 : i < j => Width[i] < Width[j]

(* enum wpcp_cbor_major_type_t                                             *)
UnsignedInteger == 0
NegativeInteger == 1
ByteString == 2
TextString == 3
Array == 4
Map == 5
Tag == 6
FloatAndSimple == 7

(* The values of the lower part of a head: the small numbers, four forms   *)
(* with bytes, three that are reserved, and "indefinite length".           *)
Infos == ADDITONAL_BYTES_1 + 8
Indefinite == Infos - 1

(* The number of values of a byte (256 in the code).                       *)
Byte == 8 * Infos

StopCode == Byte - 1

(* enum wpcp_cbor_simple_type_t: the last numbers that fit in a head.      *)
SimpleFalse == ADDITONAL_BYTES_1 - 4
SimpleTrue == ADDITONAL_BYTES_1 - 3
SimpleNull == ADDITONAL_BYTES_1 - 2
SimpleUndefined == ADDITONAL_BYTES_1 - 1

(* The numbers below Power(n) fit in n bytes, those below Limit(i) in the  *)
(* bytes of form i.                                                        *)
Power(n) == LET power[i \in 0..n] == IF i = 0 THEN 1 ELSE power[i - 1] * Byte
            IN power[n]

Limit(i) == Power(Width[i])

ToBytes(n, width) == [i \in 1..width |-> (n \div Power(width - i)) % Byte]

FromBytes(bytes) ==
    LET number[i \in 0..Len(bytes)] ==
          IF i = 0 THEN 0 ELSE number[i - 1] * Byte + bytes[i]
    IN number[Len(bytes)]

-----------------------------------------------------------------------------
(* Writing                                                                 *)

(* wpcp_cbor_construct_header                                              *)
ConstructHeader(type, info) == type * Infos + info

(* wpcp_cbor_write_header_and_uint8 to _uint64: form i, 0 for none.        *)
WriteForm(type, n, i) ==
    IF i = 0 THEN <<ConstructHeader(type, n)>>
    ELSE <<ConstructHeader(type, ADDITONAL_BYTES_1 + i - 1)>> \o ToBytes(n, Width[i])

(* wpcp_cbor_write_buffer_write_type_and_uint32_value                      *)
WriteUint32(type, n) ==
    WriteForm(type, n, CASE n < ADDITONAL_BYTES_1 -> 0
                         [] n >= ADDITONAL_BYTES_1 /\ n < Limit(1) -> 1
                         [] n >= Limit(1) /\ n < Limit(2) -> 2
                         [] n >= Limit(2) -> 3)

(* wpcp_cbor_write_buffer_write_type_and_uint8_value, with its cast.       *)
WriteUint8(type, n) ==
    LET value == n % Limit(1)
    IN WriteForm(type, value, IF value < ADDITONAL_BYTES_1 THEN 0 ELSE 1)

(* wpcp_cbor_write_buffer_write_type_and_uint64_value                      *)
WriteUint64(type, n) ==
    IF n < Limit(3) THEN WriteUint32(type, n) ELSE WriteForm(type, n, 4)

(* Mutant: a number of exactly one byte too much gets the one byte form.   *)
ByteSize_Inclusive(n) ==
    CASE n < ADDITONAL_BYTES_1 -> 1
      [] n >= ADDITONAL_BYTES_1 /\ n <= Limit(1) -> 1 + Width[1]
      [] n > Limit(1) /\ n < Limit(2) -> 1 + Width[2]
      [] n >= Limit(2) -> 1 + Width[3]

(* wpcp_cbor_byte_size                                                     *)
ByteSize(n) ==
    CASE n < ADDITONAL_BYTES_1 -> 1
      [] n >= ADDITONAL_BYTES_1 /\ n < Limit(1) -> 1 + Width[1]
      [] n >= Limit(1) /\ n < Limit(2) -> 1 + Width[2]
      [] n >= Limit(2) -> 1 + Width[3]

(* wpcp_cbor_write_type_with_value, the writer without a buffer.           *)
WriteTypeWithValue(type, n) ==
    LET form == CHOOSE i \in 0..3 : ByteSize(n) = 1 + IF i = 0 THEN 0 ELSE Width[i]
        value == IF form = 0 THEN n ELSE n % Limit(form)
    IN WriteForm(type, value, form)

-----------------------------------------------------------------------------
(* Reading: a cursor is the number of bytes already taken.  It is moved    *)
(* before the end is looked at, so a failed read leaves it moved.          *)

(* wpcp_cbor_read_buffer_read_raw gives something.                         *)
Available(bytes, begin, length) == begin + length <= Len(bytes)

(* What reading a head gives: success, type, info, number, next cursor.    *)
ReadHead(ok, b, n, next) ==
    [ok |-> ok, type |-> b \div Infos, info |-> b % Infos, value |-> n, begin |-> next]

(* The first byte and the bytes of the forms the caller knows.             *)
ReadForms(bytes, begin, forms) ==
    IF ~Available(bytes, begin, 1) THEN ReadHead(FALSE, 0, 0, begin + 1)
    ELSE LET b == bytes[begin + 1]
             info == b % Infos
             form == info - ADDITONAL_BYTES_1 + 1
             next == begin + 1 + Width[form]
         IN CASE info < ADDITONAL_BYTES_1 -> ReadHead(TRUE, b, info, begin + 1)
              [] form \in forms /\ Available(bytes, begin + 1, Width[form]) ->
                    ReadHead(TRUE, b, FromBytes(SubSeq(bytes, begin + 2, next)), next)
              [] form \in forms /\ ~Available(bytes, begin + 1, Width[form]) ->
                    ReadHead(FALSE, b, 0, next)
              [] OTHER -> ReadHead(FALSE, b, 0, begin + 1)

(* wpcp_cbor_read_buffer_read_specific_header_and_uint32, the reader of    *)
(* what the library itself expects.                                        *)
ReadHeader32(bytes, begin, type) ==
    LET h == ReadForms(bytes, begin, 1..3) IN [h EXCEPT !.ok = @ /\ h.type = type]

(* The head of any value: wpcp_cbor_read_buffer_read_wpcp_value up to its  *)
(* allocation.                                                             *)
ReadHeader64(bytes, begin) ==
    LET h == ReadForms(bytes, begin, 1..4)
    IN IF /\ Available(bytes, begin, 1)
          /\ h.info = Indefinite
          /\ h.type \in {ByteString, TextString, Array, Map}
       THEN [h EXCEPT !.ok = TRUE] ELSE h
=============================================================================
