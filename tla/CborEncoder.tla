----------------------------- MODULE CborEncoder -----------------------------
(***************************************************************************)
(* The part of tinycbor's encoder that output_cbor.c uses (cborencoder.c). *)
(*                                                                         *)
(* An encoder is [data, size, full, needed, remaining, unknown, err]: the  *)
(* bytes before data.ptr, the size of the buffer, whether `end' is NULL    *)
(* because the buffer was too small, and then bytes_needed; the items      *)
(* still expected plus one; the flag UnknownLength; the first error that   *)
(* was returned.  Strings of the program are sequences whose elements are  *)
(* taken as bytes, whatever they are.                                      *)
(***************************************************************************)
EXTENDS Integers, Sequences, SequencesExt

CONSTANT Byte \* values of a byte of a number: 256

\* Major types, in the upper three bits of an initial byte, and what the lower
\* five bits mean.
Unsigned == 0
Negative == 32
ByteString == 64
TextString == 96
Array == 128
Simple == 224
Value8Bit == 24
IndefiniteLength == 31
FalseValue == 20
NullValue == 22
DoubleType == 251
BreakByte == 255

Indefinite == -1 \* CborIndefiniteLength

Failed(encoder, err) == [encoder EXCEPT !.err = IF @ = "none" THEN err ELSE @]

\* cbor_encoder_init
EncoderInit(size) == [data |-> << >>, size |-> size, full |-> FALSE, needed |-> 0,
                      remaining |-> 2, unknown |-> FALSE, err |-> "none"]

WouldOverflow(encoder, len) ==
    IF encoder.full THEN encoder.needed + len > 0
                    ELSE Len(encoder.data) + len > encoder.size

\* append_to_buffer with advance_ptr
AppendToBuffer(encoder, bytes) ==
    IF WouldOverflow(encoder, Len(bytes))
    THEN Failed([encoder EXCEPT
                    !.needed = IF encoder.full THEN @ + Len(bytes)
                               ELSE Len(bytes) - (encoder.size - Len(encoder.data)),
                    !.full = TRUE], "out of memory")
    ELSE [encoder EXCEPT !.data = @ \o bytes]

\* The last bytes of a number that put64 wrote.
BigEndian(ui, width) ==
    FoldLeft(LAMBDA acc, i : [left |-> acc.left \div Byte,
                              bytes |-> <<acc.left % Byte>> \o acc.bytes],
             [left |-> ui, bytes |-> << >>], [i \in 1..width |-> i]).bytes

\* The logarithm of the number of bytes that are needed.
More(ui) == IF ui > Byte^4 - 1 THEN 3 ELSE IF ui > Byte^2 - 1 THEN 2
            ELSE IF ui > Byte - 1 THEN 1 ELSE 0

EncodeNumberNoUpdate(encoder, ui, major) ==
    AppendToBuffer(encoder, IF ui < Value8Bit THEN <<major + ui>>
                            ELSE <<major + Value8Bit + More(ui)>> \o BigEndian(ui, 2^More(ui)))

SaturatedDecrement(encoder) ==
    [encoder EXCEPT !.remaining = IF @ > 0 THEN @ - 1 ELSE @]

EncodeNumber(encoder, ui, major) ==
    EncodeNumberNoUpdate(SaturatedDecrement(encoder), ui, major)

\* cbor_encode_int: the sign bit makes the type, negatives are complemented.
EncodeInt(encoder, value) ==
    IF value < 0 THEN EncodeNumber(encoder, -1 - value, Negative)
                 ELSE EncodeNumber(encoder, value, Unsigned)

\* cbor_encode_simple_value, also cbor_encode_boolean and cbor_encode_null
EncodeSimple(encoder, value) == EncodeNumber(encoder, value, Simple)

\* cbor_encode_floating_point for a double, whose bits are a number here.
EncodeDouble(encoder, value) ==
    AppendToBuffer(SaturatedDecrement(encoder), <<DoubleType>> \o BigEndian(value, 8))

\* encode_string
EncodeString(encoder, string, major) ==
    AppendToBuffer(EncodeNumber(encoder, Len(string), major), string)

\* cbor_encoder_create_array: the container, which goes on where the encoder is,
\* and what is left of the encoder.
CreateArray(encoder, length) ==
    LET container == [encoder EXCEPT !.remaining = length + 1,
                                     !.unknown = (length = Indefinite)]
    IN  IF length = Indefinite THEN AppendToBuffer(container, <<Array + IndefiniteLength>>)
        ELSE EncodeNumberNoUpdate(container, length, Array)
AfterCreate(encoder) == SaturatedDecrement(encoder)

\* cbor_encoder_close_container
CloseContainer(encoder, container) ==
    LET closed == [encoder EXCEPT !.data = container.data, !.needed = container.needed,
                                  !.full = container.full, !.err = container.err]
    IN  IF container.unknown THEN AppendToBuffer(closed, <<BreakByte>>)
        ELSE IF container.remaining = 0 THEN Failed(closed, "too many items")
        ELSE IF container.remaining # 1 THEN Failed(closed, "too few items")
        ELSE IF closed.full THEN Failed(closed, "out of memory") ELSE closed

-----------------------------------------------------------------------------
\* What RFC 7049 makes of the bytes b from position i on, for items of definite
\* length: the type, the value, and where the next item is.
NumberAt(b, i, width) == FoldLeft(LAMBDA n, d : n * Byte + d, 0, SubSeq(b, i, i + width - 1))

HeadAt(b, i) ==
    LET info == b[i] % 32
        width == IF info < Value8Bit THEN 0 ELSE 2^(info - Value8Bit)
    IN  [major |-> b[i] - info, next |-> i + 1 + width,
         value |-> IF width = 0 THEN info ELSE NumberAt(b, i + 1, width)]

RECURSIVE ItemsAt(_, _, _)
ItemAt(b, i) ==
    LET head == HeadAt(b, i)
        str == head.next + head.value
    IN  CASE head.major \in {ByteString, TextString} ->
               [type |-> head.major, value |-> SubSeq(b, head.next, str - 1), next |-> str]
          [] head.major = Negative -> [type |-> Unsigned, value |-> <<-1 - head.value>>,
                                       next |-> head.next]
          [] b[i] = DoubleType -> [type |-> DoubleType, value |-> <<head.value>>,
                                   next |-> head.next]
          [] head.major = Array ->
               LET items == ItemsAt(b, head.next, head.value)
               IN  [type |-> Array, value |-> [k \in 1..Len(items) |-> items[k].value[1]],
                    next |-> IF items = << >> THEN head.next ELSE Last(items).next]
          [] OTHER -> [type |-> head.major, value |-> <<head.value>>, next |-> head.next]

\* n items, or as many as there are.
ItemsAt(b, i, n) == IF n = 0 \/ i > Len(b) THEN << >>
                    ELSE LET item == ItemAt(b, i) IN <<item>> \o ItemsAt(b, item.next, n - 1)
=============================================================================
